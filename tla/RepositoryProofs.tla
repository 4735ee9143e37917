--------------------------- MODULE RepositoryProofs ---------------------------
(***************************************************************************)
(* Proofs about the calls of a repository, for any keys, values and        *)
(* filters, whatever others do to the table in the meantime; with those    *)
(* about the start they make the inductive invariant of Application.       *)
(***************************************************************************)
EXTENDS ApplicationProofs, FiniteSetTheorems

\* What Repository!Row may be at a key.
MaybeRow == Repository!Row \cup {None}

Table == [Ids -> MaybeRow]

\* What a repository keeps.
RepositoryIInv ==
  /\ Repository!RepositoryTypeOK
  /\ IsFiniteSet(loose)
  /\ Repository!CallInv

----------------------------------------------------------------------------
(* What a statement does to the table. *)

LEMMA NoneIsNoRow == None \notin Repository!Row /\ None \notin Values
BY ApplicationAssumption DEF Repository!RepositoryAssumption, Repository!Row

\* The cardinality that SqlRepository speaks of.
LEMMA SameCardinality ==
  /\ \A S : Repository!IsFiniteSet(S) <=> IsFiniteSet(S)
  /\ \A S : Repository!Cardinality(S) = Cardinality(S)
BY DEF Repository!IsFiniteSet, IsFiniteSet, Repository!Cardinality, Cardinality

LEMMA UpdateRow ==
  ASSUME rows \in Table, NEW ids, NEW d \in Values, \A i \in ids : i \in Ids => rows[i] # None,
         NEW t, t = Repository!Update(ids, d)
  PROVE  /\ t \in Table
         /\ \A i \in Ids : /\ i \in ids => /\ t[i] # None /\ t[i].value = d
                                           /\ t[i].deleted = rows[i].deleted
                           /\ i \notin ids => t[i] = rows[i]
<1>1. t = [i \in Ids |-> IF i \in ids THEN [rows[i] EXCEPT !.value = d] ELSE rows[i]]
  BY DEF Repository!Update
<1>2. ASSUME NEW i \in Ids
      PROVE  /\ t[i] \in MaybeRow
             /\ i \in ids => t[i] # None /\ t[i].value = d /\ t[i].deleted = rows[i].deleted
             /\ i \notin ids => t[i] = rows[i]
  <2>1. CASE i \in ids
    <3>1. rows[i] \in Repository!Row
      BY <2>1 DEF Table, MaybeRow
    <3>2. t[i] = [rows[i] EXCEPT !.value = d]
      BY <1>1, <2>1
    <3>3. t[i] \in Repository!Row /\ t[i].value = d /\ t[i].deleted = rows[i].deleted
      BY <3>1, <3>2 DEF Repository!Row
    <3>. QED
      BY <2>1, <3>3, NoneIsNoRow DEF MaybeRow
  <2>2. CASE i \notin ids
    BY <1>1, <2>2 DEF Table
  <2>. QED
    BY <2>1, <2>2
<1>3. DOMAIN t = Ids /\ t = [i \in Ids |-> t[i]]
  BY <1>1
<1>. QED
  BY <1>2, <1>3 DEF Table

LEMMA DestroyRow ==
  ASSUME rows \in Table, NEW ids, NEW t, t = Repository!Destroy(ids)
  PROVE  /\ t \in Table
         /\ \A i \in Ids : /\ i \in ids => t[i] = None \/ t[i].deleted
                           /\ i \notin ids => t[i] = rows[i]
<1>1. t = [i \in Ids |-> IF i \notin ids \/ rows[i] = None THEN rows[i]
                         ELSE IF paranoid THEN [rows[i] EXCEPT !.deleted = TRUE] ELSE None]
  BY DEF Repository!Destroy
<1>2. ASSUME NEW i \in Ids
      PROVE  /\ t[i] \in MaybeRow
             /\ i \in ids => t[i] = None \/ t[i].deleted
             /\ i \notin ids => t[i] = rows[i]
  <2>1. CASE i \in ids /\ rows[i] # None /\ paranoid
    <3>1. rows[i] \in Repository!Row
      BY <2>1 DEF Table, MaybeRow
    <3>2. t[i] = [rows[i] EXCEPT !.deleted = TRUE]
      BY <1>1, <2>1
    <3>3. t[i] \in Repository!Row /\ t[i].deleted
      BY <3>1, <3>2 DEF Repository!Row
    <3>. QED
      BY <2>1, <3>3 DEF MaybeRow
  <2>2. CASE ~ (i \in ids /\ rows[i] # None /\ paranoid)
    BY <1>1, <2>2 DEF Table, MaybeRow
  <2>. QED
    BY <2>1, <2>2
<1>3. DOMAIN t = Ids /\ t = [i \in Ids |-> t[i]]
  BY <1>1
<1>. QED
  BY <1>2, <1>3 DEF Table

LEMMA InsertRow ==
  ASSUME rows \in Table, NEW ids, NEW d \in Values, NEW t, t = Repository!Insert(ids, d)
  PROVE  /\ t \in Table
         /\ \A i \in Ids : /\ i \in ids => t[i] # None /\ t[i].value = d /\ ~ t[i].deleted
                           /\ i \notin ids => t[i] = rows[i]
<1>1. PICK new : new = [value |-> d, deleted |-> FALSE]
  OBVIOUS
<1>2. new \in Repository!Row /\ new.value = d /\ ~ new.deleted /\ new # None
  <2>1. new \in Repository!Row
    BY <1>1, Zenon DEF Repository!Row
  <2>2. new.value = d /\ ~ new.deleted
    BY <1>1
  <2>. QED
    BY <2>1, <2>2, NoneIsNoRow
<1>3. t = [i \in Ids |-> IF i \in ids THEN new ELSE rows[i]]
  BY <1>1 DEF Repository!Insert
<1>. QED
  BY <1>2, <1>3 DEF Table, MaybeRow

LEMMA UpsertRow ==
  ASSUME rows \in Table, NEW i \in Ids, NEW d \in Values, NEW t, t = Repository!Upsert(i, d)
  PROVE  /\ t \in Table
         /\ t[i] # None /\ t[i].value = d
         /\ \A j \in Ids : j # i => t[j] = rows[j]
<1>1. CASE rows[i] = None
  <2>1. t = Repository!Insert({i}, d)
    BY <1>1 DEF Repository!Upsert
  <2>. QED
    BY <2>1, InsertRow
<1>2. CASE rows[i] # None
  <2>1. t = Repository!Update({i}, d)
    BY <1>2 DEF Repository!Upsert
  <2>. QED
    BY <1>2, <2>1, UpdateRow
<1>. QED
  BY <1>1, <1>2

----------------------------------------------------------------------------
(* What a statement does to the call. *)

LEMMA StartedCall ==
  ASSUME NEW op \in {"read", "update", "updateOne", "delete", "deleteOne", "create", "upsert"},
         NEW where \in Repository!Filter, NEW d \in Values \cup {None},
         NEW at \in {"updated", "found", "upserting", "ok"},
         NEW hit \in SUBSET Ids, NEW todo \in SUBSET Ids, NEW got \in SUBSET Ids,
         Repository!Started(op, where, d, at, hit, todo, got)
  PROVE  /\ call' \in Repository!Call /\ touched' = {}
         /\ call'.op = op /\ call'.where = where /\ call'.data = d /\ call'.at = at
         /\ call'.hit = hit /\ call'.todo = todo /\ call'.got = got
<1>1. PICK c : c = [op |-> op, where |-> where, data |-> d, at |-> at, hit |-> hit,
                    todo |-> todo, got |-> got]
  OBVIOUS
<1>2. call' = c /\ touched' = {}
  BY <1>1 DEF Repository!Started, Repository!Begin
<1>3. c \in Repository!Call
  BY <1>1 DEF Repository!Call
<1>4. /\ c.op = op /\ c.where = where /\ c.data = d /\ c.at = at
      /\ c.hit = hit /\ c.todo = todo /\ c.got = got
  BY <1>1
<1>. QED
  BY <1>2, <1>3, <1>4

LEMMA ByIdIsFilter ==
  ASSUME NEW ids \in SUBSET Ids, NEW w, w = Repository!ById(ids)
  PROVE  w \in Repository!Filter /\ w.by = "id" /\ w.ids = ids
BY DEF Repository!ById, Repository!Filter

LEMMA Called ==
  ASSUME call \in Repository!Call \cup {Repository!NoCall, Repository!Rejected},
         call.at \notin {"idle", "error"}
  PROVE  call \in Repository!Call /\ call # Repository!NoCall
BY DEF Repository!NoCall, Repository!Rejected

\* A call that is not under way, or that was rejected, promises nothing.
LEMMA NothingPromised ==
  ASSUME call'.at \in {"idle", "error"}
  PROVE  Repository!CallInv'
BY DEF Repository!CallInv, Repository!UpdatedRows, Repository!FoundRow, Repository!KeysGiven,
       Repository!UpsertedItems, Repository!UpdateAnswers, Repository!OkMeansDone

LEMMA CallRejected ==
  ASSUME Repository!Begin(Repository!Rejected) \/ call' = Repository!Rejected
  PROVE  call' = Repository!Rejected /\ Repository!CallInv'
<1>1. call' = Repository!Rejected /\ Repository!Rejected.at = "error"
  BY DEF Repository!Begin, Repository!Rejected
<1>. QED
  BY <1>1, NothingPromised

\* What is said of a call is said of the rows that others left alone.
LEMMA OthersWrite ==
  ASSUME Repository!CallInv, call \in Repository!Call, call' = call,
         touched \subseteq touched', \A i \in Ids \ touched' : rows'[i] = rows[i]
  PROVE  Repository!CallInv'
<1>1. \A where : \A i \in Ids \ touched' :
        i \in Repository!Matching(where)' <=> i \in Repository!Matching(where)
  BY DEF Repository!Matching, Repository!Visible
<1>2. \A where : Repository!Matching(where)' \subseteq Ids
  BY DEF Repository!Matching
<1>3. call.hit \subseteq Ids /\ call.got \subseteq Ids
  BY DEF Repository!Call
<1>4. Repository!UpdatedRows'
  <2>. SUFFICES ASSUME call.at = "updated" PROVE Repository!UpdatedRows'
    BY DEF Repository!UpdatedRows
  <2>1. Repository!Matching(call.where)' \ touched' \subseteq call.hit
    BY <1>1, <1>2 DEF Repository!CallInv, Repository!UpdatedRows
  <2>2. ASSUME NEW i \in call.hit \ touched'
        PROVE  /\ Repository!Visible(i)' /\ rows'[i].value = call.data
               /\ call.where.by = "id" => i \in call.where.ids
    BY <1>3 DEF Repository!CallInv, Repository!UpdatedRows, Repository!Visible
  <2>. QED
    BY <2>1, <2>2 DEF Repository!CallInv, Repository!UpdatedRows
<1>5. Repository!FoundRow'
  BY DEF Repository!CallInv, Repository!FoundRow
<1>6. Repository!KeysGiven'
  BY DEF Repository!CallInv, Repository!KeysGiven
<1>7. Repository!UpsertedItems'
  BY <1>3 DEF Repository!CallInv, Repository!UpsertedItems
<1>8. Repository!UpdateAnswers'
  BY <1>3 DEF Repository!CallInv, Repository!UpdateAnswers
<1>9. Repository!OkMeansDone'
  <2>. SUFFICES ASSUME call.at = "ok" PROVE Repository!OkMeansDone'
    BY DEF Repository!OkMeansDone
  <2>1. call.op = "delete" => Repository!Matching(call.where)' \subseteq touched'
    BY <1>1, <1>2 DEF Repository!CallInv, Repository!OkMeansDone
  <2>2. call.op = "deleteOne" => \A i \in call.got \ touched' : ~ Repository!Visible(i)'
    BY <1>3 DEF Repository!CallInv, Repository!OkMeansDone, Repository!Visible
  <2>3. call.op \in {"create", "upsert"} => call.where.ids \ touched' \subseteq Ids
    BY DEF Repository!CallInv, Repository!KeysGiven, Repository!Call, Repository!Filter
  <2>. QED
    BY <2>1, <2>2, <2>3 DEF Repository!CallInv, Repository!OkMeansDone, Repository!Visible
<1>. QED
  BY <1>4, <1>5, <1>6, <1>7, <1>8, <1>9 DEF Repository!CallInv

----------------------------------------------------------------------------
(* One lemma for each operation. *)

LEMMA UpdateRowsStep ==
  ASSUME RepositoryIInv, NEW where \in Filters, NEW op, NEW d \in Values,
         Repository!UpdateRows(op, where, d)
  PROVE  RepositoryIInv'
<1>1. where \in Repository!Filter
  BY ApplicationAssumption DEF Repository!RepositoryAssumption
<1>2. PICK ids : ids = Repository!Matching(where)
  OBVIOUS
<1>3. /\ op \in {"update", "updateOne"} /\ loose' = loose
      /\ Repository!Started(op, where, d, "updated", ids, {}, {})
      /\ rows' = Repository!Update(ids, d)
  BY <1>2 DEF Repository!UpdateRows
<1>4. ids \subseteq Ids /\ \A i \in ids : rows[i] # None /\ ~ rows[i].deleted
  BY <1>2 DEF Repository!Matching, Repository!Visible
<1>5. /\ rows' \in Table
      /\ \A i \in Ids : /\ i \in ids => /\ rows'[i] # None /\ rows'[i].value = d
                                        /\ rows'[i].deleted = rows[i].deleted
                        /\ i \notin ids => rows'[i] = rows[i]
  BY <1>3, <1>4, UpdateRow
     DEF RepositoryIInv, Repository!RepositoryTypeOK, Table, MaybeRow
<1>6. /\ call' \in Repository!Call /\ touched' = {}
      /\ call'.op = op /\ call'.where = where /\ call'.data = d /\ call'.at = "updated"
      /\ call'.hit = ids /\ call'.todo = {}
  <2>1. /\ op \in {"read", "update", "updateOne", "delete", "deleteOne", "create", "upsert"}
        /\ d \in Values \cup {None} /\ ids \in SUBSET Ids /\ {} \in SUBSET Ids
        /\ "updated" \in {"updated", "found", "upserting", "ok"}
    BY <1>3, <1>4
  <2>2. Repository!Started(op, where, d, "updated", ids, {}, {})
    BY <1>3
  <2>3. call' \in Repository!Call /\ touched' = {}
    BY <1>1, <2>1, <2>2, StartedCall
  <2>4. call'.op = op /\ call'.where = where /\ call'.data = d /\ call'.at = "updated"
    BY <1>1, <2>1, <2>2, StartedCall
  <2>5. call'.hit = ids /\ call'.todo = {}
    BY <2>2 DEF Repository!Started, Repository!Begin
  <2>. QED
    BY <2>3, <2>4, <2>5
<1>7. Repository!UpdatedRows'
  <2>1. \A i \in ids : Repository!Visible(i)' /\ rows'[i].value = d
    BY <1>4, <1>5 DEF Repository!Visible
  <2>2. Repository!Matching(where)' \subseteq ids
    BY <1>2, <1>5 DEF Repository!Matching, Repository!Visible
  <2>3. where.by = "id" => ids \subseteq where.ids
    BY <1>2 DEF Repository!Matching
  <2>. QED
    BY <1>3, <1>6, <2>1, <2>2, <2>3 DEF Repository!UpdatedRows
<1>8. Repository!CallInv'
  BY <1>6, <1>7 DEF Repository!CallInv, Repository!FoundRow, Repository!KeysGiven,
                    Repository!UpsertedItems, Repository!UpdateAnswers, Repository!OkMeansDone
<1>. QED
  BY <1>3, <1>5, <1>6, <1>8 DEF RepositoryIInv, Repository!RepositoryTypeOK, Table, MaybeRow

LEMMA FindUpdatedStep ==
  ASSUME RepositoryIInv, Repository!FindUpdated
  PROVE  RepositoryIInv'
<1>1. call \in Repository!Call /\ call.at = "updated"
  BY Called DEF Repository!FindUpdated, RepositoryIInv, Repository!RepositoryTypeOK
<1>2. PICK got \in IF call.op = "update" THEN {Repository!Matching(call.where)}
                   ELSE Repository!OneOf(Repository!Matching(call.where)) :
        call' = [call EXCEPT !.at = "ok", !.got = got]
  BY DEF Repository!FindUpdated
<1>3. UNCHANGED <<rows, loose, touched>>
  BY DEF Repository!FindUpdated
<1>4. PICK ids : ids = Repository!Matching(call.where)
  OBVIOUS
<1>5. /\ got \subseteq ids /\ ids \subseteq Ids
      /\ call.op = "update" => got = ids
      /\ call.op # "update" => (ids # {} => got # {})
  <2>1. ids \subseteq Ids
    BY <1>4 DEF Repository!Matching
  <2>2. CASE call.op = "update"
    BY <1>2, <1>4, <2>1, <2>2
  <2>3. CASE call.op # "update"
    <3>1. got \subseteq ids /\ Cardinality(got) = IF ids = {} THEN 0 ELSE 1
      <4>1. got \in Repository!OneOf(ids)
        BY <1>2, <1>4, <2>3
      <4>. QED
        BY <4>1, SameCardinality DEF Repository!OneOf
    <3>2. Cardinality({}) = 0
      BY FS_EmptySet
    <3>. QED
      BY <2>1, <2>3, <3>1, <3>2
  <2>. QED
    BY <2>2, <2>3
<1>6. /\ call' \in Repository!Call
      /\ call'.op = call.op /\ call'.where = call.where /\ call'.data = call.data
      /\ call'.at = "ok" /\ call'.hit = call.hit /\ call'.got = got
  BY <1>1, <1>2, <1>5 DEF Repository!Call
<1>7. /\ call.op \in {"update", "updateOne"}
      /\ ids \ touched \subseteq call.hit
      /\ \A i \in call.hit \ touched :
           /\ Repository!Visible(i) /\ rows[i].value = call.data
           /\ call.where.by = "id" => i \in call.where.ids
  BY <1>1, <1>4 DEF RepositoryIInv, Repository!CallInv, Repository!UpdatedRows
<1>8. Repository!UpdateAnswers'
  <2>1. \A i \in got \ touched : i \in call.hit /\ rows[i].value = call.data
    BY <1>5, <1>7
  <2>2. call.where.by = "id" => call.hit \ touched \subseteq ids
    BY <1>1, <1>4, <1>7 DEF Repository!Matching, Repository!Call
  <2>. QED
    BY <1>3, <1>5, <1>6, <1>7, <2>1, <2>2 DEF Repository!UpdateAnswers
<1>9. Repository!CallInv'
  BY <1>6, <1>7, <1>8 DEF Repository!CallInv, Repository!FoundRow, Repository!KeysGiven,
                          Repository!UpsertedItems, Repository!UpdatedRows, Repository!OkMeansDone
<1>. QED
  BY <1>3, <1>6, <1>9 DEF RepositoryIInv, Repository!RepositoryTypeOK

LEMMA DeleteStep ==
  ASSUME RepositoryIInv, NEW where \in Filters, Repository!Delete(where)
  PROVE  RepositoryIInv'
<1>1. where \in Repository!Filter
  BY ApplicationAssumption DEF Repository!RepositoryAssumption
<1>2. PICK ids : ids = Repository!Matching(where)
  OBVIOUS
<1>3. /\ Repository!Started("delete", where, None, "ok", ids, {}, {})
      /\ rows' = Repository!Destroy(ids) /\ loose' = loose
  BY <1>2 DEF Repository!Delete
<1>4. ids \subseteq Ids
  BY <1>2 DEF Repository!Matching
<1>5. /\ rows' \in Table
      /\ \A i \in Ids : /\ i \in ids => rows'[i] = None \/ rows'[i].deleted
                        /\ i \notin ids => rows'[i] = rows[i]
  BY <1>3, DestroyRow DEF RepositoryIInv, Repository!RepositoryTypeOK, Table, MaybeRow
<1>6. /\ call' \in Repository!Call /\ touched' = {}
      /\ call'.op = "delete" /\ call'.where = where /\ call'.at = "ok"
  <2>1. /\ "delete" \in {"read", "update", "updateOne", "delete", "deleteOne", "create", "upsert"}
        /\ None \in Values \cup {None} /\ ids \in SUBSET Ids /\ {} \in SUBSET Ids
        /\ "ok" \in {"updated", "found", "upserting", "ok"}
    BY <1>4
  <2>. QED
    BY <1>1, <1>3, <2>1, StartedCall
<1>7. Repository!Matching(where)' = {}
  BY <1>2, <1>5 DEF Repository!Matching, Repository!Visible
<1>8. Repository!CallInv'
  BY <1>6, <1>7 DEF Repository!CallInv, Repository!UpdatedRows, Repository!FoundRow,
                    Repository!KeysGiven, Repository!UpsertedItems, Repository!UpdateAnswers,
                    Repository!OkMeansDone
<1>. QED
  BY <1>3, <1>5, <1>6, <1>8 DEF RepositoryIInv, Repository!RepositoryTypeOK, Table, MaybeRow

LEMMA FindToDeleteStep ==
  ASSUME RepositoryIInv, NEW where \in Filters, NEW raw, Repository!FindToDelete(where, raw)
  PROVE  RepositoryIInv'
<1>. USE DEF RepositoryIInv, Repository!RepositoryTypeOK
<1>1. where \in Repository!Filter
  BY ApplicationAssumption DEF Repository!RepositoryAssumption
<1>2. UNCHANGED <<rows, loose>>
  BY DEF Repository!FindToDelete
<1>3. CASE Repository!Begin(Repository!Rejected)
  <2>1. touched' = {}
    BY <1>3 DEF Repository!Begin
  <2>. QED
    BY <1>2, <1>3, <2>1, CallRejected
<1>4. ASSUME NEW got \in Repository!OneOf(Repository!Matching(where)),
             Repository!Started("deleteOne", where, None, IF got = {} THEN "ok" ELSE "found",
                                {}, {}, got)
      PROVE  RepositoryIInv'
  <2>1. got \in SUBSET Ids
    BY DEF Repository!OneOf, Repository!Matching
  <2>2. PICK at : at = IF got = {} THEN "ok" ELSE "found"
    OBVIOUS
  <2>3. /\ "deleteOne" \in {"read", "update", "updateOne", "delete", "deleteOne", "create", "upsert"}
        /\ None \in Values \cup {None} /\ {} \in SUBSET Ids
        /\ at \in {"updated", "found", "upserting", "ok"}
    BY <2>2
  <2>4. Repository!Started("deleteOne", where, None, at, {}, {}, got)
    BY <1>4, <2>2
  <2>5. call' \in Repository!Call /\ touched' = {}
    BY <1>1, <2>1, <2>3, <2>4, StartedCall
  <2>6. call'.op = "deleteOne" /\ call'.at = at /\ call'.got = got /\ call'.todo = {}
    BY <2>4 DEF Repository!Started, Repository!Begin
  <2>7. Repository!CallInv'
    BY <2>2, <2>5, <2>6
       DEF Repository!CallInv, Repository!UpdatedRows, Repository!FoundRow, Repository!KeysGiven,
           Repository!UpsertedItems, Repository!UpdateAnswers, Repository!OkMeansDone
  <2>. QED
    BY <1>2, <2>5, <2>7
<1>. QED
  BY <1>3, <1>4 DEF Repository!FindToDelete

LEMMA DestroyFoundStep ==
  ASSUME RepositoryIInv, Repository!DestroyFound
  PROVE  RepositoryIInv'
<1>. USE DEF RepositoryIInv, Repository!RepositoryTypeOK
<1>1. call \in Repository!Call /\ call.at = "found"
  BY Called DEF Repository!DestroyFound
<1>2. /\ rows' = Repository!Destroy(call.got) /\ UNCHANGED <<loose, touched>>
      /\ call' = [call EXCEPT !.at = "ok", !.hit = call.got]
  BY DEF Repository!DestroyFound
<1>3. /\ rows' \in Table
      /\ \A i \in Ids : i \in call.got => rows'[i] = None \/ rows'[i].deleted
  BY <1>2, DestroyRow DEF Table, MaybeRow
<1>4. /\ call' \in Repository!Call
      /\ call'.op = call.op /\ call'.at = "ok" /\ call'.got = call.got
      /\ call.got \subseteq Ids
  BY <1>1, <1>2 DEF Repository!Call
<1>5. call.op = "deleteOne"
  BY <1>1 DEF Repository!CallInv, Repository!FoundRow
<1>6. \A i \in call.got : ~ Repository!Visible(i)'
  BY <1>3, <1>4 DEF Repository!Visible
<1>7. Repository!CallInv'
  BY <1>4, <1>5, <1>6
     DEF Repository!CallInv, Repository!UpdatedRows, Repository!FoundRow, Repository!KeysGiven,
         Repository!UpsertedItems, Repository!UpdateAnswers, Repository!OkMeansDone
<1>. QED
  BY <1>2, <1>3, <1>4, <1>7 DEF Table, MaybeRow

LEMMA CreateStep ==
  ASSUME RepositoryIInv, NEW ids \in SUBSET Ids, NEW d \in Values, Repository!Create(ids, d)
  PROVE  RepositoryIInv'
<1>. USE DEF RepositoryIInv, Repository!RepositoryTypeOK
<1>1. CASE Repository!Begin(Repository!Rejected) /\ UNCHANGED <<rows, loose>>
  <2>1. touched' = {}
    BY <1>1 DEF Repository!Begin
  <2>. QED
    BY <1>1, <2>1, CallRejected
<1>2. CASE /\ Repository!Started("create", Repository!ById(ids), d, "ok", ids, {}, {})
           /\ rows' = Repository!Insert(ids, d)
           /\ UNCHANGED loose
  <2>1. PICK where : where = Repository!ById(ids)
    OBVIOUS
  <2>2. where \in Repository!Filter /\ where.by = "id" /\ where.ids = ids
    BY <2>1, ByIdIsFilter
  <2>3. /\ "create" \in {"read", "update", "updateOne", "delete", "deleteOne", "create", "upsert"}
        /\ d \in Values \cup {None} /\ {} \in SUBSET Ids
        /\ "ok" \in {"updated", "found", "upserting", "ok"}
    OBVIOUS
  <2>4. Repository!Started("create", where, d, "ok", ids, {}, {})
    BY <1>2, <2>1
  <2>5. call' \in Repository!Call /\ touched' = {}
    BY <2>2, <2>3, <2>4, StartedCall
  <2>6. call'.op = "create" /\ call'.where = where /\ call'.data = d /\ call'.at = "ok"
    BY <2>4 DEF Repository!Started, Repository!Begin
  <2>7. /\ rows' \in Table
        /\ \A i \in ids : rows'[i] # None /\ rows'[i].value = d /\ ~ rows'[i].deleted
    BY <1>2, InsertRow DEF Table, MaybeRow
  <2>8. Repository!OkMeansDone'
    BY <2>2, <2>6, <2>7 DEF Repository!OkMeansDone, Repository!Visible
  <2>9. Repository!CallInv'
    BY <2>2, <2>6, <2>8
       DEF Repository!CallInv, Repository!UpdatedRows, Repository!FoundRow, Repository!KeysGiven,
           Repository!UpsertedItems, Repository!UpdateAnswers
  <2>. QED
    BY <1>2, <2>5, <2>7, <2>9 DEF Table, MaybeRow
<1>. QED
  BY <1>1, <1>2 DEF Repository!Create

LEMMA UpsertAllStep ==
  ASSUME RepositoryIInv, NEW ids \in SUBSET Ids, NEW d \in Values, Repository!UpsertAll(ids, d)
  PROVE  RepositoryIInv'
<1>1. PICK where : where = Repository!ById(ids)
  OBVIOUS
<1>2. where \in Repository!Filter /\ where.by = "id" /\ where.ids = ids
  BY <1>1, ByIdIsFilter
<1>3. /\ "upsert" \in {"read", "update", "updateOne", "delete", "deleteOne", "create", "upsert"}
      /\ d \in Values \cup {None} /\ {} \in SUBSET Ids
      /\ "upserting" \in {"updated", "found", "upserting", "ok"}
  OBVIOUS
<1>4. /\ Repository!Started("upsert", where, d, "upserting", {}, ids, {})
      /\ UNCHANGED <<rows, loose>>
  BY <1>1 DEF Repository!UpsertAll
<1>5. call' \in Repository!Call /\ touched' = {}
  BY <1>2, <1>3, <1>4, StartedCall
<1>6. /\ call'.op = "upsert" /\ call'.where = where /\ call'.data = d /\ call'.at = "upserting"
      /\ call'.hit = {} /\ call'.todo = ids
  BY <1>4 DEF Repository!Started, Repository!Begin
<1>7. Repository!UpsertedItems'
  BY <1>2, <1>6 DEF Repository!UpsertedItems
<1>8. Repository!CallInv'
  BY <1>2, <1>6, <1>7
     DEF Repository!CallInv, Repository!UpdatedRows, Repository!FoundRow, Repository!KeysGiven,
         Repository!UpdateAnswers, Repository!OkMeansDone
<1>. QED
  BY <1>4, <1>5, <1>8 DEF RepositoryIInv, Repository!RepositoryTypeOK

LEMMA UpsertOneStep ==
  ASSUME RepositoryIInv, NEW i \in Ids, Repository!UpsertOne(i)
  PROVE  RepositoryIInv'
<1>. USE DEF RepositoryIInv, Repository!RepositoryTypeOK
<1>1. call \in Repository!Call /\ call.at = "upserting" /\ i \in call.todo
  BY Called DEF Repository!UpsertOne
<1>2. PICK at : at = IF call.todo = {i} THEN "ok" ELSE call.at
  OBVIOUS
<1>3. /\ rows' = Repository!Upsert(i, call.data) /\ UNCHANGED <<loose, touched>>
      /\ call' = [call EXCEPT !.at = at, !.hit = call.hit \cup {i}, !.todo = call.todo \ {i}]
  BY <1>2 DEF Repository!UpsertOne
<1>4. /\ call.op = "upsert" /\ call.data \in Values /\ call.where.by = "id"
      /\ call.where.ids = call.hit \cup call.todo
      /\ \A j \in call.hit \ touched : rows[j] # None /\ rows[j].value = call.data
      /\ call.hit \subseteq Ids
  BY <1>1 DEF Repository!CallInv, Repository!UpsertedItems, Repository!KeysGiven, Repository!Call
<1>5. /\ rows' \in Table
      /\ rows'[i] # None /\ rows'[i].value = call.data
      /\ \A j \in Ids : j # i => rows'[j] = rows[j]
  BY <1>3, <1>4, UpsertRow DEF Table, MaybeRow
<1>6. call' \in Repository!Call
  BY <1>1, <1>2, <1>3 DEF Repository!Call
<1>7. /\ call'.op = "upsert" /\ call'.where = call.where /\ call'.data = call.data
      /\ call'.at = at
      /\ call'.hit = call.hit \cup {i} /\ call'.todo = call.todo \ {i}
  BY <1>1, <1>3, <1>4 DEF Repository!Call
<1>8. \A j \in call'.hit \ touched : rows'[j] # None /\ rows'[j].value = call.data
  BY <1>4, <1>5, <1>7
<1>9. call'.where.ids = call'.hit \cup call'.todo
  BY <1>1, <1>4, <1>7
<1>10. Repository!CallInv'
  <2>1. CASE at = "ok"
    <3>1. call'.where.ids = call'.hit
      BY <1>1, <1>2, <1>7, <1>9, <2>1
    <3>2. Repository!OkMeansDone'
      BY <1>3, <1>7, <1>8, <3>1, <2>1 DEF Repository!OkMeansDone
    <3>. QED
      BY <1>4, <1>7, <2>1, <3>2
         DEF Repository!CallInv, Repository!UpdatedRows, Repository!FoundRow,
             Repository!KeysGiven, Repository!UpsertedItems, Repository!UpdateAnswers
  <2>2. CASE at = "upserting"
    <3>1. Repository!UpsertedItems'
      BY <1>3, <1>4, <1>7, <1>8, <1>9 DEF Repository!UpsertedItems
    <3>. QED
      BY <1>4, <1>7, <2>2, <3>1
         DEF Repository!CallInv, Repository!UpdatedRows, Repository!FoundRow,
             Repository!KeysGiven, Repository!UpdateAnswers, Repository!OkMeansDone
  <2>. QED
    BY <1>1, <1>2, <2>1, <2>2
<1>. QED
  BY <1>3, <1>5, <1>6, <1>10 DEF Table, MaybeRow

\* The statements that a rejected call leaves behind are finitely many.
LEMMA LeftBehind ==
  ASSUME NEW T \in SUBSET Ids, NEW d \in Values, NEW new,
         new = {[id |-> j, value |-> d] : j \in T}
  PROVE  IsFiniteSet(new) /\ new \subseteq Repository!Statement
<1>1. new \subseteq Repository!Statement
  BY DEF Repository!Statement
<1>2. IsFiniteSet(Ids)
  BY ApplicationAssumption, SameCardinality DEF Repository!RepositoryAssumption
<1>3. IsFiniteSet(T)
  BY <1>2, FS_Subset
<1>4. PICK f : f = [j \in T |-> [id |-> j, value |-> d]]
  OBVIOUS
<1>5. f \in Surjection(T, new)
  BY <1>4 DEF Surjection
<1>. QED
  BY <1>1, <1>3, <1>5, FS_Surjection

LEMMA StatementFailsStep ==
  ASSUME RepositoryIInv, Repository!StatementFails
  PROVE  RepositoryIInv'
<1>. USE DEF RepositoryIInv, Repository!RepositoryTypeOK
<1>1. call \in Repository!Call /\ call.at \in {"updated", "found", "upserting"}
  BY Called DEF Repository!StatementFails
<1>2. /\ Repository!Cardinality(loose') <= MaxLoose
      /\ call' = Repository!Rejected /\ UNCHANGED <<rows, touched>>
  BY DEF Repository!StatementFails
<1>3. PICK failed : loose' = loose \cup {[id |-> j, value |-> call.data] : j \in call.todo \ failed}
  BY DEF Repository!StatementFails
<1>4. PICK T, d : T = call.todo \ failed /\ d = call.data
  OBVIOUS
<1>5. PICK new : new = {[id |-> j, value |-> d] : j \in T}
  OBVIOUS
<1>6. loose' = loose \cup new
  BY <1>3, <1>4, <1>5
<1>7. IsFiniteSet(new) /\ new \subseteq Repository!Statement
  <2>1. T \in SUBSET Ids
    BY <1>1, <1>4 DEF Repository!Call
  <2>2. CASE call.at = "upserting"
    <3>1. d \in Values
      BY <1>4, <2>2 DEF Repository!CallInv, Repository!UpsertedItems
    <3>. QED
      BY <1>5, <2>1, <3>1, LeftBehind
  <2>3. CASE call.at \in {"updated", "found"}
    <3>1. T = {}
      BY <1>4, <2>3 DEF Repository!CallInv, Repository!UpdatedRows, Repository!FoundRow
    <3>2. new = {}
      BY <1>5, <3>1
    <3>. QED
      BY <3>2, FS_EmptySet
  <2>. QED
    BY <1>1, <2>2, <2>3
<1>8. IsFiniteSet(loose')
  BY <1>6, <1>7, FS_Union
<1>9. Repository!CallInv'
  BY <1>2, CallRejected
<1>. QED
  BY <1>2, <1>6, <1>7, <1>8, <1>9

LEMMA OthersStep ==
  ASSUME RepositoryIInv, NEW i \in Ids, call' = call,
         rows' \in Table, \A j \in Ids : j # i => rows'[j] = rows[j],
         touched' = IF call = Repository!NoCall THEN {} ELSE touched \cup {i}
  PROVE  Repository!CallInv' /\ touched' \subseteq Ids
<1>. USE DEF RepositoryIInv, Repository!RepositoryTypeOK
<1>1. CASE call \in {Repository!NoCall, Repository!Rejected}
  <2>1. call'.at \in {"idle", "error"}
    BY <1>1 DEF Repository!NoCall, Repository!Rejected
  <2>. QED
    BY <2>1, NothingPromised
<1>2. CASE call \notin {Repository!NoCall, Repository!Rejected}
  <2>1. call \in Repository!Call /\ touched' = touched \cup {i}
    BY <1>2
  <2>. QED
    BY <2>1, OthersWrite
<1>. QED
  BY <1>1, <1>2

LEMMA LooseStatementStep ==
  ASSUME RepositoryIInv, NEW s \in loose, Repository!LooseStatement(s)
  PROVE  RepositoryIInv'
<1>. USE DEF RepositoryIInv, Repository!RepositoryTypeOK
<1>1. loose' = loose \ {s} /\ call' = call
  BY DEF Repository!LooseStatement
<1>2. s.id \in Ids /\ s.value \in Values
  BY DEF Repository!Statement
<1>3. /\ IsFiniteSet(loose') /\ loose' \subseteq Repository!Statement
      /\ Repository!Cardinality(loose') <= MaxLoose
  <2>1. IsFiniteSet(loose') /\ Cardinality(loose') <= Cardinality(loose)
    BY <1>1, FS_Subset
  <2>2. Cardinality(loose) \in Nat /\ Cardinality(loose') \in Nat /\ MaxLoose \in Nat
    BY <2>1, FS_CardinalityType, ApplicationAssumption DEF Repository!RepositoryAssumption
  <2>. QED
    BY <1>1, <2>1, <2>2, SameCardinality
<1>4. rows' \in Table /\ Repository!CallInv' /\ touched' \subseteq Ids
  <2>1. CASE UNCHANGED <<rows, touched>>
    <3>1. Repository!CallInv'
      BY <1>1, <2>1
         DEF Repository!CallInv, Repository!UpdatedRows, Repository!FoundRow,
             Repository!KeysGiven, Repository!UpsertedItems, Repository!UpdateAnswers,
             Repository!OkMeansDone, Repository!Matching, Repository!Visible
    <3>. QED
      BY <2>1, <3>1 DEF Table, MaybeRow
  <2>2. CASE /\ rows' = Repository!Upsert(s.id, s.value)
             /\ touched' = IF call = Repository!NoCall THEN {} ELSE touched \cup {s.id}
    <3>1. rows' \in Table /\ \A j \in Ids : j # s.id => rows'[j] = rows[j]
      BY <1>2, <2>2, UpsertRow DEF Table, MaybeRow
    <3>. QED
      BY <1>1, <1>2, <2>2, <3>1, OthersStep
  <2>. QED
    BY <2>1, <2>2 DEF Repository!LooseStatement
<1>. QED
  BY <1>1, <1>3, <1>4 DEF Table, MaybeRow

LEMMA OtherWritesStep ==
  ASSUME RepositoryIInv, NEW i \in Ids, NEW row \in MaybeRow, Repository!OtherWrites(i, row)
  PROVE  RepositoryIInv'
<1>. USE DEF RepositoryIInv, Repository!RepositoryTypeOK
<1>1. /\ rows' = [rows EXCEPT ![i] = row] /\ UNCHANGED <<call, loose>>
      /\ touched' = IF call = Repository!NoCall THEN {} ELSE touched \cup {i}
  BY DEF Repository!OtherWrites
<1>2. rows' \in Table /\ \A j \in Ids : j # i => rows'[j] = rows[j]
  BY <1>1 DEF Table, MaybeRow
<1>3. Repository!CallInv' /\ touched' \subseteq Ids
  BY <1>1, <1>2, OthersStep
<1>. QED
  BY <1>1, <1>2, <1>3 DEF Table, MaybeRow

LEMMA ReadStep ==
  ASSUME RepositoryIInv, Repository!Read
  PROVE  RepositoryIInv'
<1>1. PICK where : where = Repository!ById({})
  OBVIOUS
<1>2. where \in Repository!Filter
  BY <1>1, ByIdIsFilter
<1>3. /\ "read" \in {"read", "update", "updateOne", "delete", "deleteOne", "create", "upsert"}
      /\ None \in Values \cup {None} /\ {} \in SUBSET Ids
      /\ "ok" \in {"updated", "found", "upserting", "ok"}
  OBVIOUS
<1>4. Repository!Started("read", where, None, "ok", {}, {}, {}) /\ UNCHANGED <<rows, loose>>
  BY <1>1 DEF Repository!Read
<1>5. call' \in Repository!Call /\ touched' = {}
  BY <1>2, <1>3, <1>4, StartedCall
<1>6. call'.op = "read" /\ call'.at = "ok"
  BY <1>4 DEF Repository!Started, Repository!Begin
<1>7. Repository!CallInv'
  BY <1>6 DEF Repository!CallInv, Repository!UpdatedRows, Repository!FoundRow,
              Repository!KeysGiven, Repository!UpsertedItems, Repository!UpdateAnswers,
              Repository!OkMeansDone
<1>. QED
  BY <1>4, <1>5, <1>7 DEF RepositoryIInv, Repository!RepositoryTypeOK

LEMMA FirstStatementFailsStep ==
  ASSUME RepositoryIInv, Repository!FirstStatementFails
  PROVE  RepositoryIInv'
<1>1. touched' = {} /\ UNCHANGED <<rows, loose>>
  BY DEF Repository!FirstStatementFails, Repository!Begin
<1>2. call' = Repository!Rejected /\ Repository!CallInv'
  BY CallRejected DEF Repository!FirstStatementFails
<1>. QED
  BY <1>1, <1>2 DEF RepositoryIInv, Repository!RepositoryTypeOK

LEMMA NoCallLeft ==
  ASSUME RepositoryIInv, call' = Repository!NoCall, touched' = {}, rows' = rows,
         loose' \in {loose, {}}
  PROVE  RepositoryIInv'
<1>1. call'.at \in {"idle", "error"}
  BY DEF Repository!NoCall
<1>2. /\ IsFiniteSet(loose') /\ loose' \subseteq Repository!Statement
      /\ Repository!Cardinality(loose') <= MaxLoose
  <2>1. CASE loose' = loose
    BY <2>1 DEF RepositoryIInv, Repository!RepositoryTypeOK
  <2>2. CASE loose' = {}
    <3>1. IsFiniteSet({}) /\ Cardinality({}) = 0
      BY FS_EmptySet
    <3>2. MaxLoose \in Nat
      BY ApplicationAssumption DEF Repository!RepositoryAssumption
    <3>. QED
      BY <2>2, <3>1, <3>2, SameCardinality
  <2>. QED
    BY <2>1, <2>2
<1>. QED
  BY <1>1, <1>2, NothingPromised DEF RepositoryIInv, Repository!RepositoryTypeOK

LEMMA HandleStep ==
  ASSUME RepositoryIInv, Handle
  PROVE  RepositoryIInv'
<1>1. ASSUME NEW where \in Filters, NEW op, NEW d \in Values, Repository!UpdateRows(op, where, d)
      PROVE  RepositoryIInv'
  BY <1>1, UpdateRowsStep
<1>2. ASSUME NEW where \in Filters, Repository!Delete(where)
      PROVE  RepositoryIInv'
  BY <1>2, DeleteStep
<1>3. ASSUME NEW where \in Filters, NEW raw, Repository!FindToDelete(where, raw)
      PROVE  RepositoryIInv'
  BY <1>3, FindToDeleteStep
<1>4. ASSUME NEW ids \in SUBSET Ids, NEW d \in Values, Repository!Create(ids, d)
      PROVE  RepositoryIInv'
  BY <1>4, CreateStep
<1>5. ASSUME NEW ids \in SUBSET Ids, NEW d \in Values, Repository!UpsertAll(ids, d)
      PROVE  RepositoryIInv'
  BY <1>5, UpsertAllStep
<1>6. ASSUME NEW i \in Ids, Repository!UpsertOne(i)
      PROVE  RepositoryIInv'
  BY <1>6, UpsertOneStep
<1>7. CASE Repository!Return
  BY <1>7, NoCallLeft DEF Repository!Return
<1>. QED
  BY <1>1, <1>2, <1>3, <1>4, <1>5, <1>6, <1>7, ReadStep, FirstStatementFailsStep,
     FindUpdatedStep, DestroyFoundStep, StatementFailsStep
     DEF Handle

----------------------------------------------------------------------------
(* The application. *)

LEMMA RepositoryInitial == Init => RepositoryIInv
<1>. SUFFICES ASSUME Init PROVE RepositoryIInv
  OBVIOUS
<1>1. rows = [i \in Ids |-> None] /\ call = Repository!NoCall /\ loose = {} /\ touched = {}
  BY DEF Init, Repository!RepositoryInit
<1>2. IsFiniteSet({}) /\ Cardinality({}) = 0
  BY FS_EmptySet
<1>3. MaxLoose \in Nat
  BY ApplicationAssumption DEF Repository!RepositoryAssumption
<1>4. Repository!RepositoryTypeOK /\ IsFiniteSet(loose)
  BY <1>1, <1>2, <1>3, SameCardinality DEF Repository!RepositoryTypeOK
<1>5. call.at = "idle"
  BY <1>1 DEF Repository!NoCall
<1>6. Repository!CallInv
  BY <1>5 DEF Repository!CallInv, Repository!UpdatedRows, Repository!FoundRow,
              Repository!KeysGiven, Repository!UpsertedItems, Repository!UpdateAnswers,
              Repository!OkMeansDone
<1>. QED
  BY <1>4, <1>6 DEF RepositoryIInv

LEMMA RepositoryStep ==
  ASSUME RepositoryIInv, [Next]_vars
  PROVE  RepositoryIInv'
<1>1. CASE Handle
  BY <1>1, HandleStep
<1>2. CASE Meanwhile
  BY <1>2, LooseStatementStep, OtherWritesStep DEF Meanwhile, MaybeRow
<1>3. CASE Fail
  BY <1>3, NoCallLeft DEF Fail
<1>4. CASE UNCHANGED repositoryVars
  BY <1>4 DEF repositoryVars, RepositoryIInv, Repository!RepositoryTypeOK, Repository!CallInv,
              Repository!UpdatedRows, Repository!FoundRow, Repository!KeysGiven,
              Repository!UpsertedItems, Repository!UpdateAnswers, Repository!OkMeansDone,
              Repository!Matching, Repository!Visible
<1>. QED
  BY <1>1, <1>2, <1>3, <1>4
     DEF Next, vars, Configure, Instantiate, Connect, Created, Listen

\* The inductive invariant of Application: what the start keeps, and what is
\* true between the statements of a call.
THEOREM Invariance == Spec => []IInv
<1>1. StartIInv /\ RepositoryIInv => IInv
  BY DEF StartIInv, RepositoryIInv, IInv, TypeOK
<1>2. StartIInv /\ RepositoryIInv /\ [Next]_vars => StartIInv' /\ RepositoryIInv'
  BY StartStep, RepositoryStep
<1>. QED
  BY StartInitial, RepositoryInitial, <1>1, <1>2, PTL DEF Spec

----------------------------------------------------------------------------
(* The properties. *)

\* Every variable keeps its type; rejected upserts leave at most MaxLoose
\* statements behind.
THEOREM TypeCorrect == Spec => []TypeOK
<1>1. IInv => TypeOK
  BY DEF IInv
<1>. QED
  BY Invariance, <1>1, PTL

\* What update and updateOne return is what they wrote, save for the rows of
\* others, although the SELECT is not the statement that wrote it.
THEOREM UpdatesAnswer == Spec => []UpdateAnswers
<1>1. IInv => UpdateAnswers
  BY DEF IInv, Repository!CallInv, UpdateAnswers
<1>. QED
  BY Invariance, <1>1, PTL

\* A call that is answered without an error has done what it was asked, as far
\* as others have not undone it (delete, deleteOne, create, createMany, upsert).
THEOREM CallsDone == Spec => []OkMeansDone
<1>1. IInv => OkMeansDone
  BY DEF IInv, Repository!CallInv, OkMeansDone
<1>. QED
  BY Invariance, <1>1, PTL
=============================================================================

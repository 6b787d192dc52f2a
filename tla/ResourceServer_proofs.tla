----------------------- MODULE ResourceServer_proofs -----------------------
(***************************************************************************)
(* Theorems about ResourceServer, for every set of requests, every menu,   *)
(* every consistent initial table and every choice of faults and vetoes.   *)
(***************************************************************************)
EXTENDS ResourceServer, TLAPS

-----------------------------------------------------------------------------
(***************************************************************************)
(* The operators of the model.                                             *)
(***************************************************************************)

\* The object an update or a create submits is an object.
LEMMA SubmittedType ==
  ASSUME NEW q \in Request
  PROVE  Submitted(q) \in Object
BY DEF Submitted, Request, Object

\* A new record is a row with no id yet, whose columns repeat its object.
LEMMA NewRecordType ==
  ASSUME NEW q \in Request
  PROVE  /\ NewRecord(q) \in Row
         /\ NewRecord(q).gvr = q.gvr
         /\ NewRecord(q).raw = Submitted(q)
         /\ NewRecord(q).resourceVersion = Submitted(q).resourceVersion
<1>1. Submitted(q) \in Object BY SubmittedType
<1>2. QED BY <1>1 DEF NewRecord, Row, Object, Request

\* Rewriting a row changes its object and its version, and nothing else.
LEMMA RewrittenType ==
  ASSUME NEW row \in Row, NEW obj \in Object
  PROVE  LET new == Rewritten(row, obj) IN
         /\ new \in Row
         /\ new.id = row.id /\ new.gvr = row.gvr /\ new.name = row.name
         /\ new.namespace = row.namespace /\ new.uid = row.uid
         /\ new.raw = obj /\ new.resourceVersion = obj.resourceVersion
         /\ new.deleted = row.deleted
BY DEF Rewritten, Row, Object

\* Inserting adds a row at the end of the table.
LEMMA InsertedType ==
  ASSUME NEW t \in Seq(Row), NEW row \in Row
  PROVE  LET new == Inserted(t, row) IN
         /\ new \in Seq(Row)
         /\ DOMAIN new = DOMAIN t \cup {Len(t) + 1}
         /\ Len(t) + 1 \notin DOMAIN t
         /\ \A i \in DOMAIN t : new[i] = t[i]
         /\ new[Len(t) + 1] = [row EXCEPT !.id = Len(t) + 1]
<1>1. [row EXCEPT !.id = Len(t) + 1] \in Row BY DEF Row
<1>2. QED BY <1>1 DEF Inserted

\* Saving replaces one row.
LEMMA SavedType ==
  ASSUME NEW t \in Seq(Row), NEW row \in Row, row.id \in DOMAIN t
  PROVE  LET new == Saved(t, row) IN
         /\ new \in Seq(Row)
         /\ DOMAIN new = DOMAIN t
         /\ new[row.id] = row
         /\ \A i \in DOMAIN t : i # row.id => new[i] = t[i]
BY DEF Saved

\* A soft delete marks one row.
LEMMA SoftDeletedType ==
  ASSUME NEW t \in Seq(Row), NEW id \in DOMAIN t
  PROVE  LET new == SoftDeleted(t, id) IN
         /\ new \in Seq(Row)
         /\ DOMAIN new = DOMAIN t
         /\ new[id] = [t[id] EXCEPT !.deleted = TRUE]
         /\ \A i \in DOMAIN t : i # id => new[i] = t[i]
<1>1. t[id] \in Row OBVIOUS
<1>2. [t[id] EXCEPT !.deleted = TRUE] \in Row BY <1>1 DEF Row
<1>3. QED BY <1>2 DEF SoftDeleted

\* What a lookup finds is a row of the table, of the resource and the name.
LEMMA FoundRow ==
  ASSUME NEW t, NEW gvr, NEW name, NEW i \in First(Addressed(t, gvr, name))
  PROVE  i \in DOMAIN t /\ t[i].gvr = gvr /\ t[i].name = name /\ ~ t[i].deleted
BY DEF First, Addressed, OfResource, Live

\* A page holds rows of the table.
LEMMA PageRows ==
  ASSUME NEW t, NEW gvr, NEW n, NEW page \in Pages(OfResource(t, gvr), n)
  PROVE  page \subseteq DOMAIN t
BY DEF Pages, OfResource, Live

\* Writing a row of the table, or to none of its rows, leaves a table.
LEMMA SavedSeq ==
  ASSUME NEW t \in Seq(Row), NEW row \in Row PROVE Saved(t, row) \in Seq(Row)
<1>1. CASE row.id \in DOMAIN t BY <1>1, SavedType
<1>2. CASE row.id \notin DOMAIN t
  <2>1. Saved(t, row) = t BY <1>2 DEF Saved
  <2>2. QED BY <2>1
<1>3. QED BY <1>1, <1>2

LEMMA SoftDeletedSeq ==
  ASSUME NEW t \in Seq(Row), NEW id PROVE SoftDeleted(t, id) \in Seq(Row)
<1>1. CASE id \in DOMAIN t BY <1>1, SoftDeletedType
<1>2. CASE id \notin DOMAIN t
  <2>1. SoftDeleted(t, id) = t BY <1>2 DEF SoftDeleted
  <2>2. QED BY <2>1
<1>3. QED BY <1>1, <1>2

-----------------------------------------------------------------------------
(***************************************************************************)
(* Types.                                                                  *)
(***************************************************************************)
Codes == {0, 200, 201, 400, 404, 500}

LEMMA InitTypeOK == ASSUME Init PROVE TypeOK
<1>1. table \in Seq(Row) BY TablesAssumption DEF Init
<1>2. req \in [Reqs -> Request] BY MenuAssumption DEF Init
<1>3. NoObject \in Object BY StringsAssumption DEF NoObject, Object
<1>4. NoRecord \in Row BY <1>3, StringsAssumption DEF NoRecord, Row
<1>5. record \in [Reqs -> Row] /\ result \in [Reqs -> Object]
  BY <1>3, <1>4 DEF Init
<1>6. /\ items \in [Reqs -> SUBSET Row] /\ left \in [Reqs -> SUBSET Row]
      /\ wrote \in [Reqs -> SUBSET Nat]
      /\ vetoed \in [Reqs -> SUBSET (PreHooks \cup PostHooks)]
  BY DEF Init
<1>7. pc \in [Reqs -> PC] /\ status \in [Reqs -> Codes]
  BY DEF Init, PC, Codes
<1>8. QED BY <1>1, <1>2, <1>5, <1>6, <1>7 DEF TypeOK, Codes

\* A handler goes from one label to another, or to its answer.
LEMMA MoveType ==
  ASSUME TypeOK, NEW r \in Reqs,
         \/ \E label \in PC : Goto(r, label)
         \/ \E code \in Codes : Reply(r, code)
         \/ UNCHANGED <<pc, status>>
  PROVE  pc' \in [Reqs -> PC] /\ status' \in [Reqs -> Codes]
<1>1. "done" \in PC BY DEF PC
<1>2. QED BY <1>1 DEF TypeOK, Goto, Reply, Codes

\* The labels handlers move to are labels.
LEMMA Labels ==
  /\ \A q \in Request : EntryPoint(q) \in PC
  /\ \A round \in PreHooks : AfterHooks(round) \in PC
  /\ \A q \in Request : Success(q) \in Codes
<1>1. \A q \in Request : EntryPoint(q) \in PC
  BY DEF Request, Verbs, EntryPoint, PC, PreHooks, Statements
<1>2. \A round \in PreHooks : AfterHooks(round) \in PC
  BY DEF PreHooks, AfterHooks, PC, Statements
<1>3. QED BY <1>1, <1>2 DEF Success, Codes

\* Types are preserved by every step.
LEMMA NextTypeOK == ASSUME TypeOK, [Next]_vars PROVE TypeOK'
<1> USE DEF handler, history
<1>0. \A r \in Reqs : req[r] \in Request BY DEF TypeOK
<1>1. ASSUME NEW r \in Reqs, Arrive(r) PROVE TypeOK'
  <2>1. pc' \in [Reqs -> PC] /\ status' \in [Reqs -> Codes]
    BY <1>0, <1>1, MoveType, Labels DEF Arrive, Codes
  <2>2. QED BY <1>1, <2>1 DEF TypeOK, Arrive, Codes
<1>2. ASSUME NEW r \in Reqs, RunPreHooks(r) PROVE TypeOK'
  <2>1. pc' \in [Reqs -> PC] /\ status' \in [Reqs -> Codes]
    BY <1>2, MoveType, Labels DEF RunPreHooks, HookFailed, Codes
  <2>2. vetoed' \in [Reqs -> SUBSET (PreHooks \cup PostHooks)]
    BY <1>2 DEF TypeOK, RunPreHooks, HookFailed
  <2>3. QED BY <1>2, <2>1, <2>2 DEF TypeOK, RunPreHooks, Codes
<1>3. ASSUME NEW r \in Reqs, RunPostHooks(r) PROVE TypeOK'
  <2>1. pc' \in [Reqs -> PC] /\ status' \in [Reqs -> Codes]
    BY <1>0, <1>3, MoveType, Labels DEF RunPostHooks, HookFailed, Codes
  <2>2. vetoed' \in [Reqs -> SUBSET (PreHooks \cup PostHooks)]
    BY <1>3 DEF TypeOK, RunPostHooks, HookFailed
  <2>3. QED BY <1>3, <2>1, <2>2 DEF TypeOK, RunPostHooks, Codes
<1>4. ASSUME NEW r \in Reqs, Insert(r) PROVE TypeOK'
  <2>1. NewRecord(req[r]) \in Row /\ NewRecord(req[r]).raw \in Object
    BY <1>0, NewRecordType, SubmittedType
  <2>2. table' \in Seq(Row)
    <3>1. table' = Inserted(table, NewRecord(req[r])) \/ table' = table
      BY <1>4 DEF Insert
    <3>2. Inserted(table, NewRecord(req[r])) \in Seq(Row)
      BY <2>1, InsertedType DEF TypeOK
    <3>3. QED BY <3>1, <3>2 DEF TypeOK
  <2>3. pc' \in [Reqs -> PC] /\ status' \in [Reqs -> Codes]
    BY <1>4, MoveType DEF Insert, PC, PostHooks, Codes
  <2>4. result' \in [Reqs -> Object]
    BY <1>4, <2>1 DEF TypeOK, Insert
  <2>5. wrote' \in [Reqs -> SUBSET Nat]
    BY <1>4 DEF TypeOK, Insert, Written
  <2>6. QED BY <1>4, <2>2, <2>3, <2>4, <2>5 DEF TypeOK, Insert, Codes
<1>5. ASSUME NEW r \in Reqs, Get(r) PROVE TypeOK'
  <2>1. pc' \in [Reqs -> PC] /\ status' \in [Reqs -> Codes]
    BY <1>5, MoveType DEF Get, PC, PreHooks, PostHooks, Codes
  <2>2. result' \in [Reqs -> Object]
    <3>1. \A i \in First(AtVersion(table, Candidates(req[r]), Version(req[r]))) :
            i \in DOMAIN table
      BY DEF First, AtVersion, Candidates, Addressed, OfResource, Live
    <3>2. \A i \in DOMAIN table : table[i] \in Row BY DEF TypeOK
    <3>3. \A i \in DOMAIN table : table[i].raw \in Object BY <3>2 DEF Row
    <3>4. QED BY <1>5, <3>1, <3>3 DEF TypeOK, Get
  <2>3. QED BY <1>5, <2>1, <2>2 DEF TypeOK, Get, Codes
<1>6. ASSUME NEW r \in Reqs, List(r) PROVE TypeOK'
  <2>1. pc' \in [Reqs -> PC] /\ status' \in [Reqs -> Codes]
    <3>1. \/ Goto(r, "collection") \/ Goto(r, "postList")
          \/ Reply(r, 200) \/ Reply(r, 500)
      BY <1>6, Zenon DEF List
    <3>2. QED BY <3>1, MoveType DEF PC, PostHooks, Statements, Codes
  <2>2. \A page \in Pages(OfResource(table, req[r].gvr), Limit(req[r])) :
          {table[i] : i \in page} \in SUBSET Row
    BY PageRows DEF TypeOK
  <2>3. items' \in [Reqs -> SUBSET Row] /\ left' \in [Reqs -> SUBSET Row]
    <3>1. CASE UNCHANGED <<items, left>> BY <3>1 DEF TypeOK
    <3>2. ASSUME NEW rows \in SUBSET Row,
                 items' = [items EXCEPT ![r] = rows],
                 left' = [left EXCEPT ![r] = rows] \/ left' = left
          PROVE  items' \in [Reqs -> SUBSET Row] /\ left' \in [Reqs -> SUBSET Row]
      BY <3>2 DEF TypeOK
    <3>3. QED BY <1>6, <2>2, <3>1, <3>2, Zenon DEF List
  <2>4. QED BY <1>6, <2>1, <2>3 DEF TypeOK, List, Codes
<1>7. ASSUME NEW r \in Reqs, UpdateFirst(r) PROVE TypeOK'
  <2>1. pc' \in [Reqs -> PC] /\ status' \in [Reqs -> Codes]
    BY <1>7, MoveType DEF UpdateFirst, PC, Statements, Codes
  <2>2. \A i \in First(Candidates(req[r])) :
          Rewritten(table[i], Submitted(req[r])) \in Row
    BY <1>0, FoundRow, SubmittedType, RewrittenType DEF TypeOK, Candidates
  <2>3. QED BY <1>7, <2>1, <2>2 DEF TypeOK, UpdateFirst, Codes
<1>8. ASSUME NEW r \in Reqs, Save(r) PROVE TypeOK'
  <2>1. record[r] \in Row /\ record[r].id \in Nat /\ record[r].raw \in Object
    BY DEF TypeOK, Row
  <2>2. table' \in Seq(Row) BY <1>8, <2>1, SavedSeq DEF TypeOK, Save
  <2>3. pc' \in [Reqs -> PC] /\ status' \in [Reqs -> Codes]
    BY <1>8, MoveType DEF Save, PC, PostHooks, Codes
  <2>4. wrote' \in [Reqs -> SUBSET Nat] /\ result' \in [Reqs -> Object]
    BY <1>8, <2>1 DEF TypeOK, Save, Written
  <2>5. QED BY <1>8, <2>2, <2>3, <2>4 DEF TypeOK, Save, Codes
<1>9. ASSUME NEW r \in Reqs, DeleteFirst(r) PROVE TypeOK'
  <2>1. pc' \in [Reqs -> PC] /\ status' \in [Reqs -> Codes]
    BY <1>9, MoveType DEF DeleteFirst, PC, Statements, Codes
  <2>2. \A i \in First(Candidates(req[r])) : table[i] \in Row
    BY FoundRow DEF TypeOK, Candidates
  <2>3. QED BY <1>9, <2>1, <2>2 DEF TypeOK, DeleteFirst, Codes
<1>10. ASSUME NEW r \in Reqs, Remove(r) PROVE TypeOK'
  <2>1. record[r] \in Row /\ record[r].id \in Nat /\ record[r].raw \in Object
    BY DEF TypeOK, Row
  <2>2. table' \in Seq(Row) BY <1>10, <2>1, SoftDeletedSeq DEF TypeOK, Remove
  <2>3. pc' \in [Reqs -> PC] /\ status' \in [Reqs -> Codes]
    BY <1>10, MoveType DEF Remove, PC, PostHooks, Codes
  <2>4. wrote' \in [Reqs -> SUBSET Nat] /\ result' \in [Reqs -> Object]
    BY <1>10, <2>1 DEF TypeOK, Remove, Written
  <2>5. QED BY <1>10, <2>2, <2>3, <2>4 DEF TypeOK, Remove, Codes
<1>11. ASSUME NEW r \in Reqs, CollectionFirst(r) PROVE TypeOK'
  <2>1. PICK item \in left[r] : CollectionFirst(r)!2!(item)
    BY <1>11 DEF CollectionFirst
  <2>2. pc' \in [Reqs -> PC] /\ status' \in [Reqs -> Codes]
    BY <2>1, MoveType DEF PC, Statements, Codes
  <2>3. \A i \in First(Addressed(table, req[r].gvr, item.raw.name)) :
          table[i] \in Row
    BY FoundRow DEF TypeOK
  <2>4. record' \in [Reqs -> Row] BY <2>1, <2>3 DEF TypeOK
  <2>5. left' \in [Reqs -> SUBSET Row] BY <2>1 DEF TypeOK, Skipped
  <2>6. QED BY <1>11, <2>2, <2>4, <2>5 DEF TypeOK, CollectionFirst, Codes
<1>12. ASSUME NEW r \in Reqs, CollectionRemove(r) PROVE TypeOK'
  <2>1. record[r] \in Row /\ record[r].id \in Nat
    BY DEF TypeOK, Row
  <2>2. table' \in Seq(Row)
    BY <1>12, <2>1, SoftDeletedSeq DEF TypeOK, CollectionRemove
  <2>3. pc' \in [Reqs -> PC] /\ status' \in [Reqs -> Codes]
    BY <1>12, MoveType DEF CollectionRemove, PC, Statements, Codes
  <2>4. wrote' \in [Reqs -> SUBSET Nat]
    BY <1>12, <2>1 DEF TypeOK, CollectionRemove, Written
  <2>5. QED BY <1>12, <2>2, <2>3, <2>4 DEF TypeOK, CollectionRemove, Codes
<1>13. ASSUME NEW r \in Reqs, CollectionEnd(r) PROVE TypeOK'
  <2>1. pc' \in [Reqs -> PC] /\ status' \in [Reqs -> Codes]
    BY <1>13, MoveType DEF CollectionEnd, Codes
  <2>2. QED BY <1>13, <2>1 DEF TypeOK, CollectionEnd, Codes
<1>14. CASE Exit
  <2>1. pc' \in [Reqs -> PC] BY <1>14 DEF TypeOK, Exit, PC
  <2>2. QED BY <1>14, <2>1 DEF TypeOK, Exit
<1>15. CASE UNCHANGED vars BY <1>15 DEF TypeOK, vars
<1>16. QED
  BY <1>1, <1>2, <1>3, <1>4, <1>5, <1>6, <1>7, <1>8, <1>9, <1>10, <1>11,
     <1>12, <1>13, <1>14, <1>15 DEF Next, Serve

\* Every variable keeps its type.
THEOREM TypeCorrect == Spec => []TypeOK
<1>1. Init => TypeOK BY InitTypeOK
<1>2. TypeOK /\ [Next]_vars => TypeOK' BY NextTypeOK
<1>3. QED BY <1>1, <1>2, PTL DEF Spec

-----------------------------------------------------------------------------
(***************************************************************************)
(* The table.  Three statements write it; every other step leaves it.      *)
(***************************************************************************)
Inserts(r) ==
  /\ pc[r] = "insert"
  /\ ~ UidTaken(table, NewRecord(req[r]).uid)
  /\ table' = Inserted(table, NewRecord(req[r]))
  /\ Written(r, Len(table) + 1)
Saves(r) ==
  /\ pc[r] = "save"
  /\ table' = Saved(table, record[r])
  /\ Written(r, record[r].id)
Removes(r) ==
  /\ pc[r] \in {"remove", "collectionRemove"}
  /\ table' = SoftDeleted(table, record[r].id)
  /\ Written(r, record[r].id)

\* The steps that write.
LEMMA Writes ==
  ASSUME [Next]_vars
  PROVE  \/ UNCHANGED <<table, wrote>>
         \/ \E r \in Reqs : Inserts(r) \/ Saves(r) \/ Removes(r)
<1> USE DEF handler, history
<1>1. ASSUME NEW r \in Reqs, Arrive(r) \/ RunPreHooks(r) \/ RunPostHooks(r)
      PROVE UNCHANGED <<table, wrote>>
  BY <1>1 DEF Arrive, RunPreHooks, RunPostHooks
<1>2. ASSUME NEW r \in Reqs, Insert(r)
      PROVE UNCHANGED <<table, wrote>> \/ Inserts(r)
  BY <1>2 DEF Insert, Inserts
<1>3. ASSUME NEW r \in Reqs, Get(r) \/ List(r)
      PROVE UNCHANGED <<table, wrote>>
  BY <1>3 DEF Get, List
<1>4. ASSUME NEW r \in Reqs, UpdateFirst(r) \/ DeleteFirst(r)
      PROVE UNCHANGED <<table, wrote>>
  BY <1>4 DEF UpdateFirst, DeleteFirst
<1>5. ASSUME NEW r \in Reqs, Save(r)
      PROVE UNCHANGED <<table, wrote>> \/ Saves(r)
  BY <1>5 DEF Save, Saves
<1>6. ASSUME NEW r \in Reqs, Remove(r) \/ CollectionRemove(r)
      PROVE UNCHANGED <<table, wrote>> \/ Removes(r)
  BY <1>6 DEF Remove, CollectionRemove, Removes
<1>7. ASSUME NEW r \in Reqs, CollectionFirst(r) \/ CollectionEnd(r)
      PROVE UNCHANGED <<table, wrote>>
  BY <1>7 DEF CollectionFirst, CollectionEnd
<1>8. CASE Exit BY <1>8 DEF Exit
<1>9. CASE UNCHANGED vars BY <1>9 DEF vars
<1>10. QED
  BY <1>1, <1>2, <1>3, <1>4, <1>5, <1>6, <1>7, <1>8, <1>9 DEF Next, Serve

\* What a write does to the rows: those that were there keep their identity,
\* and the table stays consistent.
LEMMA InsertsKeep ==
  ASSUME RowsOK, NEW r \in Reqs, Inserts(r)
  PROVE  IdentityStep /\ Consistent(table')
<1> DEFINE row == NewRecord(req[r])
<1> DEFINE new == Len(table) + 1
<1>1. row \in Row /\ row.raw = Submitted(req[r])
                  /\ row.resourceVersion = row.raw.resourceVersion
  BY NewRecordType DEF RowsOK, TypeOK
<1>2. /\ DOMAIN table' = DOMAIN table \cup {new}
      /\ new \notin DOMAIN table
      /\ \A i \in DOMAIN table : table'[i] = table[i]
      /\ table'[new] = [row EXCEPT !.id = new]
  <2>1. table \in Seq(Row) BY DEF RowsOK, TypeOK
  <2>2. table' = Inserted(table, row) BY DEF Inserts
  <2> HIDE DEF row
  <2>3. QED BY <1>1, <2>1, <2>2, InsertedType
<1>3. /\ table'[new].id = new /\ table'[new].uid = row.uid
      /\ table'[new].raw = row.raw
      /\ table'[new].resourceVersion = row.resourceVersion
  BY <1>1, <1>2 DEF Row
<1>4. IdentityStep BY <1>2 DEF IdentityStep, SameIdentity
<1>5. \A i \in DOMAIN table : table[i].uid # row.uid
  BY DEF Inserts, UidTaken
<1>6. Consistent(table) BY DEF RowsOK, StoreConsistent
<1> HIDE DEF row, new
<1>7. IdsAreIndices(table')
  BY <1>2, <1>3, <1>6 DEF Consistent, IdsAreIndices
<1>8. UidsUnique(table')
  <2>1. \A i \in DOMAIN table :
          table'[i].uid = table[i].uid /\ table'[i].uid # table'[new].uid
    BY <1>2, <1>3, <1>5
  <2>2. \A i, j \in DOMAIN table : table'[i].uid = table'[j].uid => i = j
    BY <1>6, <2>1 DEF Consistent, UidsUnique
  <2>3. QED BY <1>2, <2>1, <2>2 DEF UidsUnique
<1>9. VersionsSynced(table')
  BY <1>1, <1>2, <1>3, <1>6 DEF Consistent, VersionsSynced
<1>10. QED BY <1>4, <1>7, <1>8, <1>9 DEF Consistent

LEMMA SavesKeep ==
  ASSUME RowsOK, NEW r \in Reqs, Saves(r)
  PROVE  IdentityStep /\ Consistent(table')
<1> DEFINE row == record[r]
<1>1. /\ row.id \in DOMAIN table /\ SameIdentity(row, table[row.id])
      /\ row.resourceVersion = row.raw.resourceVersion
  BY DEF RowsOK, HeldOK, Held, Saves
<1>2. row \in Row BY DEF RowsOK, TypeOK
<1>3. /\ DOMAIN table' = DOMAIN table /\ table'[row.id] = row
      /\ \A i \in DOMAIN table : i # row.id => table'[i] = table[i]
  BY <1>1, <1>2, SavedType DEF RowsOK, TypeOK, Saves
<1>4. Consistent(table) BY DEF RowsOK, StoreConsistent
<1> HIDE DEF row
<1>5. IdentityStep BY <1>1, <1>3 DEF IdentityStep, SameIdentity
<1>6. IdsAreIndices(table')
  BY <1>1, <1>3, <1>4 DEF Consistent, IdsAreIndices, SameIdentity
<1>7. UidsUnique(table')
  BY <1>1, <1>3, <1>4 DEF Consistent, UidsUnique, SameIdentity
<1>8. VersionsSynced(table')
  BY <1>1, <1>3, <1>4 DEF Consistent, VersionsSynced
<1>9. QED BY <1>5, <1>6, <1>7, <1>8 DEF Consistent

LEMMA RemovesKeep ==
  ASSUME RowsOK, NEW r \in Reqs, Removes(r)
  PROVE  IdentityStep /\ Consistent(table')
<1> DEFINE id == record[r].id
<1>1. id \in DOMAIN table BY DEF RowsOK, HeldOK, Held, Removes
<1>2. /\ DOMAIN table' = DOMAIN table
      /\ table'[id] = [table[id] EXCEPT !.deleted = TRUE]
      /\ \A i \in DOMAIN table : i # id => table'[i] = table[i]
  BY <1>1, SoftDeletedType DEF RowsOK, TypeOK, Removes
<1>3. table[id] \in Row BY <1>1 DEF RowsOK, TypeOK
<1>4. /\ SameIdentity(table'[id], table[id])
      /\ table'[id].raw = table[id].raw
      /\ table'[id].resourceVersion = table[id].resourceVersion
  BY <1>2, <1>3 DEF Row, SameIdentity
<1>5. Consistent(table) BY DEF RowsOK, StoreConsistent
<1> HIDE DEF id
<1>6. IdentityStep BY <1>1, <1>2, <1>4 DEF IdentityStep, SameIdentity
<1>7. IdsAreIndices(table')
  BY <1>1, <1>2, <1>4, <1>5 DEF Consistent, IdsAreIndices, SameIdentity
<1>8. UidsUnique(table')
  <2>1. \A i \in DOMAIN table : table'[i].uid = table[i].uid
    BY <1>2, <1>4 DEF SameIdentity
  <2>2. QED BY <1>2, <1>5, <2>1 DEF Consistent, UidsUnique
<1>9. VersionsSynced(table')
  BY <1>1, <1>2, <1>4, <1>5 DEF Consistent, VersionsSynced
<1>10. QED BY <1>6, <1>7, <1>8, <1>9 DEF Consistent

LEMMA RowsKept ==
  ASSUME RowsOK, [Next]_vars PROVE IdentityStep /\ StoreConsistent'
<1>1. CASE UNCHANGED table
  <2>1. IdentityStep BY <1>1 DEF IdentityStep, SameIdentity
  <2>2. QED BY <1>1, <2>1 DEF RowsOK, StoreConsistent
<1>2. CASE \E r \in Reqs : Inserts(r) \/ Saves(r) \/ Removes(r)
  BY <1>2, InsertsKeep, SavesKeep, RemovesKeep DEF StoreConsistent
<1>3. QED BY <1>1, <1>2, Writes

LEMMA TableKept ==
  ASSUME Inv, [Next]_vars PROVE IdentityStep /\ StoreConsistent'
BY RowsKept DEF Inv, RowsOK

-----------------------------------------------------------------------------
(***************************************************************************)
(* Locality.  A step that is not one of request s leaves what belongs to s *)
(* alone, but for the exit of the process.                                 *)
(***************************************************************************)
Kept(s) ==
  /\ record'[s] = record[s] /\ result'[s] = result[s]
  /\ status'[s] = status[s] /\ wrote'[s] = wrote[s]
  /\ items'[s] = items[s] /\ left'[s] = left[s]
  /\ vetoed'[s] = vetoed[s]
Untouched(s) == pc'[s] = pc[s] /\ Kept(s)
Lost(s) == InFlight(s) /\ pc'[s] = "lost" /\ Kept(s)

\* The contents of requests do not change.
LEMMA RequestKept == ASSUME [Next]_vars PROVE req' = req
<1>1. ASSUME NEW r \in Reqs, Arrive(r) \/ Serve(r) PROVE req' = req
  BY <1>1 DEF Arrive, Serve, RunPreHooks, RunPostHooks, Insert, Get, List,
     UpdateFirst, Save, DeleteFirst, Remove, CollectionFirst,
     CollectionRemove, CollectionEnd
<1>2. QED BY <1>1 DEF Next, Exit, vars

\* A step of another request leaves s alone.
LEMMA Elsewhere ==
  ASSUME TypeOK, NEW r \in Reqs, NEW s \in Reqs, r # s, Arrive(r) \/ Serve(r)
  PROVE  Untouched(s)
<1> USE DEF handler, history, Untouched, Kept
<1>1. CASE Arrive(r) BY <1>1 DEF TypeOK, Arrive, Goto, Reply
<1>2. CASE RunPreHooks(r) \/ RunPostHooks(r)
  BY <1>2 DEF TypeOK, RunPreHooks, RunPostHooks, HookFailed, Goto, Reply
<1>3. CASE Insert(r) BY <1>3 DEF TypeOK, Insert, Written, Goto, Reply
<1>4. CASE Get(r) BY <1>4 DEF TypeOK, Get, Goto, Reply
<1>5. CASE List(r)
  <2>1. \/ Goto(r, "collection") \/ Goto(r, "postList")
        \/ Reply(r, 200) \/ Reply(r, 500)
    BY <1>5, Zenon DEF List
  <2>2. UNCHANGED <<record, result, wrote, vetoed>> BY <1>5 DEF List
  <2>3. /\ (\E rows : items' = [items EXCEPT ![r] = rows]) \/ items' = items
        /\ (\E rows : left' = [left EXCEPT ![r] = rows]) \/ left' = left
    BY <1>5, Zenon DEF List
  <2>4. items'[s] = items[s] /\ left'[s] = left[s] BY <2>3 DEF TypeOK
  <2>5. QED BY <2>1, <2>2, <2>4 DEF TypeOK, Goto, Reply
<1>6. CASE UpdateFirst(r) \/ DeleteFirst(r)
  BY <1>6 DEF TypeOK, UpdateFirst, DeleteFirst, Goto, Reply
<1>7. CASE Save(r) \/ Remove(r)
  BY <1>7 DEF TypeOK, Save, Remove, Written, Goto, Reply
<1>8. CASE CollectionFirst(r) BY <1>8 DEF TypeOK, CollectionFirst, Goto
<1>9. CASE CollectionRemove(r) \/ CollectionEnd(r)
  BY <1>9 DEF TypeOK, CollectionRemove, CollectionEnd, Written, Goto, Reply
<1>10. QED
  BY <1>1, <1>2, <1>3, <1>4, <1>5, <1>6, <1>7, <1>8, <1>9 DEF Serve

\* The exit of the process loses the requests it was serving.
LEMMA ExitLoses ==
  ASSUME TypeOK, Exit, NEW s \in Reqs
  PROVE  Untouched(s) \/ Lost(s)
BY DEF TypeOK, Exit, Lost, Untouched, Kept, handler, history

LEMMA Locality ==
  ASSUME TypeOK, [Next]_vars, NEW s \in Reqs
  PROVE  /\ req' = req
         /\ Untouched(s) \/ Lost(s) \/ Arrive(s) \/ Serve(s)
<1>1. CASE \E r \in Reqs : Arrive(r) \/ Serve(r)
  BY <1>1, Elsewhere, RequestKept
<1>2. CASE Exit BY <1>2, ExitLoses, RequestKept
<1>3. CASE UNCHANGED vars
  BY <1>3 DEF vars, handler, history, Untouched, Kept
<1>4. QED BY <1>1, <1>2, <1>3 DEF Next

-----------------------------------------------------------------------------
(***************************************************************************)
(* The record in hand.                                                     *)
(***************************************************************************)
Holding == {"save", "remove", "collectionRemove"}

\* A request comes to hold a record by one of three SELECTs.
LEMMA Takes ==
  ASSUME TypeOK, NEW s \in Reqs, Arrive(s) \/ Serve(s), pc'[s] \in Holding
  PROVE  /\ table' = table
         /\ \E i \in DOMAIN table :
              /\ table[i].gvr = req[s].gvr /\ ~ table[i].deleted
              /\ pc'[s] \in {"save", "remove"} => table[i].name = req[s].name
              /\ \/ record'[s] = table[i] /\ pc'[s] # "save"
                 \/ record'[s] = Rewritten(table[i], Submitted(req[s]))
<1> USE DEF Holding
<1>1. CASE Arrive(s)
  BY <1>1 DEF Arrive, Goto, Reply, EntryPoint, TypeOK, Request, Verbs
<1>2. CASE RunPreHooks(s)
  BY <1>2 DEF RunPreHooks, HookFailed, Goto, Reply, AfterHooks, PreHooks, TypeOK
<1>3. CASE RunPostHooks(s)
  BY <1>3 DEF RunPostHooks, HookFailed, Goto, Reply, TypeOK
<1>4. CASE Insert(s)
  BY <1>4 DEF Insert, Goto, Reply, TypeOK
<1>5. CASE Get(s)
  BY <1>5 DEF Get, Goto, Reply, TypeOK
<1>6. CASE List(s)
  <2>1. \/ Goto(s, "collection") \/ Goto(s, "postList")
        \/ Reply(s, 200) \/ Reply(s, 500)
    BY <1>6, Zenon DEF List
  <2>2. QED BY <2>1 DEF Goto, Reply, TypeOK
<1>7. CASE UpdateFirst(s)
  BY <1>7, FoundRow DEF UpdateFirst, Candidates, Goto, Reply, TypeOK
<1>8. CASE Save(s)
  BY <1>8 DEF Save, Goto, Reply, TypeOK
<1>9. CASE DeleteFirst(s)
  BY <1>9, FoundRow DEF DeleteFirst, Candidates, Goto, Reply, TypeOK
<1>10. CASE Remove(s)
  BY <1>10 DEF Remove, Goto, Reply, TypeOK
<1>11. CASE CollectionFirst(s)
  BY <1>11, FoundRow DEF CollectionFirst, Goto, TypeOK
<1>12. CASE CollectionRemove(s)
  BY <1>12 DEF CollectionRemove, Goto, TypeOK
<1>13. CASE CollectionEnd(s)
  BY <1>13 DEF CollectionEnd, Reply, TypeOK
<1>14. QED
  BY <1>1, <1>2, <1>3, <1>4, <1>5, <1>6, <1>7, <1>8, <1>9, <1>10, <1>11,
     <1>12, <1>13 DEF Serve

\* The record in hand names its row until the write, whoever acts between.
LEMMA HandsKept == ASSUME RowsOK, [Next]_vars PROVE HeldOK'
<1>1. SUFFICES ASSUME NEW s \in Reqs, pc'[s] \in Holding PROVE Held(s)'
  BY DEF HeldOK, Holding
<1>2. IdentityStep BY RowsKept
<1>3. req' = req BY Locality DEF RowsOK
<1>4. CASE Untouched(s)
  BY <1>1, <1>2, <1>3, <1>4 DEF Untouched, Kept, RowsOK, HeldOK, Held, Holding,
     IdentityStep, SameIdentity
<1>5. CASE Lost(s)
  BY <1>1, <1>5 DEF Lost, Holding
<1>6. CASE Arrive(s) \/ Serve(s)
  <2>1. TypeOK BY DEF RowsOK
  <2>2. PICK i \in DOMAIN table :
          /\ table[i].gvr = req[s].gvr
          /\ pc'[s] \in {"save", "remove"} => table[i].name = req[s].name
          /\ \/ record'[s] = table[i]
             \/ record'[s] = Rewritten(table[i], Submitted(req[s]))
    BY <1>1, <1>6, <2>1, Takes
  <2>3. table' = table BY <1>1, <1>6, <2>1, Takes
  <2>4. table[i] \in Row /\ Submitted(req[s]) \in Object
    BY SubmittedType DEF RowsOK, TypeOK
  <2>5. /\ table[i].id = i
        /\ table[i].resourceVersion = table[i].raw.resourceVersion
    BY DEF RowsOK, StoreConsistent, Consistent, IdsAreIndices, VersionsSynced
  <2>6. /\ record'[s].id = i /\ SameIdentity(record'[s], table[i])
        /\ record'[s].resourceVersion = record'[s].raw.resourceVersion
    BY <2>2, <2>4, <2>5, RewrittenType DEF SameIdentity
  <2>7. QED
    BY <1>3, <2>2, <2>3, <2>6 DEF Held, SameIdentity
<1>7. QED BY <1>4, <1>5, <1>6, Locality DEF RowsOK

LEMMA HeldKept == ASSUME Inv, [Next]_vars PROVE HeldOK'
BY HandsKept DEF Inv, RowsOK

-----------------------------------------------------------------------------
(***************************************************************************)
(* The course of one request: where it is, what it has answered, what it   *)
(* has written.                                                            *)
(***************************************************************************)
\* Course is what StagesOK and RejectedHasNoEffect say of one request.
LEMMA CourseIs ==
  (\A s \in Reqs : Course(s)) <=> StagesOK /\ RejectedHasNoEffect
BY DEF Course, StagesOK, RejectedHasNoEffect, Unwritten

\* The stages of each verb, one by one.
LEMMA StageNames ==
  /\ Stages("create") =
       {"new", "done", "lost", "preCreate", "insert", "postCreate"}
  /\ Stages("get") = {"new", "done", "lost", "get", "postGet"}
  /\ Stages("list") = {"new", "done", "lost", "list", "postList"}
  /\ Stages("update") =
       {"new", "done", "lost", "preUpdate", "updateFirst", "save",
        "postUpdate"}
  /\ Stages("delete") =
       {"new", "done", "lost", "get", "preDelete", "deleteFirst", "remove",
        "postDelete"}
  /\ Stages("deletecollection") =
       {"new", "done", "lost", "list", "collection", "collectionRemove"}
BY DEF Stages

\* A step of the request itself keeps its course.
LEMMA CourseStep ==
  ASSUME TypeOK, NEW s \in Reqs, Course(s), req' = req, Arrive(s) \/ Serve(s)
  PROVE  Course(s)'
<1> USE StageNames DEF Course, Unwritten, history, handler
<1>0. req[s].verb \in Verbs BY DEF TypeOK, Request
<1>1. CASE Arrive(s)
  BY <1>0, <1>1 DEF Arrive, Goto, Reply, EntryPoint, Undecodable, TypeOK, Verbs,
     PreHooks
<1>2. CASE RunPreHooks(s)
  BY <1>0, <1>2 DEF RunPreHooks, HookFailed, Goto, Reply, AfterHooks, PreHooks,
     TypeOK, Verbs
<1>3. CASE RunPostHooks(s)
  BY <1>0, <1>3 DEF RunPostHooks, HookFailed, Goto, Reply, Success, PreHooks,
     PostHooks, TypeOK, Verbs
<1>4. CASE Insert(s)
  BY <1>0, <1>4 DEF Insert, Written, Goto, Reply, PreHooks, TypeOK, Verbs
<1>5. CASE Get(s)
  <2>1. \/ Goto(s, IF req[s].verb = "delete" THEN "preDelete" ELSE "postGet")
        \/ Reply(s, 404)
    BY <1>5, Zenon DEF Get
  <2>2. pc[s] = "get" /\ UNCHANGED <<wrote, vetoed>> BY <1>5 DEF Get
  <2>3. req[s].verb \in {"get", "delete"} BY <1>0, <2>2 DEF Verbs
  <2>4. wrote'[s] = {} /\ vetoed'[s] \cap PreHooks = {} BY <2>2
  <2>5. \/ pc'[s] = "done"
        \/ pc'[s] = "preDelete" /\ req[s].verb = "delete" /\ status'[s] = 0
        \/ pc'[s] = "postGet" /\ req[s].verb # "delete" /\ status'[s] = 0
    BY <2>1, <2>2 DEF Goto, Reply, TypeOK
  <2>6. QED BY <2>3, <2>4, <2>5
<1>6. CASE List(s)
  <2>1. \/ Goto(s, "collection") /\ req[s].verb = "deletecollection"
        \/ Goto(s, "postList") /\ req[s].verb = "list"
        \/ Reply(s, 200) \/ Reply(s, 500)
    BY <1>6, Zenon DEF List
  <2>2. pc[s] = "list" /\ UNCHANGED <<wrote, vetoed>> BY <1>6 DEF List
  <2>3. QED BY <1>0, <2>1, <2>2 DEF Goto, Reply, PreHooks, TypeOK, Verbs
<1>7. CASE UpdateFirst(s)
  <2>1. Goto(s, "save") \/ Reply(s, 500) BY <1>7, Zenon DEF UpdateFirst
  <2>2. pc[s] = "updateFirst" /\ UNCHANGED <<wrote, vetoed>>
    BY <1>7 DEF UpdateFirst
  <2>3. req[s].verb = "update" BY <1>0, <2>2 DEF Verbs
  <2>4. wrote'[s] = {} /\ vetoed'[s] \cap PreHooks = {} BY <2>2
  <2>5. pc'[s] = "done" \/ (pc'[s] = "save" /\ status'[s] = 0)
    BY <2>1, <2>2 DEF Goto, Reply, TypeOK
  <2>6. QED BY <2>3, <2>4, <2>5
<1>8. CASE Save(s)
  BY <1>0, <1>8 DEF Save, Written, Goto, Reply, PreHooks, TypeOK, Verbs
<1>9. CASE DeleteFirst(s)
  <2>1. Goto(s, "remove") \/ Reply(s, 500) BY <1>9, Zenon DEF DeleteFirst
  <2>2. pc[s] = "deleteFirst" /\ UNCHANGED <<wrote, vetoed>>
    BY <1>9 DEF DeleteFirst
  <2>3. req[s].verb = "delete" BY <1>0, <2>2 DEF Verbs
  <2>4. wrote'[s] = {} /\ vetoed'[s] \cap PreHooks = {} BY <2>2
  <2>5. pc'[s] = "done" \/ (pc'[s] = "remove" /\ status'[s] = 0)
    BY <2>1, <2>2 DEF Goto, Reply, TypeOK
  <2>6. QED BY <2>3, <2>4, <2>5
<1>10. CASE Remove(s)
  BY <1>0, <1>10 DEF Remove, Written, Goto, Reply, PreHooks, TypeOK, Verbs
<1>11. CASE CollectionFirst(s)
  <2>1. pc[s] = "collection" /\ req[s].verb = "deletecollection"
    BY <1>0, <1>11 DEF CollectionFirst, Verbs
  <2>2. pc'[s] \in {"collection", "collectionRemove"} /\ status'[s] = status[s]
    BY <1>11, <2>1 DEF CollectionFirst, Goto, TypeOK
  <2>3. UNCHANGED <<wrote, vetoed>> BY <1>11 DEF CollectionFirst
  <2>4. QED BY <2>1, <2>2, <2>3 DEF PreHooks
<1>12. CASE CollectionRemove(s)
  <2>1. pc[s] = "collectionRemove" /\ req[s].verb = "deletecollection"
    BY <1>0, <1>12 DEF CollectionRemove, Verbs
  <2>2. pc'[s] = "collection" /\ status'[s] = status[s] /\ vetoed' = vetoed
    BY <1>12 DEF CollectionRemove, Goto, TypeOK
  <2>3. QED BY <2>1, <2>2 DEF PreHooks
<1>13. CASE CollectionEnd(s)
  BY <1>0, <1>13 DEF CollectionEnd, Reply, PreHooks, TypeOK, Verbs
<1>14. QED
  BY <1>1, <1>2, <1>3, <1>4, <1>5, <1>6, <1>7, <1>8, <1>9, <1>10, <1>11,
     <1>12, <1>13 DEF Serve

LEMMA CourseKept ==
  ASSUME Inv, [Next]_vars PROVE StagesOK' /\ RejectedHasNoEffect'
<1>1. SUFFICES ASSUME NEW s \in Reqs PROVE Course(s)'
  BY DEF Course, StagesOK, RejectedHasNoEffect, Unwritten
<1>2. Course(s) BY CourseIs DEF Inv
<1>3. req' = req /\ TypeOK BY Locality DEF Inv
<1>4. CASE Untouched(s) BY <1>2, <1>3, <1>4 DEF Untouched, Kept, Course
<1>5. CASE Lost(s)
  BY <1>2, <1>3, <1>5 DEF Lost, Kept, Course, Unwritten, PreHooks, InFlight,
     Stages
<1>6. CASE Arrive(s) \/ Serve(s) BY <1>2, <1>3, <1>6, CourseStep
<1>7. QED BY <1>3, <1>4, <1>5, <1>6, Locality

-----------------------------------------------------------------------------
(***************************************************************************)
(* What a request has written.                                             *)
(***************************************************************************)
\* A write is of a row the request addresses, and stays so.
LEMMA AddressedKept == ASSUME Inv, [Next]_vars PROVE WritesAddressed'
<1>1. req' = req BY RequestKept
<1>2. IdentityStep BY TableKept
<1>3. \A r \in Reqs : \A i \in wrote[r] :
        /\ i \in DOMAIN table'
        /\ table'[i].gvr = req[r].gvr
        /\ req[r].verb \in {"update", "delete"} => table'[i].name = req[r].name
  BY <1>2 DEF Inv, WritesAddressed, IdentityStep, SameIdentity
<1>4. CASE UNCHANGED <<table, wrote>> BY <1>1, <1>3, <1>4 DEF WritesAddressed
<1>5. ASSUME NEW r \in Reqs, NEW i,
             wrote' = [wrote EXCEPT ![r] = @ \cup {i}],
             /\ i \in DOMAIN table'
             /\ table'[i].gvr = req[r].gvr
             /\ req[r].verb \in {"update", "delete"}
                => table'[i].name = req[r].name
      PROVE  WritesAddressed'
  <2>1. wrote \in [Reqs -> SUBSET Nat] BY DEF Inv, TypeOK
  <2>2. \A s \in Reqs : wrote'[s] = IF s = r THEN wrote[s] \cup {i} ELSE wrote[s]
    BY <1>5, <2>1
  <2>3. QED BY <1>1, <1>3, <1>5, <2>2 DEF WritesAddressed
<1>6. ASSUME NEW r \in Reqs, Inserts(r) PROVE WritesAddressed'
  <2> DEFINE new == Len(table) + 1
  <2>1. req[r].verb \notin {"update", "delete"}
    BY <1>6, StageNames DEF Inv, StagesOK, Inserts, TypeOK, Request, Verbs
  <2>2. table \in Seq(Row) /\ req[r] \in Request BY DEF Inv, TypeOK
  <2>3. NewRecord(req[r]) \in Row /\ NewRecord(req[r]).gvr = req[r].gvr
    BY <2>2, NewRecordType
  <2>4. /\ new \in DOMAIN table'
        /\ table'[new] = [NewRecord(req[r]) EXCEPT !.id = new]
    BY <1>6, <2>2, <2>3, InsertedType DEF Inserts
  <2>5. table'[new].gvr = req[r].gvr BY <2>3, <2>4 DEF Row
  <2>6. wrote' = [wrote EXCEPT ![r] = @ \cup {new}]
    BY <1>6 DEF Inserts, Written
  <2> HIDE DEF new
  <2>7. QED BY <1>5, <2>1, <2>4, <2>5, <2>6
<1>7. ASSUME NEW r \in Reqs, Saves(r) \/ Removes(r) PROVE WritesAddressed'
  <2> DEFINE id == record[r].id
  <2>1. Held(r) BY <1>7 DEF Inv, HeldOK, Saves, Removes
  <2>2. /\ id \in DOMAIN table /\ table[id].gvr = req[r].gvr
        /\ pc[r] \in {"save", "remove"} => table[id].name = req[r].name
    BY <2>1 DEF Held, SameIdentity
  <2>3. req[r].verb \in {"update", "delete"} => pc[r] \in {"save", "remove"}
    BY <1>7, StageNames
    DEF Inv, StagesOK, Saves, Removes, TypeOK, Request, Verbs
  <2>4. wrote' = [wrote EXCEPT ![r] = @ \cup {id}]
    BY <1>7 DEF Saves, Removes, Written
  <2>5. /\ id \in DOMAIN table' /\ table'[id].gvr = table[id].gvr
        /\ table'[id].name = table[id].name
    BY <1>2, <2>2 DEF IdentityStep, SameIdentity
  <2> HIDE DEF id
  <2>6. QED BY <1>5, <2>2, <2>3, <2>4, <2>5
<1>8. QED BY <1>4, <1>6, <1>7, Writes

-----------------------------------------------------------------------------
(***************************************************************************)
(* The version a get asked for.                                            *)
(***************************************************************************)
VersionOf(s) ==
  /\ req[s].verb = "get" /\ req[s].resourceVersion # ""
  /\ pc[s] = "postGet" \/ status[s] = 200
  => result[s].resourceVersion = req[s].resourceVersion

\* A SELECT by version finds an object of that version, because the version
\* column is the one of the object.
LEMMA FoundVersion ==
  ASSUME NEW t, VersionsSynced(t), NEW ids, ids \subseteq DOMAIN t,
         NEW version, version # "", NEW i \in First(AtVersion(t, ids, version))
  PROVE  t[i].raw.resourceVersion = version
BY DEF First, AtVersion, VersionsSynced

\* A step of the request itself takes its answer from such a SELECT.
LEMMA VersionStep ==
  ASSUME Inv, NEW s \in Reqs, req' = req, Arrive(s) \/ Serve(s)
  PROVE  VersionOf(s)'
<1>1. SUFFICES ASSUME /\ req[s].verb = "get" /\ req[s].resourceVersion # ""
                      /\ pc'[s] = "postGet" \/ status'[s] = 200
               PROVE  result'[s].resourceVersion = req[s].resourceVersion
  BY DEF VersionOf
<1>0. /\ pc \in [Reqs -> PC] /\ result \in [Reqs -> Object]
      /\ status \in [Reqs -> {0, 200, 201, 400, 404, 500}]
  BY DEF Inv, TypeOK
<1>2. /\ pc[s] \in {"new", "done", "lost", "get", "postGet"}
      /\ pc[s] # "done" => status[s] = 0
  BY <1>1, StageNames DEF Inv, StagesOK
<1>3. VersionOf(s) BY DEF Inv, VersionInHand, VersionOf
<1>4. CASE Arrive(s)
  <2>1. pc[s] = "new" /\ status[s] = 0 BY <1>2, <1>4 DEF Arrive
  <2>2. EntryPoint(req[s]) = "get" BY <1>1 DEF EntryPoint
  <2>3. pc'[s] \in {"get", "done"} /\ status'[s] \in {0, 400}
    BY <1>4, <2>1, <2>2 DEF Arrive, Goto, Reply, Inv, TypeOK
  <2>4. ~ (pc'[s] = "postGet" \/ status'[s] = 200) BY <2>3
  <2>5. QED BY <1>1, <2>4, Zenon
<1>5. CASE RunPostHooks(s)
  <2>1. pc[s] = "postGet" BY <1>2, <1>5 DEF RunPostHooks, PostHooks
  <2>2. result' = result BY <1>5 DEF RunPostHooks, handler
  <2>3. result[s].resourceVersion = req[s].resourceVersion
    BY <1>1, <1>3, <2>1 DEF VersionOf
  <2>4. QED BY <2>2, <2>3
<1>6. CASE Get(s)
  <2> DEFINE found == First(AtVersion(table, Candidates(req[s]), Version(req[s])))
  <2>1. pc[s] = "get" /\ status[s] = 0 BY <1>2, <1>6 DEF Get
  <2>2. CASE Reply(s, 404)
    <3>1. pc'[s] = "done" /\ status'[s] = 404 BY <1>0, <2>2 DEF Reply
    <3>2. ~ (pc'[s] = "postGet" \/ status'[s] = 200) BY <3>1
    <3>3. QED BY <1>1, <3>2, Zenon
  <2>3. CASE \E i \in found : result' = [result EXCEPT ![s] = table[i].raw]
    <3>1. PICK i \in found : result' = [result EXCEPT ![s] = table[i].raw]
      BY <2>3
    <3>2. Candidates(req[s]) \subseteq DOMAIN table
      BY DEF Candidates, Addressed, OfResource, Live
    <3>3. Version(req[s]) = req[s].resourceVersion BY <1>1 DEF Version
    <3>4. VersionsSynced(table) BY DEF Inv, StoreConsistent, Consistent
    <3>5. i \in First(AtVersion(table, Candidates(req[s]),
                               req[s].resourceVersion))
      BY <3>1, <3>3
    <3>6. table[i].raw.resourceVersion = req[s].resourceVersion
      BY <1>1, <3>2, <3>4, <3>5 DEF First, AtVersion, VersionsSynced
    <3>7. QED BY <1>0, <3>1, <3>6
  <2>4. QED BY <1>6, <2>2, <2>3, Zenon DEF Get
<1>7. CASE /\ ~ Arrive(s) /\ ~ RunPostHooks(s) /\ ~ Get(s) /\ Serve(s)
  BY <1>2, <1>7
  DEF Serve, RunPreHooks, PreHooks, Insert, List, UpdateFirst, Save,
      DeleteFirst, Remove, CollectionFirst, CollectionRemove, CollectionEnd
<1>8. QED BY <1>4, <1>5, <1>6, <1>7

LEMMA VersionKept == ASSUME Inv, [Next]_vars PROVE VersionInHand'
<1>1. SUFFICES ASSUME NEW s \in Reqs PROVE VersionOf(s)'
  BY DEF VersionInHand, VersionOf
<1>2. VersionOf(s) BY DEF Inv, VersionInHand, VersionOf
<1>3. req' = req BY RequestKept
<1>4. CASE Untouched(s) BY <1>2, <1>3, <1>4 DEF Untouched, Kept, VersionOf
<1>5. CASE Lost(s)
  BY <1>2, <1>3, <1>5 DEF Lost, Kept, VersionOf
<1>6. CASE Arrive(s) \/ Serve(s) BY <1>3, <1>6, VersionStep
<1>7. QED BY <1>4, <1>5, <1>6, Locality DEF Inv

-----------------------------------------------------------------------------
(***************************************************************************)
(* The theorems.                                                           *)
(***************************************************************************)
LEMMA InitInv == ASSUME Init PROVE Inv
<1>1. TypeOK BY InitTypeOK
<1>2. StoreConsistent BY TablesAssumption DEF Init, StoreConsistent
<1>3. HeldOK BY DEF Init, HeldOK
<1>4. StagesOK BY DEF Init, StagesOK, Stages
<1>5. WritesAddressed /\ RejectedHasNoEffect
  BY DEF Init, WritesAddressed, RejectedHasNoEffect
<1>6. VersionInHand
  <2>1. \A r \in Reqs : pc[r] = "new" /\ status[r] = 0 BY DEF Init
  <2>2. \A r \in Reqs : ~ (pc[r] = "postGet" \/ status[r] = 200) BY <2>1
  <2>3. QED BY <2>2, Zenon DEF VersionInHand
<1>7. QED BY <1>1, <1>2, <1>3, <1>4, <1>5, <1>6 DEF Inv

LEMMA NextInv == ASSUME Inv, [Next]_vars PROVE Inv'
<1>1. TypeOK' BY NextTypeOK DEF Inv
<1>2. QED
  BY <1>1, TableKept, HeldKept, CourseKept, AddressedKept, VersionKept DEF Inv

\* The invariant: it is established by Init and kept by every step.
THEOREM Invariance == Spec => []Inv
<1>1. Init => Inv BY InitInv
<1>2. Inv /\ [Next]_vars => Inv' BY NextInv
<1>3. QED BY <1>1, <1>2, PTL DEF Spec

\* The table is consistent in every reachable state: keys, unique uids, and the
\* version column beside the stored object.
THEOREM StoreStaysConsistent == Spec => []StoreConsistent
<1>1. Inv => StoreConsistent BY DEF Inv
<1>2. QED BY <1>1, Invariance, PTL

\* No request has written a row that its path does not address.
THEOREM WritesStayAddressed == Spec => []WritesAddressed
<1>1. Inv => WritesAddressed BY DEF Inv
<1>2. QED BY <1>1, Invariance, PTL

\* A request that was refused, vetoed or only reads has written nothing.
THEOREM RejectionHasNoEffect == Spec => []RejectedHasNoEffect
<1>1. Inv => RejectedHasNoEffect BY DEF Inv
<1>2. QED BY <1>1, Invariance, PTL

\* A get that asks for a version is answered with that version or not at all.
THEOREM GetsAreExact == Spec => []GetByVersionExact
<1>1. Inv => GetByVersionExact BY DEF Inv, VersionInHand, GetByVersionExact
<1>2. QED BY <1>1, Invariance, PTL

\* No row is ever lost or becomes another: the action property.
THEOREM IdentityIsStable == Spec => IdentityStable
<1>1. Inv /\ [Next]_vars => [IdentityStep]_vars BY TableKept
<1>2. QED BY <1>1, Invariance, PTL DEF Spec, IdentityStable
=============================================================================

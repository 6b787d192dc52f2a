------------------------ MODULE Acknowledged_proofs ------------------------
(***************************************************************************)
(* Theorems about what ResourceServer has acknowledged: what creates and   *)
(* updates wrote lasts, what deletes removed is gone, a collection delete  *)
(* removes all it listed or, with a limit, no more than that.              *)
(***************************************************************************)
EXTENDS ResourceServer_proofs, FiniteSetTheorems

-----------------------------------------------------------------------------
(***************************************************************************)
(* Writes, one by one.                                                     *)
(***************************************************************************)

\* No request forgets what it has written.
LEMMA WroteGrows ==
  ASSUME TypeOK, [Next]_vars, NEW s \in Reqs
  PROVE  wrote[s] \subseteq wrote'[s]
<1>1. wrote \in [Reqs -> SUBSET Nat] BY DEF TypeOK
<1>2. ASSUME NEW r \in Reqs, NEW i, Written(r, i)
      PROVE  wrote[s] \subseteq wrote'[s]
  BY <1>1, <1>2 DEF Written
<1>3. QED BY <1>2, Writes DEF Inserts, Saves, Removes

\* A row that was overwritten stays so.
LEMMA OverwrittenStays ==
  ASSUME TypeOK, [Next]_vars, NEW s \in Reqs, NEW i, Overwritten(s, i)
  PROVE  Overwritten(s, i)'
BY WroteGrows, RequestKept DEF Overwritten

\* What the invariant says of the rows and of each request.
LEMMA InvSays == Inv => TypeOK /\ RowsOK /\ \A s \in Reqs : Course(s)
BY CourseIs DEF Inv, RowsOK

\* The verbs of the statements that write.
LEMMA WriterVerbs ==
  ASSUME TypeOK, NEW r \in Reqs, Course(r)
  PROVE  /\ Inserts(r) => req[r].verb = "create"
         /\ Saves(r) => req[r].verb = "update"
         /\ Removes(r) => req[r].verb \in {"delete", "deletecollection"}
<1>1. req[r].verb \in Verbs BY DEF TypeOK, Request
<1>2. pc[r] \in Stages(req[r].verb) BY DEF Course
<1>3. QED BY <1>1, <1>2, StageNames DEF Verbs, Inserts, Saves, Removes

\* A write adds a row to what the writer has written, and nothing else.
LEMMA WroteIs ==
  ASSUME TypeOK, NEW r \in Reqs
  PROVE  /\ Inserts(r) =>
              \A s \in Reqs : wrote'[s] =
                IF s = r THEN wrote[s] \cup {Len(table) + 1} ELSE wrote[s]
         /\ Saves(r) \/ Removes(r) =>
              \A s \in Reqs : wrote'[s] =
                IF s = r THEN wrote[s] \cup {record[r].id} ELSE wrote[s]
<1>1. wrote \in [Reqs -> SUBSET Nat] BY DEF TypeOK
<1>2. QED BY <1>1 DEF Written, Inserts, Saves, Removes

\* The rows an insert, a save and a removal leave.
LEMMA InsertedRow ==
  ASSUME RowsOK, NEW r \in Reqs, Inserts(r)
  PROVE  /\ Len(table) + 1 \notin DOMAIN table
         /\ DOMAIN table' = DOMAIN table \cup {Len(table) + 1}
         /\ \A i \in DOMAIN table : table'[i] = table[i]
         /\ table'[Len(table) + 1].gvr = req[r].gvr
         /\ table'[Len(table) + 1].name = Submitted(req[r]).name
         /\ table'[Len(table) + 1].namespace = Submitted(req[r]).namespace
         /\ table'[Len(table) + 1].uid = Submitted(req[r]).uid
         /\ table'[Len(table) + 1].raw = Submitted(req[r])
         /\ ~ table'[Len(table) + 1].deleted
<1> DEFINE row == NewRecord(req[r])
<1> DEFINE new == Len(table) + 1
<1>1. table \in Seq(Row) /\ req[r] \in Request BY DEF RowsOK, TypeOK
<1>2. row \in Row BY <1>1, NewRecordType
<1>3. /\ row.gvr = req[r].gvr /\ row.name = Submitted(req[r]).name
      /\ row.namespace = Submitted(req[r]).namespace
      /\ row.uid = Submitted(req[r]).uid /\ row.raw = Submitted(req[r])
      /\ row.deleted = FALSE
  BY DEF NewRecord
<1>4. table' = Inserted(table, row) BY DEF Inserts
<1> HIDE DEF row
<1>5. /\ new \notin DOMAIN table
      /\ DOMAIN table' = DOMAIN table \cup {new}
      /\ \A i \in DOMAIN table : table'[i] = table[i]
      /\ table'[new] = [row EXCEPT !.id = new]
  BY <1>1, <1>2, <1>4, InsertedType
<1>6. /\ table'[new].gvr = row.gvr /\ table'[new].name = row.name
      /\ table'[new].namespace = row.namespace /\ table'[new].uid = row.uid
      /\ table'[new].raw = row.raw /\ table'[new].deleted = row.deleted
  BY <1>2, <1>5 DEF Row
<1>7. QED BY <1>3, <1>5, <1>6

LEMMA SavedRow ==
  ASSUME RowsOK, NEW r \in Reqs, Saves(r)
  PROVE  /\ record[r].id \in DOMAIN table
         /\ DOMAIN table' = DOMAIN table
         /\ table'[record[r].id] = record[r]
         /\ \A i \in DOMAIN table : i # record[r].id => table'[i] = table[i]
<1>1. record[r].id \in DOMAIN table BY DEF RowsOK, HeldOK, Held, Saves
<1>2. record[r] \in Row /\ table \in Seq(Row) BY DEF RowsOK, TypeOK
<1>3. QED BY <1>1, <1>2, SavedType DEF Saves

LEMMA RemovedRow ==
  ASSUME RowsOK, NEW r \in Reqs, Removes(r)
  PROVE  /\ record[r].id \in DOMAIN table
         /\ DOMAIN table' = DOMAIN table
         /\ table'[record[r].id].deleted
         /\ \A i \in DOMAIN table :
              /\ i # record[r].id => table'[i] = table[i]
              /\ table'[i].raw = table[i].raw
              /\ table[i].deleted => table'[i].deleted
<1> DEFINE id == record[r].id
<1>1. id \in DOMAIN table BY DEF RowsOK, HeldOK, Held, Removes
<1>2. /\ DOMAIN table' = DOMAIN table
      /\ table'[id] = [table[id] EXCEPT !.deleted = TRUE]
      /\ \A i \in DOMAIN table : i # id => table'[i] = table[i]
  BY <1>1, SoftDeletedType DEF RowsOK, TypeOK, Removes
<1>3. table[id] \in Row BY <1>1 DEF RowsOK, TypeOK
<1>4. table'[id].deleted /\ table'[id].raw = table[id].raw
  BY <1>2, <1>3 DEF Row
<1>5. \A i \in DOMAIN table :
        /\ i # id => table'[i] = table[i]
        /\ table'[i].raw = table[i].raw
        /\ table[i].deleted => table'[i].deleted
  <2> HIDE DEF id
  <2>1. QED BY <1>2, <1>4
<1>6. QED BY <1>1, <1>2, <1>4, <1>5

-----------------------------------------------------------------------------
(***************************************************************************)
(* The rows requests wrote hold what they wrote.                           *)
(***************************************************************************)

\* What an update is about to save is what it submitted.
LEMMA SubmittedInHand ==
  ASSUME TypeOK, [Next]_vars, NEW s \in Reqs, pc'[s] = "save",
         pc[s] = "save" => /\ record[s].raw = Submitted(req[s])
                           /\ ~ record[s].deleted
  PROVE  record'[s].raw = Submitted(req[s]) /\ ~ record'[s].deleted
<1>1. CASE Untouched(s) BY <1>1 DEF Untouched, Kept
<1>2. CASE Lost(s) BY <1>2 DEF Lost
<1>3. CASE Arrive(s) \/ Serve(s)
  <2>1. PICK i \in DOMAIN table :
          /\ record'[s] = Rewritten(table[i], Submitted(req[s]))
          /\ ~ table[i].deleted
    BY <1>3, Takes DEF Holding
  <2>2. table[i] \in Row /\ Submitted(req[s]) \in Object
    BY SubmittedType DEF TypeOK
  <2>3. QED BY <2>1, <2>2, RewrittenType
<1>4. QED BY <1>1, <1>2, <1>3, Locality

\* What WritesHold says of one row that one request wrote.
Holds(s, i) ==
  LET obj == Submitted(req[s]) IN
  /\ req[s].verb = "create" =>
       /\ table[i].name = obj.name
       /\ table[i].namespace = obj.namespace
       /\ table[i].uid = obj.uid
  /\ req[s].verb \in {"create", "update"} =>
       table[i].raw = obj \/ Overwritten(s, i)

\* It holds after a step that leaves the object of the row alone.
LEMMA HoldsStill ==
  ASSUME Inv, [Next]_vars, NEW s \in Reqs, NEW i \in wrote[s], Holds(s, i),
         table'[i].raw = table[i].raw
  PROVE  Holds(s, i)'
<1>1. req' = req BY RequestKept
<1>2. i \in DOMAIN table BY DEF Inv, WritesAddressed
<1>3. /\ table'[i].name = table[i].name /\ table'[i].uid = table[i].uid
      /\ table'[i].namespace = table[i].namespace
  BY <1>2, TableKept DEF IdentityStep, SameIdentity
<1>4. Overwritten(s, i) => Overwritten(s, i)' BY OverwrittenStays DEF Inv
<1>5. QED BY <1>1, <1>3, <1>4 DEF Holds

LEMMA WritesHoldKept ==
  ASSUME Inv, WritesHold, [Next]_vars PROVE WritesHold'
<1>1. req' = req /\ TypeOK BY RequestKept DEF Inv
<1>2. \A s \in Reqs : pc'[s] = "save" =>
        record'[s].raw = Submitted(req'[s]) /\ ~ record'[s].deleted
  BY <1>1, SubmittedInHand DEF WritesHold
<1>3. ASSUME NEW s \in Reqs, NEW i \in wrote'[s] PROVE Holds(s, i)'
  <2>1. i \in wrote[s] => i \in DOMAIN table /\ Holds(s, i)
    BY DEF Inv, WritesAddressed, WritesHold, Holds
  <2>2. CASE UNCHANGED <<table, wrote>>
    BY <1>1, <1>3, <2>1, <2>2 DEF Holds, Overwritten
  <2>3. ASSUME NEW r \in Reqs, Inserts(r) PROVE Holds(s, i)'
    <3>1. CASE i \in wrote[s]
      <4>1. table'[i] = table[i] BY <2>1, <2>3, <3>1, InvSays, InsertedRow
      <4>2. QED BY <2>1, <3>1, <4>1, HoldsStill
    <3>2. CASE i \notin wrote[s]
      <4>1. s = r /\ i = Len(table) + 1 BY <1>1, <1>3, <2>3, <3>2, WroteIs
      <4>2. /\ table'[i].name = Submitted(req[s]).name
            /\ table'[i].namespace = Submitted(req[s]).namespace
            /\ table'[i].uid = Submitted(req[s]).uid
            /\ table'[i].raw = Submitted(req[s])
        BY <2>3, <4>1, InvSays, InsertedRow
      <4>3. QED BY <1>1, <4>2 DEF Holds
    <3>3. QED BY <3>1, <3>2
  <2>4. ASSUME NEW r \in Reqs, Saves(r) PROVE Holds(s, i)'
    <3>1. req[r].verb = "update" /\ record[r].raw = Submitted(req[r])
      BY <2>4, InvSays, WriterVerbs DEF Saves, WritesHold
    <3>2. /\ record[r].id \in DOMAIN table
          /\ table'[record[r].id] = record[r]
          /\ \A j \in DOMAIN table : j # record[r].id => table'[j] = table[j]
      BY <2>4, InvSays, SavedRow
    <3>3. record[r].id \in wrote'[r] BY <1>1, <2>4, WroteIs
    <3>4. CASE i # record[r].id
      <4>1. i \in wrote[s] BY <1>1, <1>3, <2>4, <3>4, WroteIs
      <4>2. QED BY <2>1, <3>2, <3>4, <4>1, HoldsStill
    <3>5. CASE i = record[r].id /\ s = r
      BY <1>1, <3>1, <3>2, <3>5 DEF Holds
    <3>6. CASE i = record[r].id /\ s # r
      <4>1. i \in wrote[s] BY <1>1, <1>3, <2>4, <3>6, WroteIs
      <4>2. /\ table'[i].name = table[i].name /\ table'[i].uid = table[i].uid
            /\ table'[i].namespace = table[i].namespace
        BY <2>1, <4>1, TableKept DEF IdentityStep, SameIdentity
      <4>3. Overwritten(s, i)' BY <1>1, <3>1, <3>3, <3>6 DEF Overwritten
      <4>4. QED BY <1>1, <2>1, <4>1, <4>2, <4>3 DEF Holds
    <3>7. QED BY <3>4, <3>5, <3>6
  <2>5. ASSUME NEW r \in Reqs, Removes(r) PROVE Holds(s, i)'
    <3>1. CASE i \in wrote[s]
      <4>1. table'[i].raw = table[i].raw BY <2>1, <2>5, <3>1, InvSays, RemovedRow
      <4>2. QED BY <2>1, <3>1, <4>1, HoldsStill
    <3>2. CASE i \notin wrote[s]
      <4>1. s = r BY <1>1, <1>3, <2>5, <3>2, WroteIs
      <4>2. req[s].verb \notin {"create", "update"} BY <2>5, <4>1, InvSays, WriterVerbs
      <4>3. QED BY <1>1, <4>2 DEF Holds
    <3>3. QED BY <3>1, <3>2
  <2>6. QED BY <2>2, <2>3, <2>4, <2>5, Writes
<1>4. QED BY <1>2, <1>3 DEF WritesHold, Holds

\* What a delete removed stays removed until an update writes it back.
LEMMA RemovalsHoldKept ==
  ASSUME Inv, RemovalsHold, [Next]_vars PROVE RemovalsHold'
<1>1. req' = req /\ TypeOK BY RequestKept DEF Inv
<1>2. SUFFICES ASSUME NEW s \in Reqs, NEW i \in wrote'[s],
                      req[s].verb \in {"delete", "deletecollection"}
               PROVE  table'[i].deleted \/ Overwritten(s, i)'
  BY <1>1 DEF RemovalsHold
<1>3. i \in wrote[s] => /\ i \in DOMAIN table
                        /\ table[i].deleted \/ Overwritten(s, i)
  BY <1>2 DEF Inv, WritesAddressed, RemovalsHold
<1>4. Overwritten(s, i) => Overwritten(s, i)' BY <1>1, OverwrittenStays
<1>5. CASE UNCHANGED <<table, wrote>> BY <1>2, <1>3, <1>4, <1>5
<1>6. ASSUME NEW r \in Reqs, Inserts(r)
      PROVE  table'[i].deleted \/ Overwritten(s, i)'
  <2>1. s # r BY <1>2, <1>6, InvSays, WriterVerbs
  <2>2. i \in wrote[s] BY <1>1, <1>2, <1>6, <2>1, WroteIs
  <2>3. \A j \in DOMAIN table : table'[j] = table[j] BY <1>6, InvSays, InsertedRow
  <2>4. QED BY <1>3, <1>4, <2>2, <2>3
<1>7. ASSUME NEW r \in Reqs, Saves(r)
      PROVE  table'[i].deleted \/ Overwritten(s, i)'
  <2>1. s # r /\ req[r].verb = "update" BY <1>2, <1>7, InvSays, WriterVerbs
  <2>2. \A j \in DOMAIN table : j # record[r].id => table'[j] = table[j]
    BY <1>7, InvSays, SavedRow
  <2>3. i \in wrote[s] BY <1>1, <1>2, <1>7, <2>1, WroteIs
  <2>4. CASE i = record[r].id
    <3>1. i \in wrote'[r] BY <1>1, <1>7, <2>4, WroteIs
    <3>2. QED BY <1>1, <2>1, <3>1 DEF Overwritten
  <2>5. CASE i # record[r].id BY <1>3, <1>4, <2>2, <2>3, <2>5
  <2>6. QED BY <2>4, <2>5
<1>8. ASSUME NEW r \in Reqs, Removes(r)
      PROVE  table'[i].deleted \/ Overwritten(s, i)'
  <2>1. CASE i \in wrote[s] BY <1>3, <1>4, <1>8, <2>1, InvSays, RemovedRow
  <2>2. CASE i \notin wrote[s]
    <3>1. i = record[r].id BY <1>1, <1>2, <1>8, <2>2, WroteIs
    <3>2. QED BY <1>8, <3>1, InvSays, RemovedRow
  <2>3. QED BY <2>1, <2>2
<1>9. QED BY <1>5, <1>6, <1>7, <1>8, Writes

-----------------------------------------------------------------------------
(***************************************************************************)
(* A success is answered after the write.                                  *)
(***************************************************************************)
PerformedOf(s) ==
  /\ req[s].verb \in {"create", "update", "delete"}
  /\ \/ pc[s] \in {"postCreate", "postUpdate", "postDelete"}
     \/ status[s] \in {200, 201}
  => wrote[s] # {}

LEMMA PerformedStep ==
  ASSUME TypeOK, NEW s \in Reqs, Course(s), PerformedOf(s), req' = req,
         Arrive(s) \/ Serve(s)
  PROVE  PerformedOf(s)'
<1> USE StageNames DEF PerformedOf, handler, history
<1>0. /\ req[s].verb \in Verbs /\ pc[s] \in Stages(req[s].verb)
      /\ pc[s] # "done" => status[s] = 0
  BY DEF TypeOK, Request, Course
<1>1. /\ pc \in [Reqs -> PC] /\ wrote \in [Reqs -> SUBSET Nat]
      /\ status \in [Reqs -> {0, 200, 201, 400, 404, 500}]
  BY DEF TypeOK
<1>2. CASE Arrive(s)
  BY <1>0, <1>1, <1>2 DEF Arrive, Goto, Reply, EntryPoint, Verbs
<1>3. CASE RunPreHooks(s)
  <2>1. pc[s] \in PreHooks /\ status[s] = 0
    BY <1>0, <1>3 DEF RunPreHooks, PreHooks
  <2>2. AfterHooks(pc[s]) \in {"insert", "updateFirst", "deleteFirst"}
    BY <2>1 DEF AfterHooks, PreHooks
  <2>3. /\ pc'[s] \in {"insert", "updateFirst", "deleteFirst", "done"}
        /\ status'[s] \in {0, 500}
    BY <1>1, <1>3, <2>1, <2>2 DEF RunPreHooks, HookFailed, Goto, Reply
  <2>4. QED BY <2>3
<1>4. CASE RunPostHooks(s)
  BY <1>0, <1>1, <1>4 DEF RunPostHooks, HookFailed, Reply, PostHooks, Verbs
<1>5. CASE Insert(s)
  <2>1. (\E i : Written(s, i)) \/ Reply(s, 500) BY <1>5 DEF Insert
  <2>2. wrote'[s] # {} \/ (pc'[s] = "done" /\ status'[s] = 500)
    BY <1>1, <2>1 DEF Written, Reply
  <2>3. QED BY <2>2
<1>6. CASE Get(s)
  BY <1>0, <1>1, <1>6 DEF Get, Goto, Reply, Verbs
<1>7. CASE List(s)
  <2>1. req[s].verb \in {"list", "deletecollection"}
    BY <1>0, <1>7 DEF List, Verbs
  <2>2. QED BY <2>1
<1>8. CASE UpdateFirst(s) \/ DeleteFirst(s)
  BY <1>0, <1>1, <1>8 DEF UpdateFirst, DeleteFirst, Goto, Reply
<1>9. CASE Save(s) \/ Remove(s)
  BY <1>0, <1>1, <1>9 DEF Save, Remove, Written, Goto, Reply
<1>10. CASE CollectionFirst(s) \/ CollectionRemove(s) \/ CollectionEnd(s)
  <2>1. req[s].verb = "deletecollection"
    BY <1>0, <1>10
    DEF CollectionFirst, CollectionRemove, CollectionEnd, Verbs
  <2>2. QED BY <2>1
<1>11. QED
  BY <1>2, <1>3, <1>4, <1>5, <1>6, <1>7, <1>8, <1>9, <1>10 DEF Serve

LEMMA PerformedKept ==
  ASSUME Inv, Performed, [Next]_vars PROVE Performed'
<1>1. SUFFICES ASSUME NEW s \in Reqs PROVE PerformedOf(s)'
  BY DEF Performed, PerformedOf
<1>2. PerformedOf(s) BY DEF Performed, PerformedOf
<1>3. req' = req BY RequestKept
<1>4. CASE Untouched(s) BY <1>2, <1>3, <1>4 DEF Untouched, Kept, PerformedOf
<1>5. CASE Lost(s) BY <1>2, <1>3, <1>5 DEF Lost, Kept, PerformedOf
<1>6. CASE Arrive(s) \/ Serve(s) BY <1>2, <1>3, <1>6, InvSays, PerformedStep
<1>7. QED BY <1>4, <1>5, <1>6, Locality DEF Inv

-----------------------------------------------------------------------------
(***************************************************************************)
(* What a list read.                                                       *)
(***************************************************************************)

\* The rows of a page: finitely many, each with an id of its own, each still
\* the row of the table with that id.
LEMMA PageIsFinite ==
  ASSUME TypeOK, NEW gvr, NEW n, NEW page \in Pages(OfResource(table, gvr), n)
  PROVE  IsFiniteSet(page) /\ page \subseteq OfResource(table, gvr)
                           /\ page \subseteq DOMAIN table
<1>1. page \subseteq OfResource(table, gvr) BY DEF Pages
<1>2. OfResource(table, gvr) \subseteq DOMAIN table BY DEF OfResource, Live
<1>3. DOMAIN table = 1..Len(table) /\ Len(table) \in Nat BY DEF TypeOK
<1>4. IsFiniteSet(DOMAIN table) BY <1>3, FS_Interval
<1>5. QED BY <1>1, <1>2, <1>4, FS_Subset

Listed(page) == {table[i] : i \in page}

LEMMA ListedRows ==
  ASSUME Inv, NEW gvr, NEW n, NEW page \in Pages(OfResource(table, gvr), n)
  PROVE  /\ IsFiniteSet(Listed(page))
         /\ Cardinality(Listed(page)) <= Cardinality(page)
         /\ \A a, b \in Listed(page) : a.id = b.id => a = b
         /\ \A row \in Listed(page) :
              /\ row.id \in page /\ row = table[row.id]
              /\ row.id \in DOMAIN table /\ row.gvr = gvr /\ ~ row.deleted
         /\ \A i \in page : \E row \in Listed(page) : row.id = i
<1>1. TypeOK /\ IdsAreIndices(table)
  BY DEF Inv, StoreConsistent, Consistent
<1>2. /\ IsFiniteSet(page) /\ page \subseteq OfResource(table, gvr)
      /\ page \subseteq DOMAIN table
  BY <1>1, PageIsFinite
<1> DEFINE f == [i \in page |-> table[i]]
<1>3. f \in Surjection(page, Listed(page)) BY DEF Surjection, Listed
<1>4. /\ IsFiniteSet(Listed(page))
      /\ Cardinality(Listed(page)) <= Cardinality(page)
  BY <1>2, <1>3, FS_Surjection
<1>5. \A i \in page : /\ table[i].id = i /\ table[i].gvr = gvr
                      /\ ~ table[i].deleted
  BY <1>1, <1>2 DEF IdsAreIndices, OfResource, Live
<1>6. \A row \in Listed(page) : \E i \in page : row = table[i] BY DEF Listed
<1>7. \A row \in Listed(page) :
        /\ row.id \in page /\ row = table[row.id]
        /\ row.gvr = gvr /\ ~ row.deleted
  BY <1>5, <1>6
<1>8. \A i \in page : table[i] \in Listed(page) BY DEF Listed
<1>9. QED BY <1>2, <1>4, <1>5, <1>7, <1>8

\* What List leaves in items and left.
LEMMA ListOutcome ==
  ASSUME TypeOK, NEW s \in Reqs, List(s)
  PROVE  \/ /\ items'[s] = items[s] /\ left'[s] = left[s]
            /\ pc'[s] = "done" /\ status'[s] = 500
         \/ \E page \in Pages(OfResource(table, req[s].gvr), Limit(req[s])) :
              /\ items'[s] = Listed(page)
              /\ \/ /\ req[s].verb = "deletecollection"
                    /\ left'[s] = Listed(page)
                    /\ pc'[s] = "collection" /\ status'[s] = status[s]
                 \/ /\ req[s].verb = "list"
                    /\ left'[s] = left[s]
                    /\ pc'[s] \in {"postList", "done"}
<1>1. items \in [Reqs -> SUBSET Row] /\ left \in [Reqs -> SUBSET Row]
  BY DEF TypeOK
<1>2. pc \in [Reqs -> PC] /\ status \in [Reqs -> Codes] BY DEF TypeOK, Codes
<1>3. CASE Reply(s, 500) /\ UNCHANGED <<items, left>>
  BY <1>2, <1>3 DEF Reply
<1>4. ASSUME NEW page \in Pages(OfResource(table, req[s].gvr), Limit(req[s])),
             /\ items' = [items EXCEPT ![s] = {table[i] : i \in page}]
             /\ \/ /\ req[s].verb = "deletecollection"
                   /\ left' = [left EXCEPT ![s] = {table[i] : i \in page}]
                   /\ Goto(s, "collection")
                \/ /\ req[s].verb = "list"
                   /\ UNCHANGED left
                   /\ Goto(s, "postList") \/ Reply(s, 200)
      PROVE  /\ items'[s] = Listed(page)
             /\ \/ /\ req[s].verb = "deletecollection"
                   /\ left'[s] = Listed(page)
                   /\ pc'[s] = "collection" /\ status'[s] = status[s]
                \/ /\ req[s].verb = "list"
                   /\ left'[s] = left[s]
                   /\ pc'[s] \in {"postList", "done"}
  <2>1. items'[s] = Listed(page) BY <1>1, <1>4 DEF Listed
  <2>2. CASE /\ req[s].verb = "deletecollection"
             /\ left' = [left EXCEPT ![s] = {table[i] : i \in page}]
             /\ Goto(s, "collection")
    BY <1>1, <1>2, <2>1, <2>2 DEF Goto, Listed
  <2>3. CASE /\ req[s].verb = "list" /\ UNCHANGED left
             /\ Goto(s, "postList") \/ Reply(s, 200)
    BY <1>2, <2>1, <2>3 DEF Goto, Reply
  <2>4. QED BY <1>4, <2>2, <2>3, Zenon
<1>5. QED BY <1>3, <1>4, Zenon DEF List

\* One turn of the loop of a collection delete: the item whose turn it is is
\* never tried again.
LEMMA TurnOutcome ==
  ASSUME TypeOK, NEW s \in Reqs, CollectionFirst(s)
  PROVE  \E item \in left[s] :
           LET found == First(Addressed(table, req[s].gvr, item.raw.name)) IN
           /\ left'[s] = left[s] \ {item}
           /\ items' = items /\ status'[s] = status[s] /\ pc[s] = "collection"
           /\ \/ /\ pc'[s] = "collectionRemove"
                 /\ \E i \in found : record'[s] = table[i]
              \/ /\ pc'[s] = "collection"
                 /\ found = {} \/ LookupRefused
<1>1. left \in [Reqs -> SUBSET Row] /\ record \in [Reqs -> Row] BY DEF TypeOK
<1>2. pc \in [Reqs -> PC] /\ status \in [Reqs -> Codes] BY DEF TypeOK, Codes
<1>3. PICK item \in left[s] : CollectionFirst(s)!2!(item)
  BY DEF CollectionFirst
<1> DEFINE found == First(Addressed(table, req[s].gvr, item.raw.name))
<1>4. items' = items /\ pc[s] = "collection" BY DEF CollectionFirst
<1>5. CASE ConditionParses /\ \E i \in found :
             /\ left' = [left EXCEPT ![s] = @ \ {item}]
             /\ record' = [record EXCEPT ![s] = table[i]]
             /\ Goto(s, "collectionRemove")
  <2>1. left'[s] = left[s] \ {item} BY <1>1, <1>5
  <2>2. \E i \in found : record'[s] = table[i] BY <1>1, <1>5
  <2>3. pc'[s] = "collectionRemove" /\ status'[s] = status[s]
    BY <1>2, <1>5 DEF Goto
  <2>4. QED BY <1>4, <2>1, <2>2, <2>3
<1>6. CASE /\ found = {} \/ LookupRefused
           /\ left' = [left EXCEPT ![s] = Skipped(@, item)]
           /\ UNCHANGED <<record, pc, status>>
  <2>1. left'[s] = left[s] \ {item} BY <1>1, <1>6 DEF Skipped
  <2>2. QED BY <1>4, <1>6, <2>1
<1>7. QED BY <1>3, <1>5, <1>6

\* What the other steps of a request do to its list.
LEMMA ListLeftAlone ==
  ASSUME Inv, NEW s \in Reqs, Arrive(s) \/ Serve(s),
         ~ List(s), ~ CollectionFirst(s)
  PROVE  /\ items'[s] = items[s] /\ left'[s] = left[s]
         /\ pc'[s] \in {"new", "list"} => pc[s] = "new"
         /\ req[s].verb = "deletecollection" /\ pc'[s] = "done" =>
              pc[s] = "new" \/ left[s] = {}
<1> USE DEF handler
<1>1. /\ req[s].verb \in Verbs /\ pc[s] \in Stages(req[s].verb)
      /\ pc \in [Reqs -> PC]
  BY DEF Inv, TypeOK, Request, StagesOK
<1>2. items'[s] = items[s] /\ left'[s] = left[s]
  BY DEF Arrive, Serve, RunPreHooks, RunPostHooks, Insert, Get, UpdateFirst,
     Save, DeleteFirst, Remove, CollectionRemove, CollectionEnd
<1>3. pc'[s] \in {"new", "list"} => pc[s] = "new"
  <2>1. CASE Arrive(s) BY <2>1 DEF Arrive
  <2>2. CASE RunPreHooks(s)
    <3>1. AfterHooks(pc[s]) \in {"insert", "updateFirst", "deleteFirst"}
      BY <2>2 DEF RunPreHooks, AfterHooks, PreHooks
    <3>2. pc'[s] \in {"insert", "updateFirst", "deleteFirst", "done"}
      BY <1>1, <2>2, <3>1 DEF RunPreHooks, HookFailed, Goto, Reply
    <3>3. QED BY <3>2
  <2>3. CASE ~ Arrive(s) /\ ~ RunPreHooks(s)
    BY <1>1, <2>3
    DEF Serve, RunPostHooks, HookFailed, Insert, Get, UpdateFirst, Save,
        DeleteFirst, Remove, CollectionRemove, CollectionEnd, Goto, Reply
  <2>4. QED BY <2>1, <2>2, <2>3
<1>4. ASSUME req[s].verb = "deletecollection", pc'[s] = "done"
      PROVE  pc[s] = "new" \/ left[s] = {}
  <2>1. pc[s] \in {"new", "done", "lost", "list", "collection",
                   "collectionRemove"}
    BY <1>1, <1>4, StageNames
  <2>2. Arrive(s) \/ CollectionRemove(s) \/ CollectionEnd(s)
    BY <2>1
    DEF Serve, RunPreHooks, RunPostHooks, PreHooks, PostHooks, Insert, Get,
        UpdateFirst, Save, DeleteFirst, Remove
  <2>3. ~ CollectionRemove(s) BY <1>1, <1>4 DEF CollectionRemove, Goto
  <2>4. QED BY <2>2, <2>3 DEF Arrive, CollectionEnd
<1>5. QED BY <1>2, <1>3, <1>4

\* What ItemsOK says of one request.
RowsOf(s) ==
  \A row \in items[s] :
    /\ row.id \in DOMAIN table
    /\ SameIdentity(row, table[row.id])
    /\ row.gvr = req[s].gvr
ItemsOf(s) ==
  /\ IsFiniteSet(items[s])
  /\ pc[s] \in {"new", "list"} => items[s] = {}
  /\ left[s] \subseteq items[s]
  /\ \A a, b \in items[s] : a.id = b.id => a = b
  /\ RowsOf(s)
  /\ req[s].verb = "deletecollection" /\ pc[s] = "done" => left[s] = {}

LEMMA ItemsKept ==
  ASSUME Inv, ItemsOK, [Next]_vars PROVE ItemsOK'
<1>1. SUFFICES ASSUME NEW s \in Reqs PROVE ItemsOf(s)'
  BY DEF ItemsOK, ItemsOf, RowsOf
<1>2. ItemsOf(s) BY DEF ItemsOK, ItemsOf, RowsOf
<1>3. req' = req /\ TypeOK BY RequestKept DEF Inv
<1>4. ASSUME NEW rows, items'[s] = rows,
             \A row \in rows : /\ row.id \in DOMAIN table
                               /\ SameIdentity(row, table[row.id])
                               /\ row.gvr = req[s].gvr
      PROVE  RowsOf(s)'
  BY <1>3, <1>4, TableKept DEF RowsOf, IdentityStep, SameIdentity
<1>5. items'[s] = items[s] => RowsOf(s)' BY <1>2, <1>4 DEF ItemsOf, RowsOf
<1>6. CASE Untouched(s)
  BY <1>2, <1>3, <1>5, <1>6 DEF Untouched, Kept, ItemsOf
<1>7. CASE Lost(s)
  BY <1>2, <1>3, <1>5, <1>7 DEF Lost, Kept, ItemsOf
<1>8. CASE List(s)
  <2>1. pc[s] = "list" BY <1>8 DEF List
  <2>2. items[s] = {} /\ left[s] = {} BY <1>2, <2>1 DEF ItemsOf
  <2>3. CASE /\ items'[s] = items[s] /\ left'[s] = left[s]
             /\ pc'[s] = "done"
    BY <1>2, <1>5, <2>2, <2>3 DEF ItemsOf
  <2>4. ASSUME NEW page \in Pages(OfResource(table, req[s].gvr), Limit(req[s])),
               items'[s] = Listed(page),
               \/ /\ req[s].verb = "deletecollection"
                  /\ left'[s] = Listed(page)
                  /\ pc'[s] = "collection"
               \/ /\ req[s].verb = "list"
                  /\ left'[s] = left[s]
                  /\ pc'[s] \in {"postList", "done"}
        PROVE  ItemsOf(s)'
    <3>1. /\ IsFiniteSet(Listed(page))
          /\ \A a, b \in Listed(page) : a.id = b.id => a = b
          /\ \A row \in Listed(page) :
               /\ row = table[row.id]
               /\ row.id \in DOMAIN table /\ row.gvr = req[s].gvr
      BY ListedRows
    <3>2. RowsOf(s)' BY <1>4, <2>4, <3>1 DEF SameIdentity
    <3>3. left'[s] \subseteq items'[s] BY <2>2, <2>4
    <3>4. pc'[s] \notin {"new", "list"} BY <2>4
    <3>5. ~ (req'[s].verb = "deletecollection" /\ pc'[s] = "done")
      BY <1>3, <2>4
    <3>6. QED BY <2>4, <3>1, <3>2, <3>3, <3>4, <3>5, Zenon DEF ItemsOf
  <2>5. QED BY <1>3, <1>8, <2>3, <2>4, ListOutcome, Zenon
<1>9. CASE CollectionFirst(s)
  <2>1. /\ items'[s] = items[s] /\ left'[s] \subseteq left[s]
        /\ pc'[s] \in {"collection", "collectionRemove"}
    BY <1>3, <1>9, TurnOutcome
  <2>2. pc'[s] \notin {"new", "list", "done"} BY <2>1
  <2>3. QED BY <1>2, <1>5, <2>1, <2>2 DEF ItemsOf
<1>10. CASE (Arrive(s) \/ Serve(s)) /\ ~ List(s) /\ ~ CollectionFirst(s)
  <2>1. /\ items'[s] = items[s] /\ left'[s] = left[s]
        /\ pc'[s] \in {"new", "list"} => pc[s] = "new"
        /\ req[s].verb = "deletecollection" /\ pc'[s] = "done" =>
             pc[s] = "new" \/ left[s] = {}
    BY <1>10, ListLeftAlone
  <2>2. pc[s] = "new" => left[s] = {} BY <1>2 DEF ItemsOf
  <2>3. QED BY <1>2, <1>3, <1>5, <2>1, <2>2 DEF ItemsOf
<1>11. QED BY <1>3, <1>6, <1>7, <1>8, <1>9, <1>10, Locality

-----------------------------------------------------------------------------
(***************************************************************************)
(* Limits and turns.                                                       *)
(***************************************************************************)

\* A limit that fits an int64 is parsed as it is.
LEMMA LimitFits ==
  ASSUME NEW q \in Request, q.verb = "deletecollection",
         q.limit \in 1..(Modulus \div 2 - 1)
  PROVE  Limit(q) = q.limit
<1>1. Modulus \in Nat /\ Modulus > 1 BY ModulusAssumption
<1>2. Modulus \div 2 <= Modulus BY <1>1
<1>3. q.limit \in Nat /\ q.limit < Modulus \div 2 BY <1>1
<1>4. q.limit % Modulus = q.limit BY <1>1, <1>2, <1>3
<1>5. ParsedLimit(q.limit) = q.limit BY <1>3, <1>4 DEF ParsedLimit
<1>6. QED BY <1>5 DEF Limit

\* A page is no longer than its limit.
LEMMA PageFits ==
  ASSUME TypeOK, NEW gvr, NEW n \in Nat \ {0},
         NEW page \in Pages(OfResource(table, gvr), n)
  PROVE  Cardinality(page) <= n
BY DEF Pages

\* Where the steps that are neither a list nor a turn leave a collection
\* delete.
LEMMA NoTurnLeft ==
  ASSUME Inv, NEW s \in Reqs, Arrive(s) \/ Serve(s),
         ~ List(s), ~ CollectionFirst(s)
  PROVE  pc'[s] # "collectionRemove"
<1> USE DEF handler
<1>1. pc \in [Reqs -> PC] /\ req[s] \in Request BY DEF Inv, TypeOK
<1>2. CASE Arrive(s)
  BY <1>1, <1>2 DEF Arrive, Goto, Reply, EntryPoint, Request, Verbs
<1>3. CASE RunPreHooks(s)
  <2>1. AfterHooks(pc[s]) \in {"insert", "updateFirst", "deleteFirst"}
    BY <1>3 DEF RunPreHooks, AfterHooks, PreHooks
  <2>2. pc'[s] \in {"insert", "updateFirst", "deleteFirst", "done"}
    BY <1>1, <1>3, <2>1 DEF RunPreHooks, HookFailed, Goto, Reply
  <2>3. QED BY <2>2
<1>4. CASE ~ Arrive(s) /\ ~ RunPreHooks(s)
  BY <1>1, <1>4
  DEF Serve, RunPostHooks, HookFailed, Insert, Get, UpdateFirst, Save,
      DeleteFirst, Remove, CollectionRemove, CollectionEnd, Goto, Reply
<1>5. QED BY <1>2, <1>3, <1>4

\* What TurnsOK says of one request.
TurnsOf(s) ==
  /\ req[s].verb = "deletecollection"
  /\ req[s].limit \in 1..(Modulus \div 2 - 1)
  => /\ IsFiniteSet(wrote[s])
     /\ pc[s] # "collectionRemove" =>
          Cardinality(wrote[s]) + Cardinality(left[s]) <= req[s].limit
     /\ pc[s] = "collectionRemove" =>
          Cardinality(wrote[s]) + Cardinality(left[s]) < req[s].limit

LEMMA TurnsKept ==
  ASSUME Inv, ItemsOK, TurnsOK, [Next]_vars PROVE TurnsOK'
<1>1. req' = req /\ TypeOK BY RequestKept DEF Inv
<1>2. SUFFICES ASSUME NEW s \in Reqs, req[s].verb = "deletecollection",
                      req[s].limit \in 1..(Modulus \div 2 - 1)
               PROVE  TurnsOf(s)'
  BY <1>1 DEF TurnsOK, TurnsOf
<1> DEFINE n == req[s].limit
<1>3. n \in Nat /\ n >= 1 /\ n = Limit(req[s])
  <2>1. req[s] \in Request BY <1>1 DEF TypeOK
  <2>2. n = Limit(req[s]) BY <1>2, <2>1, LimitFits
  <2>3. QED BY <1>2, <2>1, <2>2 DEF Request
<1>4. /\ IsFiniteSet(wrote[s]) /\ IsFiniteSet(left[s])
      /\ Cardinality(wrote[s]) \in Nat /\ Cardinality(left[s]) \in Nat
      /\ pc[s] # "collectionRemove" =>
           Cardinality(wrote[s]) + Cardinality(left[s]) <= n
      /\ pc[s] = "collectionRemove" =>
           Cardinality(wrote[s]) + Cardinality(left[s]) < n
  BY <1>2, FS_Subset, FS_CardinalityType DEF TurnsOK, ItemsOK
<1> HIDE DEF n
<1>5. ASSUME IsFiniteSet(wrote'[s]),
             pc'[s] # "collectionRemove" =>
               Cardinality(wrote'[s]) + Cardinality(left'[s]) <= n,
             pc'[s] = "collectionRemove" =>
               Cardinality(wrote'[s]) + Cardinality(left'[s]) < n
      PROVE  TurnsOf(s)'
  BY <1>1, <1>5 DEF TurnsOf, n
<1>6. ASSUME wrote'[s] = wrote[s], left'[s] = left[s],
             pc'[s] = pc[s] \/ pc'[s] # "collectionRemove"
      PROVE  TurnsOf(s)'
  BY <1>3, <1>4, <1>5, <1>6
<1>7. CASE Untouched(s) BY <1>6, <1>7 DEF Untouched, Kept
<1>8. CASE Lost(s) BY <1>6, <1>8 DEF Lost, Kept
<1>9. CASE List(s)
  <2>1. wrote[s] = {} /\ wrote' = wrote /\ pc[s] = "list"
    BY <1>9 DEF List, history, Inv, StagesOK, Unwritten, PreHooks
  <2>2. CASE left'[s] = left[s] /\ pc'[s] = "done" BY <1>6, <2>1, <2>2
  <2>3. ASSUME NEW page \in Pages(OfResource(table, req[s].gvr), Limit(req[s])),
               left'[s] = Listed(page), pc'[s] = "collection"
        PROVE  TurnsOf(s)'
    <3>1. /\ IsFiniteSet(Listed(page))
          /\ Cardinality(Listed(page)) <= Cardinality(page)
      BY ListedRows
    <3>2. Cardinality(page) <= n BY <1>1, <1>3, PageFits
    <3>3. IsFiniteSet(page) BY <1>1, PageIsFinite
    <3>4. /\ Cardinality(page) \in Nat /\ Cardinality(Listed(page)) \in Nat
      BY <3>1, <3>3, FS_CardinalityType
    <3>5. IsFiniteSet(wrote'[s]) /\ Cardinality(wrote'[s]) = 0
      BY <2>1, FS_EmptySet
    <3>6. QED BY <1>3, <1>5, <2>3, <3>1, <3>2, <3>4, <3>5
  <2>4. QED BY <1>1, <1>2, <1>9, <2>2, <2>3, ListOutcome
<1>10. CASE CollectionFirst(s)
  <2>1. wrote'[s] = wrote[s] /\ pc[s] = "collection"
    BY <1>10 DEF CollectionFirst, history
  <2>2. PICK item \in left[s] : left'[s] = left[s] \ {item}
    BY <1>1, <1>10, TurnOutcome
  <2>3. Cardinality(left'[s]) = Cardinality(left[s]) - 1
    BY <1>4, <2>2, FS_RemoveElement
  <2>4. QED BY <1>3, <1>4, <1>5, <2>1, <2>3
<1>11. CASE CollectionRemove(s)
  <2>1. /\ pc[s] = "collectionRemove" /\ pc'[s] = "collection"
        /\ left'[s] = left[s]
    BY <1>1, <1>11 DEF CollectionRemove, Goto, handler, TypeOK
  <2> DEFINE more == wrote[s] \cup {record[s].id}
  <2>2. wrote'[s] = wrote[s] \/ wrote'[s] = more
    <3>1. wrote \in [Reqs -> SUBSET Nat] BY <1>1 DEF TypeOK
    <3>2. QED BY <1>11, <3>1 DEF CollectionRemove, Written
  <2>3. IsFiniteSet(more) /\ Cardinality(more) <= Cardinality(wrote[s]) + 1
    BY <1>4, FS_AddElement
  <2>4. Cardinality(more) \in Nat BY <2>3, FS_CardinalityType
  <2> HIDE DEF more
  <2>5. QED BY <1>3, <1>4, <1>5, <2>1, <2>2, <2>3, <2>4
<1>12. CASE /\ Arrive(s) \/ Serve(s)
            /\ ~ List(s) /\ ~ CollectionFirst(s) /\ ~ CollectionRemove(s)
  <2>1. left'[s] = left[s] /\ pc'[s] # "collectionRemove"
    BY <1>12, ListLeftAlone, NoTurnLeft
  <2>2. pc[s] \in {"new", "done", "lost", "list", "collection",
                   "collectionRemove"}
    BY <1>2, StageNames DEF Inv, StagesOK, Unwritten, PreHooks
  <2>3. wrote'[s] = wrote[s]
    BY <1>12, <2>2
    DEF Arrive, Serve, RunPreHooks, RunPostHooks, PreHooks, PostHooks, Insert,
        Get, UpdateFirst, Save, DeleteFirst, Remove, CollectionEnd, history
  <2>4. QED BY <1>6, <2>1, <2>3
<1>13. QED
  BY <1>1, <1>7, <1>8, <1>9, <1>10, <1>11, <1>12, Locality

-----------------------------------------------------------------------------
(***************************************************************************)
(* The sweep of a collection delete.                                       *)
(***************************************************************************)

\* ORDER BY id LIMIT 1 finds a row wherever there is one.
LEMMA FirstExists ==
  ASSUME NEW ids \in SUBSET Nat, ids # {}
  PROVE  First(ids) # {}
<1> DEFINE Less == {p \in Nat \X Nat : p[1] < p[2]}
<1>1. IsWellFoundedOn(Less, Nat) BY NatLessThanWellFounded DEF OpToRel
<1>2. \E x \in ids : \A y \in ids : ~ (<<y, x>> \in Less)
  BY <1>1, WFMin
<1>3. PICK x \in ids : \A y \in ids : ~ (y < x) BY <1>2
<1>4. QED BY <1>3 DEF First

\* While no update writes, a deleted row stays deleted, a row keeps its place,
\* and new rows get larger ids.
LEMMA NoReturn ==
  ASSUME Inv, [Next]_vars,
         \A u \in Reqs : req[u].verb = "update" => wrote'[u] = {}
  PROVE  /\ \A i \in DOMAIN table : table[i].deleted => table'[i].deleted
         /\ \A i \in DOMAIN table' : \A j \in DOMAIN table :
              i \notin DOMAIN table => j < i
<1>1. TypeOK /\ DOMAIN table = 1..Len(table) /\ Len(table) \in Nat
  BY DEF Inv, TypeOK
<1>2. CASE UNCHANGED <<table, wrote>> BY <1>2
<1>3. ASSUME NEW r \in Reqs, Inserts(r)
      PROVE  /\ \A i \in DOMAIN table : table[i].deleted => table'[i].deleted
             /\ \A i \in DOMAIN table' : \A j \in DOMAIN table :
                  i \notin DOMAIN table => j < i
  <2>1. /\ DOMAIN table' = DOMAIN table \cup {Len(table) + 1}
        /\ \A i \in DOMAIN table : table'[i] = table[i]
    BY <1>3, InvSays, InsertedRow
  <2>2. QED BY <1>1, <2>1
<1>4. ASSUME NEW r \in Reqs, Saves(r) PROVE FALSE
  <2>1. req[r].verb = "update" BY <1>4, InvSays, WriterVerbs
  <2>2. record[r].id \in wrote'[r] BY <1>1, <1>4, WroteIs
  <2>3. QED BY <2>1, <2>2
<1>5. ASSUME NEW r \in Reqs, Removes(r)
      PROVE  /\ \A i \in DOMAIN table : table[i].deleted => table'[i].deleted
             /\ DOMAIN table' = DOMAIN table
  BY <1>5, InvSays, RemovedRow
<1>6. QED BY <1>2, <1>3, <1>4, <1>5, Writes

\* What SweepOK says of one request: of the rows its condition can find, and
\* of its turns.
FindsOwn(s) ==
  \A j \in OfResource(table, req[s].gvr) :
    \/ \E row \in items[s] : row.id = j
    \/ \A row \in items[s] : row.id < j
TurnsEnough(s) ==
  \A name \in Strings :
    Cardinality(LiveItems(s, name)) <= Cardinality(LeftItems(s, name))

\* Items and turns are finitely many.
LEMMA FiniteItems ==
  ASSUME ItemsOK, NEW s \in Reqs, NEW name
  PROVE  IsFiniteSet(LiveItems(s, name)) /\ IsFiniteSet(LeftItems(s, name))
<1>1. IsFiniteSet(items[s]) BY DEF ItemsOK
<1>2. LiveItems(s, name) \subseteq items[s] BY DEF LiveItems
<1>3. LeftItems(s, name) \subseteq items[s] BY DEF LeftItems, ItemsOK
<1>4. QED BY <1>1, <1>2, <1>3, FS_Subset

\* A list without a limit reads all live rows of the resource.
LEMMA SweepStarts ==
  ASSUME Inv, NEW s \in Reqs, List(s), pc'[s] = "collection",
         Limit(req[s]) = 0, req' = req
  PROVE  FindsOwn(s)' /\ TurnsEnough(s)'
<1>1. TypeOK /\ table' = table BY DEF Inv, List
<1>2. PICK page \in Pages(OfResource(table, req[s].gvr), Limit(req[s])) :
        items'[s] = Listed(page) /\ left'[s] = Listed(page)
  BY <1>1, ListOutcome
<1>3. page = OfResource(table, req[s].gvr) BY <1>2 DEF Pages
<1>4. /\ IsFiniteSet(Listed(page))
      /\ \A i \in page : \E row \in Listed(page) : row.id = i
  BY ListedRows
<1>5. FindsOwn(s)' BY <1>1, <1>2, <1>3, <1>4 DEF FindsOwn
<1>6. ASSUME NEW name
      PROVE  Cardinality(LiveItems(s, name)') <= Cardinality(LeftItems(s, name)')
  <2>1. LeftItems(s, name)' = {row \in Listed(page) : row.name = name}
    BY <1>2 DEF LeftItems
  <2>2. LiveItems(s, name)' \subseteq LeftItems(s, name)'
    BY <1>2, <2>1 DEF LiveItems
  <2>3. IsFiniteSet(LeftItems(s, name)') BY <1>4, <2>1, FS_Subset
  <2>4. QED BY <2>2, <2>3, FS_Subset
<1>7. QED BY <1>5, <1>6 DEF TurnsEnough

\* A turn uses up an item and protects a live item of its name, the one that
\* comes first, if there is any left.
LEMMA SweepTurns ==
  ASSUME Inv, ItemsOK, NEW s \in Reqs, CollectionFirst(s), Faults = {},
         \A row \in items[s] : row.raw.name = row.name,
         FindsOwn(s), TurnsEnough(s)
  PROVE  TurnsEnough(s)'
<1>1. TypeOK /\ table' = table BY DEF Inv, CollectionFirst
<1>2. PICK item \in left[s] :
        LET found == First(Addressed(table, req[s].gvr, item.raw.name)) IN
        /\ left'[s] = left[s] \ {item}
        /\ items' = items /\ pc[s] = "collection"
        /\ \/ /\ pc'[s] = "collectionRemove"
              /\ \E i \in found : record'[s] = table[i]
           \/ /\ pc'[s] = "collection"
              /\ found = {} \/ LookupRefused
  BY <1>1, TurnOutcome
<1> DEFINE ids == Addressed(table, req[s].gvr, item.name)
<1>3. item \in items[s] /\ item.raw.name = item.name BY DEF ItemsOK
<1>4. \A row \in items[s] :
        /\ row.id \in DOMAIN table /\ table[row.id].gvr = req[s].gvr
        /\ table[row.id].name = row.name
  BY DEF ItemsOK, SameIdentity
<1>5. \A row \in LiveItems(s, item.name) : row.id \in ids
  BY <1>4 DEF LiveItems, Addressed, OfResource, Live
<1>6. SUFFICES ASSUME NEW name \in Strings
      PROVE Cardinality(LiveItems(s, name)') <= Cardinality(LeftItems(s, name)')
  BY DEF TurnsEnough
<1>7. /\ Cardinality(LiveItems(s, name)) <= Cardinality(LeftItems(s, name))
      /\ IsFiniteSet(LiveItems(s, name)) /\ IsFiniteSet(LeftItems(s, name))
      /\ Cardinality(LiveItems(s, name)) \in Nat
      /\ Cardinality(LeftItems(s, name)) \in Nat
  BY FiniteItems, FS_CardinalityType DEF TurnsEnough
<1>8. LeftItems(s, name)' = IF name = item.name
                            THEN LeftItems(s, name) \ {item}
                            ELSE LeftItems(s, name)
  BY <1>2 DEF LeftItems
<1>9. LiveItems(s, name)' \subseteq LiveItems(s, name)
  BY <1>1, <1>2 DEF LiveItems
<1>10. CASE name # item.name
  <2>1. Cardinality(LiveItems(s, name)') <= Cardinality(LiveItems(s, name))
    BY <1>7, <1>9, FS_Subset
  <2>2. IsFiniteSet(LiveItems(s, name)') BY <1>7, <1>9, FS_Subset
  <2>3. Cardinality(LiveItems(s, name)') \in Nat
    BY <2>2, FS_CardinalityType
  <2>4. QED BY <1>7, <1>8, <1>10, <2>1, <2>3
<1>11. CASE name = item.name
  <2>1. item \in LeftItems(s, name) BY <1>11 DEF LeftItems
  <2>2. Cardinality(LeftItems(s, name)') = Cardinality(LeftItems(s, name)) - 1
    BY <1>7, <1>8, <1>11, <2>1, FS_RemoveElement
  <2>3. Cardinality(LeftItems(s, name)) # 0 BY <1>7, <2>1, FS_EmptySet
  <2>4. LiveItems(s, name)' = {}
        => Cardinality(LiveItems(s, name)') <= Cardinality(LeftItems(s, name)')
    BY <1>7, <2>2, <2>3, FS_EmptySet
  <2>5. CASE First(ids) = {}
    <3>1. ids \in SUBSET Nat
      BY <1>1 DEF TypeOK, Addressed, OfResource, Live
    <3>2. ids = {} BY <2>5, <3>1, FirstExists
    <3>3. LiveItems(s, name) = {} BY <1>5, <1>11, <3>2
    <3>4. QED BY <1>9, <2>4, <3>3
  <2>6. CASE First(ids) # {}
    <3>1. PICK i \in First(ids) : pc'[s] = "collectionRemove"
                                  /\ record'[s] = table[i]
      BY <1>2, <1>3, <2>6 DEF LookupRefused, ConditionParses
    <3>2. /\ i \in ids /\ i \in DOMAIN table /\ table[i].name = item.name
          /\ i \in OfResource(table, req[s].gvr) /\ ~ table[i].deleted
          /\ \A j \in ids : i <= j
      BY <3>1 DEF First, Addressed, OfResource, Live
    <3>3. table[i].id = i /\ i \in Nat
      BY <1>1, <3>2 DEF Inv, StoreConsistent, Consistent, IdsAreIndices, TypeOK
    <3>4. CASE \E row \in items[s] : row.id = i
      <4>1. PICK row \in items[s] : row.id = i BY <3>4
      <4>2. row \in LiveItems(s, name)
        BY <1>2, <1>4, <1>11, <3>2, <4>1 DEF LiveItems
      <4>3. LiveItems(s, name)' \subseteq LiveItems(s, name) \ {row}
        BY <1>9, <3>1, <3>3, <4>1 DEF LiveItems
      <4>4. /\ IsFiniteSet(LiveItems(s, name) \ {row})
            /\ Cardinality(LiveItems(s, name) \ {row})
                 = Cardinality(LiveItems(s, name)) - 1
        BY <1>7, <4>2, FS_RemoveElement
      <4>5. /\ IsFiniteSet(LiveItems(s, name)')
            /\ Cardinality(LiveItems(s, name)')
                 <= Cardinality(LiveItems(s, name) \ {row})
        BY <4>3, <4>4, FS_Subset
      <4>6. Cardinality(LiveItems(s, name)') \in Nat
        BY <4>5, FS_CardinalityType
      <4>7. QED BY <1>7, <2>2, <4>4, <4>5, <4>6
    <3>5. CASE ~ \E row \in items[s] : row.id = i
      <4>1. \A row \in items[s] : row.id < i BY <3>2, <3>5 DEF FindsOwn
      <4>2. \A row \in LiveItems(s, name) :
              row \in items[s] /\ i <= row.id /\ row.id \in Nat
        BY <1>1, <1>4, <1>5, <1>11, <3>2 DEF LiveItems, TypeOK
      <4>3. LiveItems(s, name) = {} BY <3>3, <4>1, <4>2
      <4>4. QED BY <1>9, <2>4, <4>3
    <3>6. QED BY <3>4, <3>5
  <2>7. QED BY <2>5, <2>6
<1>12. QED BY <1>10, <1>11

\* Whoever else acts, a row that the condition of a sweep can find is one of
\* its items or newer than all of them.
LEMMA FindsOwnKept ==
  ASSUME Inv, ItemsOK, [Next]_vars, NEW s \in Reqs, FindsOwn(s),
         items'[s] = items[s],
         \A u \in Reqs : req[u].verb = "update" => wrote'[u] = {}
  PROVE  FindsOwn(s)'
<1>1. req' = req BY RequestKept
<1>2. \A row \in items[s] : row.id \in DOMAIN table BY DEF ItemsOK
<1>3. SUFFICES ASSUME NEW j \in DOMAIN table',
                      ~ table'[j].deleted, table'[j].gvr = req[s].gvr
               PROVE  \/ \E row \in items[s] : row.id = j
                      \/ \A row \in items[s] : row.id < j
  BY <1>1 DEF FindsOwn, OfResource, Live
<1>4. CASE j \in DOMAIN table
  <2>1. table[j].gvr = table'[j].gvr
    BY <1>4, TableKept DEF IdentityStep, SameIdentity
  <2>2. ~ table[j].deleted BY <1>3, <1>4, NoReturn
  <2>3. j \in OfResource(table, req[s].gvr)
    BY <1>3, <1>4, <2>1, <2>2 DEF OfResource, Live
  <2>4. QED BY <2>3 DEF FindsOwn
<1>5. CASE j \notin DOMAIN table BY <1>2, <1>3, <1>5, NoReturn
<1>6. QED BY <1>4, <1>5

\* Outside its turns a sweep has no more live items than before.
LEMMA SweepRests ==
  ASSUME Inv, ItemsOK, [Next]_vars, NEW s \in Reqs, TurnsEnough(s),
         items'[s] = items[s], left'[s] = left[s],
         \A u \in Reqs : req[u].verb = "update" => wrote'[u] = {},
         pc[s] = "collectionRemove" =>
           \/ pc'[s] = "collectionRemove" /\ record'[s] = record[s]
           \/ table'[record[s].id].deleted
  PROVE  TurnsEnough(s)'
<1>1. SUFFICES ASSUME NEW name \in Strings
      PROVE Cardinality(LiveItems(s, name)') <= Cardinality(LeftItems(s, name)')
  BY DEF TurnsEnough
<1>2. \A row \in items[s] : row.id \in DOMAIN table BY DEF ItemsOK
<1>3. \A i \in DOMAIN table : table[i].deleted => table'[i].deleted
  BY NoReturn
<1>4. LiveItems(s, name)' \subseteq LiveItems(s, name)
  BY <1>2, <1>3 DEF LiveItems
<1>5. LeftItems(s, name)' = LeftItems(s, name) BY DEF LeftItems
<1>6. /\ IsFiniteSet(LiveItems(s, name)) /\ IsFiniteSet(LeftItems(s, name))
      /\ Cardinality(LiveItems(s, name)) <= Cardinality(LeftItems(s, name))
  BY FiniteItems DEF TurnsEnough
<1>7. /\ IsFiniteSet(LiveItems(s, name)')
      /\ Cardinality(LiveItems(s, name)') <= Cardinality(LiveItems(s, name))
  BY <1>4, <1>6, FS_Subset
<1>8. /\ Cardinality(LiveItems(s, name)') \in Nat
      /\ Cardinality(LiveItems(s, name)) \in Nat
      /\ Cardinality(LeftItems(s, name)) \in Nat
  BY <1>6, <1>7, FS_CardinalityType
<1>9. QED BY <1>5, <1>6, <1>7, <1>8

LEMMA SweepKept ==
  ASSUME Inv, ItemsOK, SweepOK, [Next]_vars PROVE SweepOK'
<1>1. req' = req /\ TypeOK BY RequestKept DEF Inv
<1>2. SUFFICES ASSUME NEW s \in Reqs, Sweeping(s)'
               PROVE  FindsOwn(s)' /\ TurnsEnough(s)'
  BY DEF SweepOK, FindsOwn, TurnsEnough
<1>3. /\ req[s].verb = "deletecollection" /\ Limit(req[s]) = 0
      /\ pc'[s] \in {"collection", "collectionRemove"} \/ status'[s] = 200
      /\ Faults = {}
      /\ \A u \in Reqs : req[u].verb = "update" => wrote'[u] = {}
      /\ \A row \in items'[s] : row.raw.name = row.name
  BY <1>1, <1>2 DEF Sweeping
<1>4. /\ pc[s] \in {"new", "done", "lost", "list", "collection",
                    "collectionRemove"}
      /\ pc[s] # "done" => status[s] = 0
  BY <1>3, StageNames DEF Inv, StagesOK
<1>5. /\ pc \in [Reqs -> PC] /\ status \in [Reqs -> Codes]
      /\ req[s] \in Request
  BY <1>1 DEF TypeOK, Codes
<1>6. ASSUME items'[s] = items[s],
             pc[s] \in {"collection", "collectionRemove"} \/ status[s] = 200
      PROVE  FindsOwn(s) /\ FindsOwn(s)' /\ TurnsEnough(s)
  <2>1. \A u \in Reqs : req[u].verb = "update" => wrote[u] = {}
    BY <1>1, <1>3, WroteGrows
  <2>2. Sweeping(s) BY <1>3, <1>6, <2>1 DEF Sweeping
  <2>3. FindsOwn(s) /\ TurnsEnough(s)
    BY <2>2 DEF SweepOK, FindsOwn, TurnsEnough
  <2>4. QED BY <1>3, <1>6, <2>3, FindsOwnKept
<1>7. CASE Untouched(s)
  <2>1. /\ pc'[s] = pc[s] /\ status'[s] = status[s] /\ items'[s] = items[s]
        /\ left'[s] = left[s] /\ record'[s] = record[s]
    BY <1>7 DEF Untouched, Kept
  <2>2. QED BY <1>3, <1>6, <2>1, SweepRests
<1>8. CASE Lost(s)
  <2>1. pc'[s] = "lost" /\ status'[s] = 0
    BY <1>4, <1>8 DEF Lost, Kept, InFlight
  <2>2. ~ (pc'[s] \in {"collection", "collectionRemove"} \/ status'[s] = 200)
    BY <2>1
  <2>3. QED BY <1>3, <2>2, Zenon
<1>9. CASE Arrive(s)
  <2>1. pc[s] = "new" /\ status[s] = 0 BY <1>4, <1>9 DEF Arrive
  <2>2. EntryPoint(req[s]) = "list" BY <1>3 DEF EntryPoint
  <2>3. pc'[s] \in {"list", "done"} /\ status'[s] \in {0, 400}
    BY <1>5, <1>9, <2>1, <2>2 DEF Arrive, Goto, Reply
  <2>4. ~ (pc'[s] \in {"collection", "collectionRemove"} \/ status'[s] = 200)
    BY <2>3
  <2>5. QED BY <1>3, <2>4, Zenon
<1>10. CASE List(s)
  <2>1. CASE pc'[s] = "done" /\ status'[s] = 500
    <3>1. ~ (pc'[s] \in {"collection", "collectionRemove"} \/ status'[s] = 200)
      BY <2>1
    <3>2. QED BY <1>3, <3>1, Zenon
  <2>2. CASE pc'[s] = "collection" BY <1>1, <1>3, <1>10, <2>2, SweepStarts
  <2>3. QED BY <1>1, <1>3, <1>10, <2>1, <2>2, ListOutcome
<1>11. CASE CollectionFirst(s)
  <2>1. pc[s] = "collection" /\ items'[s] = items[s]
    BY <1>11 DEF CollectionFirst
  <2>2. QED BY <1>3, <1>6, <1>11, <2>1, SweepTurns
<1>12. CASE CollectionRemove(s)
  <2>1. pc[s] = "collectionRemove" /\ items' = items /\ left' = left
    BY <1>12 DEF CollectionRemove, handler
  <2>2. Removes(s) BY <1>3, <1>12 DEF CollectionRemove, Removes
  <2>3. table'[record[s].id].deleted BY <2>2, InvSays, RemovedRow
  <2>4. QED BY <1>3, <1>6, <2>1, <2>3, SweepRests
<1>13. CASE CollectionEnd(s)
  <2>1. pc[s] = "collection" /\ items' = items /\ left' = left
    BY <1>13 DEF CollectionEnd, handler
  <2>2. QED BY <1>3, <1>6, <2>1, SweepRests
<1>14. CASE ~ List(s) /\ ~ CollectionFirst(s) /\ ~ CollectionRemove(s)
            /\ ~ CollectionEnd(s) /\ Serve(s)
  BY <1>4, <1>14
  DEF Serve, RunPreHooks, RunPostHooks, PreHooks, PostHooks, Insert, Get,
      UpdateFirst, Save, DeleteFirst, Remove
<1>15. QED
  BY <1>1, <1>7, <1>8, <1>9, <1>10, <1>11, <1>12, <1>13, <1>14, Locality

-----------------------------------------------------------------------------
(***************************************************************************)
(* The theorems.                                                           *)
(***************************************************************************)
LEMMA InitAck == ASSUME Init PROVE AckInv
<1>1. Inv BY InitInv
<1>2. \A r \in Reqs : /\ pc[r] = "new" /\ status[r] = 0
                      /\ wrote[r] = {} /\ items[r] = {} /\ left[r] = {}
  BY DEF Init
<1>3. IsFiniteSet({}) /\ Cardinality({}) = 0 BY FS_EmptySet
<1>4. Performed
  <2>1. \A r \in Reqs :
          ~ \/ pc[r] \in {"postCreate", "postUpdate", "postDelete"}
            \/ status[r] \in {200, 201}
    BY <1>2
  <2>2. QED BY <2>1, Zenon DEF Performed
<1>5. WritesHold /\ RemovalsHold BY <1>2 DEF WritesHold, RemovalsHold
<1>6. ItemsOK BY <1>2, <1>3 DEF ItemsOK
<1>7. SweepOK
  <2>1. \A r \in Reqs :
          ~ (pc[r] \in {"collection", "collectionRemove"} \/ status[r] = 200)
    BY <1>2
  <2>2. QED BY <2>1, Zenon DEF SweepOK, Sweeping
<1>8. TurnsOK
  <2>1. SUFFICES ASSUME NEW r \in Reqs, req[r].limit \in 1..(Modulus \div 2 - 1)
        PROVE  /\ IsFiniteSet(wrote[r])
               /\ Cardinality(wrote[r]) + Cardinality(left[r]) <= req[r].limit
    BY <1>2 DEF TurnsOK
  <2>2. req[r] \in Request BY <1>1 DEF Inv, TypeOK
  <2>3. req[r].limit \in Nat BY <2>2 DEF Request
  <2>4. wrote[r] = {} /\ left[r] = {} BY <1>2
  <2>5. /\ IsFiniteSet(wrote[r])
        /\ Cardinality(wrote[r]) = 0 /\ Cardinality(left[r]) = 0
    BY <1>3, <2>4
  <2>6. QED BY <2>3, <2>5
<1>9. QED BY <1>1, <1>4, <1>5, <1>6, <1>7, <1>8 DEF AckInv

LEMMA NextAck == ASSUME AckInv, [Next]_vars PROVE AckInv'
<1>1. /\ Inv /\ Performed /\ WritesHold /\ RemovalsHold
      /\ ItemsOK /\ SweepOK /\ TurnsOK
  BY DEF AckInv
<1>2. Inv' BY <1>1, NextInv
<1>3. QED
  BY <1>1, <1>2, PerformedKept, WritesHoldKept, RemovalsHoldKept, ItemsKept,
     SweepKept, TurnsKept DEF AckInv

\* The extended invariant is established by Init and kept by every step.
THEOREM AckInvariance == Spec => []AckInv
<1>1. Init => AckInv BY InitAck
<1>2. AckInv /\ [Next]_vars => AckInv' BY NextAck
<1>3. QED BY <1>1, <1>2, PTL DEF Spec

\* What a create or an update was acknowledged for is in the table until
\* another update writes over it.
THEOREM AckedWritesLast == Spec => []AckedWritesPersist
<1>1. AckInv => AckedWritesPersist
  <2>1. SUFFICES ASSUME AckInv, NEW r \in Reqs,
                        req[r].verb \in {"create", "update"},
                        status[r] \in {200, 201}
        PROVE \E i \in wrote[r] :
                LET obj == Submitted(req[r]) IN
                /\ table[i].gvr = req[r].gvr
                /\ IF req[r].verb = "create"
                   THEN /\ table[i].name = obj.name
                        /\ table[i].namespace = obj.namespace
                        /\ table[i].uid = obj.uid
                   ELSE table[i].name = req[r].name
                /\ table[i].raw = obj \/ Overwritten(r, i)
    BY DEF AckedWritesPersist, Overwritten
  <2>2. PICK i : i \in wrote[r] BY <2>1 DEF AckInv, Performed
  <2>3. /\ table[i].gvr = req[r].gvr
        /\ req[r].verb \in {"update", "delete"} => table[i].name = req[r].name
    BY <2>1, <2>2 DEF AckInv, Inv, WritesAddressed
  <2>4. /\ req[r].verb = "create" =>
             /\ table[i].name = Submitted(req[r]).name
             /\ table[i].namespace = Submitted(req[r]).namespace
             /\ table[i].uid = Submitted(req[r]).uid
        /\ table[i].raw = Submitted(req[r]) \/ Overwritten(r, i)
    BY <2>1, <2>2 DEF AckInv, WritesHold
  <2>5. QED BY <2>1, <2>2, <2>3, <2>4
<1>2. QED BY <1>1, AckInvariance, PTL

\* What a delete was acknowledged for is gone until an update writes it back,
\* and an undisturbed collection delete leaves nothing of what it listed.
THEOREM AckedRemovalsLast == Spec => []AckedRemovalsHold
<1>1. ASSUME AckInv, NEW r \in Reqs, status[r] = 200, req[r].verb = "delete"
      PROVE  \E i \in wrote[r] :
               \/ table[i].deleted
               \/ \E u \in Reqs : req[u].verb = "update" /\ i \in wrote[u]
  <2>1. PICK i : i \in wrote[r] BY <1>1 DEF AckInv, Performed
  <2>2. table[i].deleted \/ Overwritten(r, i)
    BY <1>1, <2>1 DEF AckInv, RemovalsHold
  <2>3. QED BY <2>1, <2>2 DEF Overwritten
<1>2. ASSUME AckInv, NEW r \in Reqs, status[r] = 200,
             req[r].verb = "deletecollection",
             Limit(req[r]) = 0, Faults = {},
             \A u \in Reqs : req[u].verb = "update" => wrote[u] = {},
             \A row \in items[r] : row.raw.name = row.name,
             NEW row \in items[r], ~ table[row.id].deleted
      PROVE  FALSE
  <2>1. Sweeping(r) BY <1>2 DEF Sweeping
  <2>2. pc[r] = "done" /\ left[r] = {}
    BY <1>2 DEF AckInv, Inv, StagesOK, Unwritten, PreHooks, ItemsOK
  <2>3. row.name \in Strings
    <3>1. row \in Row BY <1>2 DEF AckInv, Inv, TypeOK
    <3>2. QED BY <3>1 DEF Row
  <2>4. Cardinality(LiveItems(r, row.name)) <= Cardinality(LeftItems(r, row.name))
    BY <1>2, <2>1, <2>3 DEF AckInv, SweepOK
  <2>5. LeftItems(r, row.name) = {} BY <2>2 DEF LeftItems
  <2>6. IsFiniteSet(LiveItems(r, row.name)) BY <1>2, FiniteItems DEF AckInv
  <2>7. LiveItems(r, row.name) = {}
    BY <2>4, <2>5, <2>6, FS_EmptySet, FS_CardinalityType
  <2>8. row \in LiveItems(r, row.name) BY <1>2, <2>2 DEF LiveItems
  <2>9. QED BY <2>7, <2>8
<1>3. AckInv => AckedRemovalsHold BY <1>1, <1>2 DEF AckedRemovalsHold
<1>4. QED BY <1>3, AckInvariance, PTL

\* A collection delete never writes more rows than its limit.
THEOREM LimitsHonoured == Spec => []LimitHonoured
<1>1. ASSUME AckInv, NEW r \in Reqs, req[r].verb = "deletecollection",
             req[r].limit \in 1..(Modulus \div 2 - 1)
      PROVE  Cardinality(wrote[r]) <= req[r].limit
  <2>1. /\ IsFiniteSet(wrote[r]) /\ IsFiniteSet(left[r])
        /\ Cardinality(wrote[r]) + Cardinality(left[r]) <= req[r].limit
    BY <1>1, FS_Subset, FS_CardinalityType DEF AckInv, TurnsOK, ItemsOK
  <2>2. Cardinality(wrote[r]) \in Nat /\ Cardinality(left[r]) \in Nat
    BY <2>1, FS_CardinalityType
  <2>3. req[r] \in Request BY <1>1 DEF AckInv, Inv, TypeOK
  <2>4. req[r].limit \in Nat BY <2>3 DEF Request
  <2>5. QED BY <2>1, <2>2, <2>4
<1>2. AckInv => LimitHonoured BY <1>1 DEF LimitHonoured
<1>3. QED BY <1>2, AckInvariance, PTL

=============================================================================

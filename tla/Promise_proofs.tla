--------------------------- MODULE Promise_proofs ---------------------------
(***************************************************************************)
(* ResourceServer implements RowStore: the handlers, which look a row up   *)
(* by one statement and write it by another, behave as if every request    *)
(* acted atomically, only on what it addresses and only while it is open.  *)
(***************************************************************************)
EXTENDS Acknowledged_proofs, SequenceTheorems

-----------------------------------------------------------------------------
(***************************************************************************)
(* The refinement mapping.                                                 *)
(***************************************************************************)
AbstractRows ==
  [gvr: Strings, namespace: Strings, name: Strings, uid: Strings, raw: Object,
   live: BOOLEAN]

\* The abstraction of a row, field by field.
LEMMA AbstractFields ==
  ASSUME NEW row \in Row
  PROVE  /\ AbstractRow(row) \in AbstractRows
         /\ AbstractRow(row).gvr = row.gvr
         /\ AbstractRow(row).namespace = row.namespace
         /\ AbstractRow(row).name = row.name
         /\ AbstractRow(row).uid = row.uid
         /\ AbstractRow(row).raw = row.raw
         /\ row.deleted => AbstractRow(row).live = FALSE
         /\ ~ row.deleted => AbstractRow(row).live = TRUE
<1> DEFINE live == ~ row.deleted
<1>1. /\ live \in BOOLEAN
      /\ row.deleted => live = FALSE
      /\ ~ row.deleted => live = TRUE
  OBVIOUS
<1>2. AbstractRow(row)
        = [gvr |-> row.gvr, namespace |-> row.namespace, name |-> row.name,
           uid |-> row.uid, raw |-> row.raw, live |-> live]
  BY DEF AbstractRow
<1> HIDE DEF live
<1>3. QED BY <1>1, <1>2 DEF AbstractRows, Row

\* Two abstract rows with the same fields are the same.
LEMMA SameFields ==
  ASSUME NEW a \in AbstractRows, NEW b \in AbstractRows,
         a.gvr = b.gvr, a.namespace = b.namespace, a.name = b.name,
         a.uid = b.uid, a.raw = b.raw, a.live = b.live
  PROVE  a = b
BY DEF AbstractRows

\* The abstraction of a table is a sequence of as many rows.
LEMMA AbstractSeq ==
  ASSUME NEW t \in Seq(Row)
  PROVE  /\ AbstractTable(t) \in Seq(AbstractRows)
         /\ Len(AbstractTable(t)) = Len(t)
         /\ DOMAIN AbstractTable(t) = DOMAIN t
         /\ \A i \in DOMAIN t : AbstractTable(t)[i] = AbstractRow(t[i])
<1>1. Len(t) \in Nat /\ DOMAIN t = 1..Len(t) OBVIOUS
<1>2. \A i \in DOMAIN t : AbstractRow(t[i]) \in AbstractRows
  <2>1. \A i \in DOMAIN t : t[i] \in Row OBVIOUS
  <2>2. QED BY <2>1, AbstractFields
<1>3. AbstractTable(t) \in [1..Len(t) -> AbstractRows]
  BY <1>1, <1>2 DEF AbstractTable
<1>4. AbstractTable(t) \in Seq(AbstractRows) BY <1>1, <1>3, SeqDef
<1>5. DOMAIN AbstractTable(t) = 1..Len(t) BY <1>3
<1>6. Len(AbstractTable(t)) = Len(t) BY <1>1, <1>4, <1>5, LenProperties
<1>7. QED BY <1>1, <1>4, <1>5, <1>6 DEF AbstractTable

\* What identifies a row is not abstracted from.
LEMMA AbstractIdentity ==
  ASSUME NEW t \in Seq(Row), NEW i \in DOMAIN t
  PROVE  /\ AbstractTable(t)[i].gvr = t[i].gvr
         /\ AbstractTable(t)[i].name = t[i].name
         /\ AbstractTable(t)[i].uid = t[i].uid
<1>1. t[i] \in Row OBVIOUS
<1>2. AbstractTable(t)[i] = AbstractRow(t[i]) BY AbstractSeq
<1>3. QED BY <1>1, <1>2, AbstractFields

\* Two sequences of abstract rows that agree everywhere are equal.
LEMMA SameAbstract ==
  ASSUME NEW s \in Seq(AbstractRows), NEW t \in Seq(AbstractRows),
         DOMAIN s = DOMAIN t, \A i \in DOMAIN s : s[i] = t[i]
  PROVE  s = t
<1>1. Len(s) = Len(t) /\ DOMAIN s = 1..Len(s)
  BY LenProperties
<1>2. QED BY <1>1, SeqEqual

\* Inserting a row appends its abstraction.
LEMMA AbstractInserted ==
  ASSUME NEW t \in Seq(Row), NEW row \in Row
  PROVE  AbstractTable(Inserted(t, row))
           = Append(AbstractTable(t), AbstractRow(row))
<1> DEFINE new == Inserted(t, row)
<1> DEFINE more == Append(AbstractTable(t), AbstractRow(row))
<1>1. /\ new \in Seq(Row) /\ DOMAIN new = DOMAIN t \cup {Len(t) + 1}
      /\ \A i \in DOMAIN t : new[i] = t[i]
      /\ new[Len(t) + 1] = [row EXCEPT !.id = Len(t) + 1]
  BY InsertedType
<1>2. AbstractRow(new[Len(t) + 1]) = AbstractRow(row)
  <2>1. [row EXCEPT !.id = Len(t) + 1] \in Row BY DEF Row
  <2>2. QED BY <1>1, <2>1 DEF AbstractRow, Row
<1>3. AbstractRow(row) \in AbstractRows BY AbstractFields
<1>4. /\ AbstractTable(t) \in Seq(AbstractRows)
      /\ Len(AbstractTable(t)) = Len(t) /\ DOMAIN AbstractTable(t) = DOMAIN t
      /\ \A i \in DOMAIN t : AbstractTable(t)[i] = AbstractRow(t[i])
  BY AbstractSeq
<1>5. /\ AbstractTable(new) \in Seq(AbstractRows)
      /\ DOMAIN AbstractTable(new) = DOMAIN new
      /\ \A i \in DOMAIN new : AbstractTable(new)[i] = AbstractRow(new[i])
  BY <1>1, AbstractSeq
<1>6. /\ more \in Seq(AbstractRows)
      /\ DOMAIN more = DOMAIN t \cup {Len(t) + 1}
      /\ more[Len(t) + 1] = AbstractRow(row)
      /\ \A i \in DOMAIN t : more[i] = AbstractTable(t)[i]
  BY <1>3, <1>4
<1> HIDE DEF new, more
<1>7. \A i \in DOMAIN more : AbstractTable(new)[i] = more[i]
  BY <1>1, <1>2, <1>4, <1>5, <1>6
<1>8. AbstractTable(new) = more BY <1>1, <1>5, <1>6, <1>7, SameAbstract
<1>9. QED BY <1>8 DEF new, more

\* Saving a record that has the identity of its row and is not deleted
\* replaces the object of that row and makes it live.
LEMMA AbstractSaved ==
  ASSUME NEW t \in Seq(Row), NEW row \in Row, row.id \in DOMAIN t,
         SameIdentity(row, t[row.id]), ~ row.deleted
  PROVE  AbstractTable(Saved(t, row))
           = [AbstractTable(t) EXCEPT ![row.id].raw = row.raw,
                                      ![row.id].live = TRUE]
<1> DEFINE id == row.id
<1> DEFINE new == Saved(t, row)
<1> DEFINE old == AbstractTable(t)
<1>1. /\ new \in Seq(Row) /\ DOMAIN new = DOMAIN t /\ new[id] = row
      /\ \A i \in DOMAIN t : i # id => new[i] = t[i]
  BY SavedType
<1>2. t[id] \in Row OBVIOUS
<1>3. AbstractRow(row)
        = [AbstractRow(t[id]) EXCEPT !.raw = row.raw, !.live = TRUE]
  <2> DEFINE a == AbstractRow(t[id])
  <2> DEFINE b == [a EXCEPT !.raw = row.raw, !.live = TRUE]
  <2>1. /\ a \in AbstractRows /\ a.gvr = t[id].gvr /\ a.uid = t[id].uid
        /\ a.namespace = t[id].namespace /\ a.name = t[id].name
    BY <1>2, AbstractFields
  <2>2. row.raw \in Object BY DEF Row
  <2> HIDE DEF a
  <2>3. /\ b \in AbstractRows /\ b.gvr = a.gvr /\ b.uid = a.uid
        /\ b.namespace = a.namespace /\ b.name = a.name
        /\ b.raw = row.raw /\ b.live = TRUE
    BY <2>1, <2>2 DEF AbstractRows
  <2>4. /\ AbstractRow(row) \in AbstractRows
        /\ AbstractRow(row).gvr = row.gvr /\ AbstractRow(row).uid = row.uid
        /\ AbstractRow(row).namespace = row.namespace
        /\ AbstractRow(row).name = row.name /\ AbstractRow(row).raw = row.raw
        /\ AbstractRow(row).live = TRUE
    BY AbstractFields
  <2> HIDE DEF b
  <2>5. AbstractRow(row) = b
    BY <2>1, <2>3, <2>4, SameFields DEF SameIdentity
  <2>6. QED BY <2>5 DEF a, b
<1>4. /\ DOMAIN old = DOMAIN t /\ old = [i \in DOMAIN t |-> AbstractRow(t[i])]
  BY DEF AbstractTable
<1>5. AbstractTable(new) = [i \in DOMAIN t |-> AbstractRow(new[i])]
  BY <1>1 DEF AbstractTable
<1> HIDE DEF new
<1>6. AbstractTable(new) = [old EXCEPT ![id] = AbstractRow(row)]
  BY <1>1, <1>4, <1>5
<1>7. [old EXCEPT ![id].raw = row.raw, ![id].live = TRUE]
        = [old EXCEPT ![id] = AbstractRow(row)]
  BY <1>3, <1>4
<1>8. QED BY <1>6, <1>7 DEF new

\* A soft delete ends the life of a row.
LEMMA AbstractSoftDeleted ==
  ASSUME NEW t \in Seq(Row), NEW id \in DOMAIN t
  PROVE  AbstractTable(SoftDeleted(t, id))
           = [AbstractTable(t) EXCEPT ![id].live = FALSE]
<1> DEFINE new == SoftDeleted(t, id)
<1> DEFINE old == AbstractTable(t)
<1>1. /\ new \in Seq(Row) /\ DOMAIN new = DOMAIN t
      /\ new[id] = [t[id] EXCEPT !.deleted = TRUE]
      /\ \A i \in DOMAIN t : i # id => new[i] = t[i]
  BY SoftDeletedType
<1>2. t[id] \in Row OBVIOUS
<1>3. AbstractRow(new[id]) = [AbstractRow(t[id]) EXCEPT !.live = FALSE]
  <2> DEFINE a == AbstractRow(t[id])
  <2> DEFINE b == [a EXCEPT !.live = FALSE]
  <2>1. /\ a \in AbstractRows /\ a.gvr = t[id].gvr /\ a.uid = t[id].uid
        /\ a.namespace = t[id].namespace /\ a.name = t[id].name
        /\ a.raw = t[id].raw
    BY <1>2, AbstractFields
  <2> HIDE DEF a
  <2>2. /\ b \in AbstractRows /\ b.gvr = a.gvr /\ b.uid = a.uid
        /\ b.namespace = a.namespace /\ b.name = a.name
        /\ b.raw = a.raw /\ b.live = FALSE
    BY <2>1 DEF AbstractRows
  <2>3. /\ new[id] \in Row /\ new[id].deleted /\ new[id].gvr = t[id].gvr
        /\ new[id].uid = t[id].uid /\ new[id].namespace = t[id].namespace
        /\ new[id].name = t[id].name /\ new[id].raw = t[id].raw
    BY <1>1, <1>2 DEF Row
  <2> HIDE DEF b, new
  <2>4. /\ AbstractRow(new[id]) \in AbstractRows
        /\ AbstractRow(new[id]).gvr = new[id].gvr
        /\ AbstractRow(new[id]).uid = new[id].uid
        /\ AbstractRow(new[id]).namespace = new[id].namespace
        /\ AbstractRow(new[id]).name = new[id].name
        /\ AbstractRow(new[id]).raw = new[id].raw
        /\ AbstractRow(new[id]).live = FALSE
    BY <2>3, AbstractFields
  <2> DEFINE c == AbstractRow(new[id])
  <2>5. /\ c \in AbstractRows /\ c.gvr = b.gvr /\ c.uid = b.uid
        /\ c.namespace = b.namespace /\ c.name = b.name
        /\ c.raw = b.raw /\ c.live = b.live
    BY <2>1, <2>2, <2>3, <2>4
  <2> HIDE DEF c
  <2>6. c = b BY <2>2, <2>5, SameFields
  <2>7. QED BY <2>6 DEF a, b, c
<1>4. old = [i \in DOMAIN t |-> AbstractRow(t[i])] BY DEF AbstractTable
<1>5. AbstractTable(new) = [i \in DOMAIN t |-> AbstractRow(new[i])]
  BY <1>1 DEF AbstractTable
<1> HIDE DEF new
<1>6. AbstractTable(new) = [old EXCEPT ![id] = AbstractRow(new[id])]
  BY <1>1, <1>4, <1>5
<1>7. QED BY <1>3, <1>4, <1>6 DEF new

-----------------------------------------------------------------------------
(***************************************************************************)
(* What a step of one request is, before any promise: it leaves the rows   *)
(* alone, or it is one write of a request that is open.                    *)
(***************************************************************************)
Phases == [r \in Reqs |-> Phase(r)]

LEMMA PhaseNames ==
  /\ \A code : PhaseOf("new", code) = "idle"
  /\ \A code \in {200, 201} : PhaseOf("done", code) = "ok"
  /\ \A code \in {0, 400, 404, 500} : PhaseOf("done", code) = "failed"
  /\ \A code : PhaseOf("lost", code) = "failed"
  /\ \A place, code : place \notin {"new", "done", "lost"}
                      => PhaseOf(place, code) = "open"
BY DEF PhaseOf

\* No other request moves.
Moves(r) ==
  \A s \in Reqs : s # r => pc'[s] = pc[s] /\ status'[s] = status[s]

LEMMA PhaseMoves ==
  ASSUME NEW r \in Reqs, Moves(r)
  PROVE  Phases' = [Phases EXCEPT ![r] = Phase(r)'] /\ Phases[r] = Phase(r)
BY DEF Moves, Phases, Phase

\* A request that leaves the rows alone opens, fails or stays where it is; it
\* succeeds if it has done what it was asked.
Lawful(r) ==
  \/ Phase(r)' = Phase(r)
  \/ Phase(r) = "idle" /\ Phase(r)' = "open"
  \/ Phase(r) \in {"idle", "open"} /\ Phase(r)' = "failed"
  \/ /\ Phase(r) = "open" /\ Phase(r)' = "ok"
     /\ req[r].verb \in {"create", "update", "delete"} => wrote[r] # {}
Quiet(r) == UNCHANGED <<table, wrote>> /\ Moves(r) /\ Lawful(r)

\* A write leaves its request open or ends it with an error.
Ends(r) == Moves(r) /\ Phase(r) = "open" /\ Phase(r)' \in {"open", "failed"}
Acts(r) == Quiet(r) \/ (Ends(r) /\ (Inserts(r) \/ Saves(r) \/ Removes(r)))

\* The ways a handler goes on.
LEMMA GoesOn ==
  ASSUME TypeOK, NEW r \in Reqs, NEW label, Goto(r, label)
  PROVE  /\ Moves(r)
         /\ label \notin {"new", "done", "lost"} => Phase(r)' = "open"
BY PhaseNames DEF TypeOK, Goto, Moves, Phase

LEMMA FailsNow ==
  ASSUME TypeOK, NEW r \in Reqs, NEW code \in {400, 404, 500}, Reply(r, code)
  PROVE  Moves(r) /\ Phase(r)' = "failed"
BY PhaseNames DEF TypeOK, Reply, Moves, Phase

LEMMA SucceedsNow ==
  ASSUME TypeOK, NEW r \in Reqs, NEW code \in {200, 201}, Reply(r, code)
  PROVE  Moves(r) /\ Phase(r)' = "ok"
BY PhaseNames DEF TypeOK, Reply, Moves, Phase

LEMMA OpenInFlight ==
  ASSUME NEW r \in Reqs
  PROVE  /\ InFlight(r) => Phase(r) = "open"
         /\ pc[r] = "new" => Phase(r) = "idle"
BY PhaseNames DEF Phase, InFlight

\* Every step of a handler is such a step.
LEMMA ServeActs ==
  ASSUME TypeOK, NEW r \in Reqs, Course(r), PerformedOf(r),
         Arrive(r) \/ Serve(r)
  PROVE  Acts(r)
<1> USE OpenInFlight DEF handler, history, Acts, Quiet, Lawful, Ends
<1>0. pc[r] \in Stages(req[r].verb) /\ req[r] \in Request
  BY DEF Course, TypeOK
<1>1. CASE Arrive(r)
  <2>1. UNCHANGED <<table, wrote>> /\ pc[r] = "new" BY <1>1 DEF Arrive
  <2>2. EntryPoint(req[r]) \notin {"new", "done", "lost"}
    BY <1>0 DEF EntryPoint, Request, Verbs
  <2>3. Reply(r, 400) \/ Goto(r, EntryPoint(req[r])) BY <1>1 DEF Arrive
  <2>4. QED BY <2>1, <2>2, <2>3, GoesOn, FailsNow
<1>2. CASE RunPreHooks(r)
  <2>1. UNCHANGED <<table, wrote>> /\ InFlight(r) /\ pc[r] \in PreHooks
    BY <1>2 DEF RunPreHooks, HookFailed, InFlight, PreHooks
  <2>2. AfterHooks(pc[r]) \notin {"new", "done", "lost"}
    BY <2>1 DEF AfterHooks, PreHooks
  <2>3. Goto(r, AfterHooks(pc[r])) \/ Reply(r, 500)
    BY <1>2 DEF RunPreHooks, HookFailed
  <2>4. QED BY <2>1, <2>2, <2>3, GoesOn, FailsNow
<1>3. CASE RunPostHooks(r)
  <2>1. UNCHANGED <<table, wrote>> /\ InFlight(r) /\ pc[r] \in PostHooks
    BY <1>3 DEF RunPostHooks, HookFailed, InFlight, PostHooks
  <2>2. req[r].verb \in {"create", "update", "delete"} =>
          pc[r] \in {"postCreate", "postUpdate", "postDelete"}
    BY <1>0, <2>1, StageNames DEF PostHooks
  <2>3. req[r].verb \in {"create", "update", "delete"} => wrote[r] # {}
    BY <2>2 DEF PerformedOf
  <2>4. Reply(r, Success(req[r])) \/ Reply(r, 500)
    BY <1>3 DEF RunPostHooks, HookFailed
  <2>5. Success(req[r]) \in {200, 201} BY DEF Success
  <2>6. QED BY <2>1, <2>3, <2>4, <2>5, SucceedsNow, FailsNow
<1>4. CASE Insert(r)
  <2>1. /\ InFlight(r)
        /\ \/ Inserts(r) /\ (Goto(r, "postCreate") \/ Reply(r, 500))
           \/ UNCHANGED <<table, wrote>> /\ Reply(r, 500)
    BY <1>4 DEF Insert, Inserts, InFlight
  <2>2. QED BY <2>1, GoesOn, FailsNow
<1>5. CASE Get(r)
  <2>1. UNCHANGED <<table, wrote>> /\ InFlight(r) BY <1>5 DEF Get, InFlight
  <2>2. Goto(r, "preDelete") \/ Goto(r, "postGet") \/ Reply(r, 404)
    BY <1>5 DEF Get
  <2>3. QED BY <2>1, <2>2, GoesOn, FailsNow
<1>6. CASE List(r)
  <2>1. UNCHANGED <<table, wrote>> /\ InFlight(r) BY <1>6 DEF List, InFlight
  <2>2. \/ Goto(r, "collection") \/ Goto(r, "postList")
        \/ (req[r].verb = "list" /\ Reply(r, 200)) \/ Reply(r, 500)
    BY <1>6, Zenon DEF List
  <2>3. QED BY <2>1, <2>2, GoesOn, FailsNow, SucceedsNow
<1>7. CASE UpdateFirst(r) \/ DeleteFirst(r)
  <2>1. UNCHANGED <<table, wrote>> /\ InFlight(r)
    BY <1>7 DEF UpdateFirst, DeleteFirst, InFlight
  <2>2. Goto(r, "save") \/ Goto(r, "remove") \/ Reply(r, 500)
    BY <1>7 DEF UpdateFirst, DeleteFirst
  <2>3. QED BY <2>1, <2>2, GoesOn, FailsNow
<1>8. CASE Save(r)
  <2>1. /\ InFlight(r)
        /\ \/ Saves(r) /\ (Goto(r, "postUpdate") \/ Reply(r, 500))
           \/ UNCHANGED <<table, wrote>> /\ Reply(r, 500)
    BY <1>8 DEF Save, Saves, InFlight
  <2>2. QED BY <2>1, GoesOn, FailsNow
<1>9. CASE Remove(r)
  <2>1. /\ InFlight(r)
        /\ \/ Removes(r) /\ (Goto(r, "postDelete") \/ Reply(r, 500))
           \/ UNCHANGED <<table, wrote>> /\ Reply(r, 500)
    BY <1>9 DEF Remove, Removes, InFlight
  <2>2. QED BY <2>1, GoesOn, FailsNow
<1>10. CASE CollectionFirst(r)
  <2>1. UNCHANGED <<table, wrote>> /\ InFlight(r)
    BY <1>10 DEF CollectionFirst, InFlight
  <2>2. Goto(r, "collectionRemove") \/ UNCHANGED <<pc, status>>
    BY <1>10 DEF CollectionFirst
  <2>3. UNCHANGED <<pc, status>> => Moves(r) /\ Phase(r)' = Phase(r)
    BY DEF Moves, Phase
  <2>4. QED BY <2>1, <2>2, <2>3, GoesOn
<1>11. CASE CollectionRemove(r)
  <2>1. /\ InFlight(r) /\ Goto(r, "collection")
        /\ Removes(r) \/ UNCHANGED <<table, wrote>>
    BY <1>11 DEF CollectionRemove, Removes, InFlight
  <2>2. QED BY <2>1, GoesOn
<1>12. CASE CollectionEnd(r)
  <2>1. UNCHANGED <<table, wrote>> /\ InFlight(r) /\ Reply(r, 200)
    BY <1>12 DEF CollectionEnd, InFlight
  <2>2. req[r].verb \notin {"create", "update", "delete"}
    BY <1>0, <1>12, StageNames DEF CollectionEnd
  <2>3. QED BY <2>1, <2>2, SucceedsNow
<1>13. QED
  BY <1>1, <1>2, <1>3, <1>4, <1>5, <1>6, <1>7, <1>8, <1>9, <1>10, <1>11,
     <1>12 DEF Serve

\* The process exits: every request it was serving fails.
LEMMA ExitFails ==
  ASSUME Exit
  PROVE  /\ UNCHANGED <<table, req, wrote>>
         /\ \E lost \in SUBSET {r \in Reqs : Phases[r] \in {"idle", "open"}} :
              Phases' = [r \in Reqs |-> IF r \in lost THEN "failed"
                                                      ELSE Phases[r]]
<1> DEFINE lost == {r \in Reqs : InFlight(r)}
<1>1. \A r \in Reqs : Phase(r)' = IF InFlight(r) THEN "failed" ELSE Phase(r)
  <2>1. \A r \in Reqs : /\ pc'[r] = IF InFlight(r) THEN "lost" ELSE pc[r]
                        /\ status'[r] = status[r]
    BY DEF Exit
  <2>2. QED BY <2>1, PhaseNames DEF Phase
<1>2. Phases' = [r \in Reqs |-> IF r \in lost THEN "failed" ELSE Phases[r]]
  BY <1>1 DEF Phases
<1>3. lost \in SUBSET {r \in Reqs : Phases[r] \in {"idle", "open"}}
  BY OpenInFlight DEF Phases
<1>4. QED BY <1>2, <1>3 DEF Exit, handler, history

-----------------------------------------------------------------------------
(***************************************************************************)
(* What the three writes do to the abstract rows.                          *)
(***************************************************************************)
Rows == AbstractTable(table)

\* A create, an update or a delete writes once; only a collection delete may
\* write again.
LEMMA WritesOnce ==
  ASSUME TypeOK, NEW r \in Reqs, Course(r)
  PROVE  /\ Inserts(r) => req[r].verb = "create" /\ wrote[r] = {}
         /\ Saves(r) => req[r].verb = "update" /\ wrote[r] = {}
         /\ Removes(r) => \/ /\ req[r].verb = "delete" /\ pc[r] = "remove"
                             /\ wrote[r] = {}
                          \/ req[r].verb = "deletecollection"
<1>1. pc[r] \in {"insert", "save", "remove"} => wrote[r] = {}
  BY DEF Course, Unwritten
<1>2. Removes(r) /\ req[r].verb = "delete" => pc[r] = "remove"
  BY StageNames DEF Course, Removes
<1>3. QED BY <1>1, <1>2, WriterVerbs DEF Inserts, Saves

\* An insert adds what the request submitted, under a uid of its own.
LEMMA InsertAdds ==
  ASSUME RowsOK, NEW r \in Reqs, Inserts(r)
  PROVE  LET obj == Submitted(req[r]) IN
         /\ \A i \in DOMAIN Rows : Rows[i].uid # obj.uid
         /\ Rows' = Append(Rows, [gvr |-> req[r].gvr,
                                  namespace |-> obj.namespace,
                                  name |-> obj.name, uid |-> obj.uid,
                                  raw |-> obj, live |-> TRUE])
         /\ Written(r, Len(Rows) + 1)
<1> DEFINE row == NewRecord(req[r])
<1> DEFINE obj == Submitted(req[r])
<1> DEFINE added == [gvr |-> req[r].gvr, namespace |-> obj.namespace,
                     name |-> obj.name, uid |-> obj.uid, raw |-> obj,
                     live |-> TRUE]
<1>1. table \in Seq(Row) /\ req[r] \in Request BY DEF RowsOK, TypeOK
<1>2. row \in Row /\ obj \in Object BY <1>1, NewRecordType, SubmittedType
<1>3. AbstractRow(row) = added
  <2>1. added \in AbstractRows
    BY <1>1, <1>2 DEF AbstractRows, Request, Object
  <2>2. /\ row.gvr = req[r].gvr /\ row.namespace = obj.namespace
        /\ row.name = obj.name /\ row.uid = obj.uid /\ row.raw = obj
        /\ ~ row.deleted
    BY DEF NewRecord
  <2> HIDE DEF row
  <2>3. QED BY <1>2, <2>1, <2>2, AbstractFields, SameFields
<1>4. Rows' = Append(Rows, added)
  BY <1>1, <1>2, <1>3, AbstractInserted DEF Inserts, Rows
<1>5. /\ Len(Rows) = Len(table) /\ DOMAIN Rows = DOMAIN table
      /\ \A i \in DOMAIN table : Rows[i].uid = table[i].uid
  BY <1>1, AbstractSeq, AbstractIdentity DEF Rows
<1>6. \A i \in DOMAIN table : table[i].uid # obj.uid
  BY DEF Inserts, UidTaken, NewRecord
<1>7. Written(r, Len(Rows) + 1) BY <1>5 DEF Inserts, Written
<1>8. QED BY <1>4, <1>5, <1>6, <1>7

\* A save replaces the object of a row the request addresses, and revives it.
LEMMA SaveReplaces ==
  ASSUME RowsOK, NEW r \in Reqs, Saves(r),
         record[r].raw = Submitted(req[r]), ~ record[r].deleted
  PROVE  \E i \in DOMAIN Rows :
           /\ Rows[i].gvr = req[r].gvr /\ Rows[i].name = req[r].name
           /\ Rows' = [Rows EXCEPT ![i].raw = Submitted(req[r]),
                                   ![i].live = TRUE]
           /\ Written(r, i)
<1> DEFINE id == record[r].id
<1>1. table \in Seq(Row) /\ record[r] \in Row BY DEF RowsOK, TypeOK
<1>2. /\ id \in DOMAIN table /\ SameIdentity(record[r], table[id])
      /\ record[r].gvr = req[r].gvr /\ record[r].name = req[r].name
  BY DEF RowsOK, HeldOK, Held, Saves
<1>3. /\ DOMAIN Rows = DOMAIN table
      /\ Rows[id].gvr = table[id].gvr /\ Rows[id].name = table[id].name
  BY <1>1, <1>2, AbstractSeq, AbstractIdentity DEF Rows
<1>4. Rows' = [Rows EXCEPT ![id].raw = record[r].raw, ![id].live = TRUE]
  BY <1>1, <1>2, AbstractSaved DEF Saves, Rows
<1>5. Rows' = [Rows EXCEPT ![id].raw = Submitted(req[r]), ![id].live = TRUE]
  BY <1>4
<1>6. Written(r, id) BY DEF Saves
<1> HIDE DEF id
<1>7. QED BY <1>2, <1>3, <1>5, <1>6 DEF SameIdentity

\* A removal ends the life of a row the request addresses.
LEMMA RemovalDiscards ==
  ASSUME RowsOK, NEW r \in Reqs, Removes(r)
  PROVE  \E i \in DOMAIN Rows :
           /\ Rows[i].gvr = req[r].gvr
           /\ pc[r] = "remove" => Rows[i].name = req[r].name
           /\ Rows' = [Rows EXCEPT ![i].live = FALSE]
           /\ Written(r, i)
<1> DEFINE id == record[r].id
<1>1. table \in Seq(Row) BY DEF RowsOK, TypeOK
<1>2. /\ id \in DOMAIN table /\ SameIdentity(record[r], table[id])
      /\ record[r].gvr = req[r].gvr
      /\ pc[r] = "remove" => record[r].name = req[r].name
  BY DEF RowsOK, HeldOK, Held, Removes
<1>3. /\ DOMAIN Rows = DOMAIN table
      /\ Rows[id].gvr = table[id].gvr /\ Rows[id].name = table[id].name
  BY <1>1, <1>2, AbstractSeq, AbstractIdentity DEF Rows
<1>4. Rows' = [Rows EXCEPT ![id].live = FALSE]
  BY <1>1, <1>2, AbstractSoftDeleted DEF Removes, Rows
<1>5. Written(r, id) BY DEF Removes
<1> HIDE DEF id
<1>6. QED BY <1>2, <1>3, <1>4, <1>5 DEF SameIdentity

-----------------------------------------------------------------------------
(***************************************************************************)
(* The promise, step by step.                                              *)
(***************************************************************************)
Aimed == [r \in Reqs |-> Aim(req[r])]

LEMMA AimsAre ==
  ASSUME NEW r \in Reqs
  PROVE  /\ Aimed[r].verb = req[r].verb /\ Aimed[r].gvr = req[r].gvr
         /\ Aimed[r].name = req[r].name
         /\ Aimed[r].object = Submitted(req[r])
BY DEF Aimed, Aim

\* A request that leaves the rows alone opens, fails or succeeds.
LEMMA QuietStep ==
  ASSUME NEW r \in Reqs, Quiet(r), req' = req
  PROVE  [Promise!RSNext]_(Promise!rowVars)
<1>1. Phases' = [Phases EXCEPT ![r] = Phase(r)'] /\ Phases[r] = Phase(r)
  BY PhaseMoves DEF Quiet
<1>2. UNCHANGED <<Rows, Aimed, wrote>> BY DEF Quiet, Rows, Aimed
<1>3. CASE Phase(r)' = Phase(r)
  <2>1. Phases' = Phases BY <1>1, <1>3 DEF Phases
  <2>2. QED BY <1>2, <2>1 DEF Promise!rowVars, Phases, Aimed, Rows
<1>4. CASE Phase(r) = "idle" /\ Phase(r)' = "open"
  <2>1. Promise!Open(r)
    BY <1>1, <1>2, <1>4 DEF Promise!Open, Promise!Move, Phases, Aimed, Rows
  <2>2. QED BY <2>1 DEF Promise!RSNext
<1>5. CASE Phase(r) \in {"idle", "open"} /\ Phase(r)' = "failed"
  <2>1. {r} \in SUBSET {s \in Reqs : Phases[s] \in {"idle", "open"}}
    BY <1>1, <1>5
  <2>2. Phases' = [s \in Reqs |-> IF s \in {r} THEN "failed" ELSE Phases[s]]
    BY <1>1, <1>5 DEF Phases
  <2>3. Promise!Fail
    BY <1>2, <2>1, <2>2 DEF Promise!Fail, Phases, Aimed, Rows
  <2>4. QED BY <2>3 DEF Promise!RSNext
<1>6. CASE /\ Phase(r) = "open" /\ Phase(r)' = "ok"
           /\ req[r].verb \in {"create", "update", "delete"} => wrote[r] # {}
  <2>1. Promise!Succeed(r)
    BY <1>1, <1>2, <1>6, AimsAre
    DEF Promise!Succeed, Promise!Move, Phases, Aimed, Rows
  <2>2. QED BY <2>1 DEF Promise!RSNext
<1>7. QED BY <1>3, <1>4, <1>5, <1>6 DEF Quiet, Lawful

\* One that ends with its write, or stays open, acts.
LEMMA EndsActing ==
  ASSUME NEW r \in Reqs, Ends(r), req' = req
  PROVE  Promise!MayAct(r, req[r].verb)
<1>1. Phases' = [Phases EXCEPT ![r] = Phase(r)'] /\ Phases[r] = Phase(r)
  BY PhaseMoves DEF Ends
<1>2. Phases[r] = "open" BY <1>1 DEF Ends
<1>3. Phases' = Phases \/ Phases' = [Phases EXCEPT ![r] = "failed"]
  <2>1. CASE Phase(r)' = "open" BY <1>1, <1>2, <2>1 DEF Phases
  <2>2. CASE Phase(r)' = "failed" BY <1>1, <2>2
  <2>3. QED BY <2>1, <2>2 DEF Ends
<1>4. Aimed' = Aimed BY DEF Aimed
<1>5. QED
  BY <1>2, <1>3, <1>4, AimsAre
  DEF Promise!MayAct, Promise!Move, Phases, Aimed

LEMMA WriteStep ==
  ASSUME AckInv, NEW r \in Reqs, Ends(r), req' = req,
         Inserts(r) \/ Saves(r) \/ Removes(r)
  PROVE  [Promise!RSNext]_(Promise!rowVars)
<1>1. RowsOK /\ TypeOK /\ Course(r) BY InvSays DEF AckInv
<1>2. Promise!MayAct(r, req[r].verb) BY EndsActing
<1>3. CASE Inserts(r)
  <2>1. Promise!Add(r)
    BY <1>1, <1>2, <1>3, WritesOnce, InsertAdds, AimsAre
    DEF Promise!Add, Promise!Acted, Written, Rows, Aimed
  <2>2. QED BY <2>1 DEF Promise!RSNext
<1>4. CASE Saves(r)
  <2>1. record[r].raw = Submitted(req[r]) /\ ~ record[r].deleted
    BY <1>4 DEF AckInv, WritesHold, Saves
  <2>2. PICK i \in DOMAIN Rows :
          /\ Rows[i].gvr = req[r].gvr /\ Rows[i].name = req[r].name
          /\ Rows' = [Rows EXCEPT ![i].raw = Submitted(req[r]),
                                  ![i].live = TRUE]
          /\ Written(r, i)
    BY <1>1, <1>4, <2>1, SaveReplaces
  <2>3. Promise!Replace(r, i)
    BY <1>1, <1>2, <1>4, <2>2, WritesOnce, AimsAre
    DEF Promise!Replace, Promise!Acted, Written, Rows, Aimed
  <2>4. QED BY <2>2, <2>3 DEF Promise!RSNext, Rows
<1>5. CASE Removes(r)
  <2>1. PICK i \in DOMAIN Rows :
          /\ Rows[i].gvr = req[r].gvr
          /\ pc[r] = "remove" => Rows[i].name = req[r].name
          /\ Rows' = [Rows EXCEPT ![i].live = FALSE]
          /\ Written(r, i)
    BY <1>1, <1>5, RemovalDiscards
  <2>2. \/ Promise!MayAct(r, "delete") /\ wrote[r] = {} /\ pc[r] = "remove"
        \/ Promise!MayAct(r, "deletecollection")
    BY <1>1, <1>2, <1>5, WritesOnce
  <2>3. Promise!Discard(r, i)
    BY <2>1, <2>2, AimsAre
    DEF Promise!Discard, Promise!Acted, Written, Rows, Aimed
  <2>4. QED BY <2>1, <2>3 DEF Promise!RSNext, Rows
<1>6. QED BY <1>3, <1>4, <1>5

\* The handlers over the table implement what RowStore promises: for every
\* interleaving, fault, veto and exit of the process.
THEOREM PromiseIsKept == Spec => KeepsPromise
<1>1. Init => Promise!RSInit
  <2>1. SUFFICES ASSUME Init PROVE Promise!RSInit
    OBVIOUS
  <2>2. AbstractTable(table) \in {AbstractTable(t) : t \in Tables}
    BY <2>1 DEF Init
  <2>3. [r \in Reqs |-> Aim(req[r])] \in [Reqs -> {Aim(q) : q \in Menu}]
    BY <2>1 DEF Init
  <2>4. [r \in Reqs |-> Phase(r)] = [r \in Reqs |-> "idle"]
    BY <2>1, PhaseNames DEF Init, Phase
  <2>5. wrote = [r \in Reqs |-> {}] BY <2>1 DEF Init
  <2>6. QED BY <2>2, <2>3, <2>4, <2>5 DEF Promise!RSInit
<1>2. AckInv /\ [Next]_vars => [Promise!RSNext]_(Promise!rowVars)
  <2>1. ASSUME AckInv, UNCHANGED vars
        PROVE  UNCHANGED Promise!rowVars
    BY <2>1 DEF vars, history, handler, Promise!rowVars, Phase
  <2>2. ASSUME AckInv, Exit PROVE [Promise!RSNext]_(Promise!rowVars)
    <3>1. Promise!Fail
      BY <2>2, ExitFails DEF Promise!Fail, Phases
    <3>2. QED BY <3>1 DEF Promise!RSNext
  <2>3. ASSUME AckInv, NEW r \in Reqs, Arrive(r) \/ Serve(r), [Next]_vars
        PROVE  [Promise!RSNext]_(Promise!rowVars)
    <3>1. TypeOK /\ Course(r) /\ PerformedOf(r)
      BY <2>3, InvSays DEF AckInv, Performed, PerformedOf
    <3>2. req' = req BY <2>3, RequestKept
    <3>3. Acts(r) BY <2>3, <3>1, ServeActs
    <3>4. QED BY <2>3, <3>2, <3>3, QuietStep, WriteStep DEF Acts
  <2>4. QED BY <2>1, <2>2, <2>3 DEF Next
<1>3. QED
  BY <1>1, <1>2, AckInvariance, PTL
  DEF Spec, KeepsPromise, Promise!RSSpec

=============================================================================

-------------------------- MODULE Wrappers_proofs --------------------------
(***************************************************************************)
(* Theorems about the wrappers of pkg/api: a pod is stored only complete,  *)
(* whatever other requests do between the check and the write, and the     *)
(* wrapped storages keep the promise of those below.                       *)
(***************************************************************************)
EXTENDS Wrappers, Promise_proofs, FunctionTheorems

-----------------------------------------------------------------------------
(***************************************************************************)
(* The operators of the wrappers.                                          *)
(***************************************************************************)

\* Completing a request changes the namespace of its object at most; it then
\* has one, and stays as it is when it had one.
LEMMA DefaultedType ==
  ASSUME NEW q \in Request
  PROVE  /\ Defaulted(q) \in Request
         /\ Defaulted(q).verb = q.verb /\ Defaulted(q).gvr = q.gvr
         /\ Defaulted(q).name = q.name
         /\ Submitted(Defaulted(q)).namespace # ""
         /\ Submitted(q).namespace # "" => Defaulted(q) = q
<1>1. q.body \in Object BY DEF Request
<1>2. CASE Submitted(q).namespace # ""
  BY <1>2 DEF Defaulted
<1>3. CASE Submitted(q).namespace = ""
  <2>1. q.namespace = ""
    BY <1>1, <1>3 DEF Submitted, Object, Request
  <2>2. Defaulted(q) = [q EXCEPT !.body = [q.body EXCEPT !.namespace = "default"]]
    BY <1>3 DEF Defaulted
  <2>3. [q.body EXCEPT !.namespace = "default"] \in Object
    BY <1>1, WrappersAssumption DEF Object
  <2>4. /\ Defaulted(q) \in Request /\ Defaulted(q).namespace = ""
        /\ Defaulted(q).verb = q.verb /\ Defaulted(q).gvr = q.gvr
        /\ Defaulted(q).name = q.name
        /\ Defaulted(q).body.namespace = "default"
    BY <1>1, <2>1, <2>2, <2>3 DEF Request, Object
  <2>5. Submitted(Defaulted(q)) = Defaulted(q).body BY <2>4 DEF Submitted
  <2>6. QED BY <1>3, <2>4, <2>5
<1>4. QED BY <1>2, <1>3

\* As many names as containers: no name is used twice.
LEMMA NamesCount ==
  ASSUME NEW cs \in Seq([name : Strings, image : Strings]), ValidPod(cs)
  PROVE  LET names == {cs[k].name : k \in DOMAIN cs} IN
         /\ names # {} /\ "" \notin names
         /\ Cardinality(names) = Len(cs)
<1> DEFINE names == {cs[k].name : k \in DOMAIN cs}
<1> DEFINE f == [k \in 1..Len(cs) |-> cs[k].name]
<1>1. Len(cs) \in Nat /\ DOMAIN cs = 1..Len(cs) OBVIOUS
<1>2. Len(cs) # 0 BY EmptySeq DEF ValidPod
<1>3. \A i \in DOMAIN cs : \A j \in 1..(i - 1) : cs[j].name # cs[i].name
  BY DEF ValidPod
<1>4. \A i, j \in 1..Len(cs) : cs[i].name = cs[j].name => i = j
  BY <1>1, <1>3
<1>5. f \in Bijection(1..Len(cs), names)
  BY <1>1, <1>4, Fun_IsBij
<1>6. ExistsBijection(1..Len(cs), names) BY <1>5, Fun_ExistsBij
<1>7. IsFiniteSet(1..Len(cs)) /\ Cardinality(1..Len(cs)) = Len(cs)
  BY <1>1, FS_Interval
<1>8. Cardinality(names) = Len(cs) BY <1>6, <1>7, FS_Bijection
<1>9. names # {}
  <2>1. cs[1].name \in names BY <1>1, <1>2
  <2>2. QED BY <2>1
<1>10. "" \notin names BY DEF ValidPod
<1>11. QED BY <1>8, <1>9, <1>10

-----------------------------------------------------------------------------
(***************************************************************************)
(* The steps.  Those of a gate move one request and leave the rows alone;  *)
(* every other step is one of ResourceServer.                              *)
(***************************************************************************)
Gate(r) ==
  \/ ArriveStatus(r) \/ StatusCall(r)
  \/ WrappedCreate(r) \/ PodUpdate(r) \/ PodDelete(r)
PassedOn(r) ==
  /\ ~ sub[r]
  /\ Arrive(r) \/ (Serve(r) /\ (Intercepted(r) => passed[r]))
  /\ UNCHANGED wrapVars

LEMMA WrapSteps ==
  ASSUME [WrapNext]_allVars
  PROVE  \/ \E r \in Reqs : Gate(r)
         \/ \E r \in Reqs : PassedOn(r)
         \/ Exit /\ UNCHANGED wrapVars
         \/ UNCHANGED vars /\ UNCHANGED wrapVars
BY DEF WrapNext, WrapServe, Below, Gate, PassedOn, allVars

\* What a gate leaves alone.
GateKeeps(r) ==
  /\ UNCHANGED <<table, record, result, items, left, wrote, vetoed, sub, spec>>
  /\ \A s \in Reqs : s # r =>
       /\ pc'[s] = pc[s] /\ status'[s] = status[s]
       /\ req'[s] = req[s] /\ passed'[s] = passed[s]
GateTypes ==
  /\ pc' \in [Reqs -> PC] /\ status' \in [Reqs -> Codes]
  /\ req' \in [Reqs -> Request] /\ passed' \in [Reqs -> BOOLEAN]

\* What it does to its request: the status storage gets the parent or gives
\* up, a wrapper refuses or lets the call through.
StatusMoves(r) ==
  /\ sub[r] /\ pc[r] \in {"new", "get"}
  /\ \/ pc[r] = "new" /\ pc'[r] = "get" /\ status'[r] = status[r]
     \/ pc'[r] = "done" /\ status'[r] \in {400, 500}
  /\ req' = req /\ passed' = passed
Refuses(r) ==
  /\ pc[r] \in {"insert", "updateFirst", "deleteFirst"}
  /\ \/ pc'[r] = "done" /\ status'[r] = 500
     \/ pc'[r] = "lost" /\ status'[r] = status[r]
  /\ req' = req /\ passed' = passed
Admits(r) ==
  /\ UNCHANGED <<pc, status>>
  /\ passed'[r] = TRUE
  /\ \/ /\ pc[r] = "insert"
        /\ req' = [req EXCEPT ![r] = Defaulted(req[r])]
        /\ IsPod(r) \/ IsDeployment(r)
        /\ IsPod(r) => ValidPod(spec[r])
     \/ pc[r] = "deleteFirst" /\ req' = req

LEMMA GateStep ==
  ASSUME TypeOK, passed \in [Reqs -> BOOLEAN], NEW r \in Reqs, Gate(r)
  PROVE  /\ GateKeeps(r) /\ GateTypes
         /\ StatusMoves(r) \/ Refuses(r) \/ Admits(r)
<1> USE DEF handler, history, wrapVars
<1>0. /\ pc \in [Reqs -> PC] /\ status \in [Reqs -> Codes]
      /\ req \in [Reqs -> Request] /\ Defaulted(req[r]) \in Request
      /\ "done" \in PC /\ "lost" \in PC /\ "get" \in PC
  BY DefaultedType DEF TypeOK, Codes, PC, Statements
<1>1. CASE ArriveStatus(r)
  BY <1>0, <1>1
  DEF ArriveStatus, Goto, Reply, GateKeeps, GateTypes, StatusMoves, Codes
<1>2. CASE StatusCall(r)
  BY <1>0, <1>2 DEF StatusCall, Reply, GateKeeps, GateTypes, StatusMoves, Codes
<1>3. CASE WrappedCreate(r)
  <2>1. ~ (IsPod(r) /\ IsDeployment(r))
    BY WrappersAssumption DEF IsPod, IsDeployment
  <2>2. \/ CreatesDefaulted(r) /\ (IsPod(r) => ValidPod(spec[r]))
        \/ Reply(r, 500) /\ UNCHANGED <<req, passed>>
    BY <1>3, <2>1 DEF WrappedCreate
  <2>3. /\ pc[r] = "insert"
        /\ IsPod(r) \/ IsDeployment(r)
        /\ UNCHANGED <<table, handler, history, sub, spec>>
    BY <1>3 DEF WrappedCreate
  <2>4. CASE CreatesDefaulted(r) /\ (IsPod(r) => ValidPod(spec[r]))
    BY <1>0, <2>3, <2>4
    DEF CreatesDefaulted, Passes, GateKeeps, GateTypes, Admits
  <2>5. CASE Reply(r, 500) /\ UNCHANGED <<req, passed>>
    BY <1>0, <2>3, <2>5 DEF Reply, GateKeeps, GateTypes, Refuses, Codes
  <2>6. QED BY <2>2, <2>4, <2>5
<1>4. CASE PodUpdate(r)
  <2>1. /\ pc[r] = "updateFirst" /\ UNCHANGED passed
        /\ UNCHANGED <<table, req, handler, history, sub, spec>>
        /\ Aborts(r) \/ Reply(r, 500)
    BY <1>4 DEF PodUpdate, AssertOldPod
  <2>2. CASE Aborts(r)
    BY <1>0, <2>1, <2>2 DEF Aborts, GateKeeps, GateTypes, Refuses, Codes
  <2>3. CASE Reply(r, 500)
    BY <1>0, <2>1, <2>3 DEF Reply, GateKeeps, GateTypes, Refuses, Codes
  <2>4. QED BY <2>1, <2>2, <2>3
<1>5. CASE PodDelete(r)
  <2>1. /\ pc[r] = "deleteFirst"
        /\ UNCHANGED <<table, req, handler, history, sub, spec>>
        /\ \/ Passes(r) /\ UNCHANGED <<pc, status>>
           \/ Reply(r, 500) /\ UNCHANGED passed
    BY <1>5 DEF PodDelete
  <2>2. CASE Passes(r) /\ UNCHANGED <<pc, status>>
    BY <1>0, <2>1, <2>2 DEF Passes, GateKeeps, GateTypes, Admits
  <2>3. CASE Reply(r, 500) /\ UNCHANGED passed
    BY <1>0, <2>1, <2>3 DEF Reply, GateKeeps, GateTypes, Refuses, Codes
  <2>4. QED BY <2>1, <2>2, <2>3
<1>6. QED BY <1>1, <1>2, <1>3, <1>4, <1>5 DEF Gate

-----------------------------------------------------------------------------
(***************************************************************************)
(* A gate keeps the invariant.                                             *)
(***************************************************************************)

\* It leaves types, the table and the records in hand as they are.
LEMMA GateRows ==
  ASSUME WrapInv, NEW r \in Reqs, Gate(r)
  PROVE  RowsOK'
<1>1. /\ TypeOK /\ StoreConsistent /\ HeldOK /\ passed \in [Reqs -> BOOLEAN]
      /\ \A s \in Reqs : req[s] \in Request
  BY DEF WrapInv, RowsOK, TypeOK
<1>2. GateKeeps(r) /\ GateTypes /\ (StatusMoves(r) \/ Refuses(r) \/ Admits(r))
  BY <1>1, GateStep
<1>3. TypeOK' BY <1>1, <1>2 DEF TypeOK, GateKeeps, GateTypes, Codes
<1>4. StoreConsistent' BY <1>1, <1>2 DEF GateKeeps, StoreConsistent
<1>5. ASSUME NEW s \in Reqs, pc'[s] \in {"save", "remove", "collectionRemove"}
      PROVE  Held(s)'
  <2>1. pc'[r] \notin {"save", "remove", "collectionRemove"}
    BY <1>2 DEF StatusMoves, Refuses, Admits
  <2>2. s # r /\ pc'[s] = pc[s] /\ req'[s] = req[s] BY <1>2, <1>5, <2>1 DEF GateKeeps
  <2>3. Held(s) BY <1>1, <1>5, <2>2 DEF HeldOK
  <2>4. QED BY <1>2, <2>2, <2>3 DEF Held, GateKeeps
<1>6. QED BY <1>3, <1>4, <1>5 DEF RowsOK, HeldOK

\* The request it moves.
LEMMA GateCourse ==
  ASSUME WrapInv, NEW r \in Reqs, Gate(r), NEW s \in Reqs
  PROVE  StatusCourse(s)' /\ (~ sub'[s] => Course(s)') /\ GateOK(s)'
<1>1. /\ TypeOK /\ passed \in [Reqs -> BOOLEAN] /\ req \in [Reqs -> Request]
      /\ StatusCourse(s) /\ (~ sub[s] => Course(s)) /\ GateOK(s)
      /\ req[s] \in Request
  BY DEF WrapInv, RowsOK, TypeOK
<1>2. GateKeeps(r) /\ (StatusMoves(r) \/ Refuses(r) \/ Admits(r))
  BY <1>1, GateStep
<1>3. /\ sub'[s] = sub[s] /\ spec'[s] = spec[s] /\ wrote'[s] = wrote[s]
      /\ vetoed'[s] = vetoed[s]
  BY <1>2 DEF GateKeeps
<1>4. CASE s # r
  <2>1. /\ pc'[s] = pc[s] /\ status'[s] = status[s] /\ req'[s] = req[s]
        /\ passed'[s] = passed[s]
    BY <1>2, <1>4 DEF GateKeeps
  <2>2. StatusCourse(s)' BY <1>1, <1>3, <2>1 DEF StatusCourse
  <2>3. ~ sub'[s] => Course(s)' BY <1>1, <1>3, <2>1 DEF Course
  <2>4. GateOK(s)' BY <1>1, <1>3, <2>1 DEF GateOK, IsPod
  <2>5. QED BY <2>2, <2>3, <2>4
<1>5. CASE s = r /\ StatusMoves(r)
  BY <1>1, <1>3, <1>5 DEF StatusCourse, Course, GateOK, StatusMoves
<1>6. CASE s = r /\ Refuses(r)
  <2>1. ~ sub[s] /\ Course(s) BY <1>1, <1>6 DEF StatusCourse, Refuses
  <2>2. wrote[s] = {} /\ status[s] = 0 /\ vetoed[s] \cap PreHooks = {}
    BY <1>6, <2>1 DEF Course, Unwritten, Refuses
  <2>3. pc'[s] \in {"done", "lost"} /\ (pc'[s] # "done" => status'[s] = 0)
    BY <1>6, <2>2 DEF Refuses
  <2>4. Course(s)'
    BY <1>3, <2>2, <2>3 DEF Course, Stages, Unwritten, PreHooks
  <2>5. GateOK(s)'
    BY <1>1, <1>3, <1>6, <2>3 DEF GateOK, Refuses, IsPod
  <2>6. QED BY <1>3, <2>1, <2>4, <2>5 DEF StatusCourse
<1>7. CASE s = r /\ Admits(r)
  <2>1. ~ sub[s] /\ Course(s) BY <1>1, <1>7 DEF StatusCourse, Admits
  <2>2. /\ pc'[s] = pc[s] /\ status'[s] = status[s] /\ passed'[s]
        /\ req'[s] = req[s] \/ (pc[s] = "insert" /\ req'[s] = Defaulted(req[s]))
    BY <1>1, <1>7 DEF Admits
  <2>3. req'[s].verb = req[s].verb /\ req'[s].gvr = req[s].gvr
    BY <1>1, <2>2, DefaultedType
  <2>4. Course(s)' BY <1>3, <2>1, <2>2, <2>3 DEF Course
  <2>5. req[s].verb \in Verbs BY <1>1 DEF Request
  <2>6. /\ pc[s] = "insert" => req[s].verb = "create"
        /\ pc[s] = "deleteFirst" => req[s].verb = "delete"
    BY <2>1, <2>5, StageNames DEF Course, Verbs
  <2>7. pc[s] = "insert" => /\ req'[s] = Defaulted(req[s])
                            /\ IsPod(s) => ValidPod(spec[s])
    BY <1>1, <1>7 DEF Admits
  <2>8. pc[s] = "insert" => Submitted(req'[s]).namespace # ""
    BY <1>1, <2>7, DefaultedType
  <2>9. pc[s] \in {"insert", "deleteFirst"} BY <1>7 DEF Admits
  <2>10. GateOK(s)'
    BY <1>3, <2>2, <2>3, <2>6, <2>7, <2>8, <2>9 DEF GateOK, IsPod
  <2>11. QED BY <1>3, <2>1, <2>4, <2>10 DEF StatusCourse
<1>8. QED BY <1>2, <1>4, <1>5, <1>6, <1>7

\* What was written, and what is about to be.
LEMMA GateWrites ==
  ASSUME WrapInv, NEW r \in Reqs, Gate(r)
  PROVE  Performed' /\ SubmittedHeld' /\ CreatedWhereSubmitted'
<1>1. /\ TypeOK /\ passed \in [Reqs -> BOOLEAN] /\ req \in [Reqs -> Request]
      /\ \A s \in Reqs : req[s] \in Request
      /\ StatusCourse(r) /\ (~ sub[r] => Course(r))
  BY DEF WrapInv, RowsOK, TypeOK
<1>2. GateKeeps(r) /\ (StatusMoves(r) \/ Refuses(r) \/ Admits(r))
  BY <1>1, GateStep
<1>3. UNCHANGED <<table, record, wrote>> BY <1>2 DEF GateKeeps
<1>4. \A s \in Reqs : s # r =>
        pc'[s] = pc[s] /\ status'[s] = status[s] /\ req'[s] = req[s]
  BY <1>2 DEF GateKeeps
<1>5. /\ req'[r] = req[r] \/ req'[r] = Defaulted(req[r])
      /\ req'[r] # req[r] => wrote[r] = {}
  <2>1. req' = req \/ (/\ req' = [req EXCEPT ![r] = Defaulted(req[r])]
                       /\ pc[r] = "insert")
    BY <1>2 DEF StatusMoves, Refuses, Admits
  <2>2. pc[r] = "insert" => wrote[r] = {}
    BY <1>1 DEF StatusCourse, Course, Unwritten
  <2>3. QED BY <1>1, <2>1, <2>2
<1>6. \A s \in Reqs : req'[s].verb = req[s].verb
  <2>1. Defaulted(req[r]).verb = req[r].verb BY <1>1, DefaultedType
  <2>2. QED BY <1>4, <1>5, <2>1
<1>7. /\ pc'[r] \notin {"save", "postCreate", "postUpdate", "postDelete"}
      /\ status'[r] \in {400, 500} \/ status'[r] = status[r]
  BY <1>2 DEF StatusMoves, Refuses, Admits
<1>8. Performed'
  <2>1. SUFFICES ASSUME NEW s \in Reqs PROVE PerformedOf(s)'
    BY DEF Performed, PerformedOf
  <2>2. PerformedOf(s) BY DEF WrapInv, Performed, PerformedOf
  <2>3. QED BY <1>3, <1>4, <1>6, <1>7, <2>2 DEF PerformedOf
<1>9. SubmittedHeld'
  BY <1>3, <1>4, <1>7 DEF WrapInv, SubmittedHeld
<1>10. CreatedWhereSubmitted'
  <2>1. \A s \in Reqs : wrote[s] # {} => req'[s] = req[s] BY <1>4, <1>5
  <2>2. QED BY <1>3, <2>1 DEF WrapInv, CreatedWhereSubmitted
<1>11. QED BY <1>8, <1>9, <1>10

-----------------------------------------------------------------------------
(***************************************************************************)
(* The steps of ResourceServer keep it.                                    *)
(***************************************************************************)
ServerStep ==
  \/ \E r \in Reqs : PassedOn(r)
  \/ Exit /\ UNCHANGED wrapVars
  \/ UNCHANGED vars /\ UNCHANGED wrapVars

LEMMA ServerNext ==
  ASSUME ServerStep
  PROVE  [Next]_vars /\ UNCHANGED <<sub, spec, passed>>
BY DEF ServerStep, PassedOn, Next, wrapVars

\* Seen from one request: it is left alone, lost, or passed on.
LEMMA WrapLocality ==
  ASSUME TypeOK, ServerStep, NEW s \in Reqs
  PROVE  Untouched(s) \/ Lost(s) \/ PassedOn(s)
<1>1. ASSUME NEW r \in Reqs, PassedOn(r) PROVE Untouched(s) \/ PassedOn(s)
  <2>1. CASE s = r BY <1>1, <2>1
  <2>2. CASE s # r BY <1>1, <2>2, Elsewhere DEF PassedOn
  <2>3. QED BY <2>1, <2>2
<1>2. CASE Exit BY <1>2, ExitLoses
<1>3. CASE UNCHANGED vars
  BY <1>3 DEF vars, handler, history, Untouched, Kept
<1>4. QED BY <1>1, <1>2, <1>3 DEF ServerStep

LEMMA ServerRows == ASSUME WrapInv, ServerStep PROVE RowsOK'
<1>1. RowsOK /\ TypeOK /\ [Next]_vars BY ServerNext DEF WrapInv, RowsOK
<1>2. QED BY <1>1, NextTypeOK, RowsKept, HandsKept DEF RowsOK

\* An update comes to its Save by its SELECT, and past it by the Save.
LEMMA NoSave ==
  ASSUME TypeOK, NEW s \in Reqs, Course(s), Arrive(s) \/ Serve(s)
  PROVE  /\ pc'[s] = "save" => pc[s] = "updateFirst" /\ req[s].verb = "update"
         /\ pc'[s] = "postUpdate" => pc[s] = "save"
<1> USE StageNames DEF Course, PreHooks, PostHooks
<1>0. req[s].verb \in Verbs /\ pc \in [Reqs -> PC] BY DEF TypeOK, Request
<1>1. CASE Arrive(s)
  BY <1>0, <1>1 DEF Arrive, Goto, Reply, EntryPoint, Verbs
<1>2. CASE RunPreHooks(s)
  BY <1>0, <1>2 DEF RunPreHooks, HookFailed, Goto, Reply, AfterHooks
<1>3. CASE RunPostHooks(s)
  BY <1>0, <1>3 DEF RunPostHooks, HookFailed, Reply
<1>4. CASE Insert(s) \/ Get(s) \/ DeleteFirst(s) \/ Remove(s)
  BY <1>0, <1>4 DEF Insert, Get, DeleteFirst, Remove, Goto, Reply
<1>5. CASE List(s)
  <2>1. \/ Goto(s, "collection") \/ Goto(s, "postList")
        \/ Reply(s, 200) \/ Reply(s, 500)
    BY <1>5, Zenon DEF List
  <2>2. QED BY <1>0, <2>1 DEF Goto, Reply
<1>6. CASE UpdateFirst(s)
  BY <1>0, <1>6 DEF UpdateFirst, Goto, Reply, Verbs
<1>7. CASE Save(s) BY <1>0, <1>7 DEF Save, Goto, Reply
<1>8. CASE CollectionFirst(s) \/ CollectionRemove(s) \/ CollectionEnd(s)
  BY <1>0, <1>8
  DEF CollectionFirst, CollectionRemove, CollectionEnd, Goto, Reply
<1>9. QED
  BY <1>1, <1>2, <1>3, <1>4, <1>5, <1>6, <1>7, <1>8 DEF Serve

LEMMA ServerCourse ==
  ASSUME WrapInv, ServerStep, NEW s \in Reqs
  PROVE  StatusCourse(s)' /\ (~ sub'[s] => Course(s)') /\ GateOK(s)'
<1>1. /\ TypeOK /\ StatusCourse(s) /\ (~ sub[s] => Course(s)) /\ GateOK(s)
      /\ [Next]_vars /\ req' = req
      /\ UNCHANGED <<sub, spec, passed>> /\ req[s].verb \in Verbs
  BY ServerNext, RequestKept DEF WrapInv, RowsOK, TypeOK, Request
<1>2. CASE Untouched(s)
  <2>1. StatusCourse(s)'
    BY <1>1, <1>2 DEF Untouched, Kept, StatusCourse
  <2>2. ~ sub'[s] => Course(s)' BY <1>1, <1>2 DEF Untouched, Kept, Course
  <2>3. GateOK(s)' BY <1>1, <1>2 DEF Untouched, Kept, GateOK, IsPod
  <2>4. QED BY <2>1, <2>2, <2>3
<1>3. CASE Lost(s)
  <2>1. StatusCourse(s)' BY <1>1, <1>3 DEF Lost, Kept, StatusCourse
  <2>2. ~ sub'[s] => Course(s)'
    BY <1>1, <1>3 DEF Lost, Kept, Course, InFlight, Stages, Unwritten, PreHooks
  <2>3. GateOK(s)' BY <1>1, <1>3 DEF Lost, Kept, GateOK, IsPod
  <2>4. QED BY <2>1, <2>2, <2>3
<1>4. CASE PassedOn(s)
  <2>1. ~ sub[s] /\ Course(s) /\ (Arrive(s) \/ Serve(s))
    BY <1>1, <1>4 DEF PassedOn
  <2>2. Course(s)' BY <1>1, <2>1, CourseStep
  <2>3. SUFFICES ASSUME IsPod(s) PROVE GateOK(s)'
    BY <1>1, <2>1, <2>2 DEF StatusCourse, GateOK, IsPod
  <2>4. Intercepted(s) => Arrive(s) \/ passed[s] BY <1>4 DEF PassedOn
  <2>5. pc'[s] \notin {"save", "postUpdate"}
    <3>1. /\ pc'[s] = "save" => /\ pc[s] = "updateFirst"
                                /\ req[s].verb = "update"
          /\ pc'[s] = "postUpdate" => pc[s] = "save"
      BY <1>1, <2>1, NoSave
    <3>2. pc[s] # "save" BY <1>1, <2>1, <2>3 DEF GateOK
    <3>3. pc[s] = "updateFirst" => passed[s]
      BY <2>3, <2>4 DEF Intercepted, Arrive
    <3>4. passed[s] => req[s].verb # "update"
      BY <1>1, <2>1, <2>3 DEF GateOK
    <3>5. QED BY <3>1, <3>2, <3>3, <3>4
  <2>6. wrote'[s] # wrote[s] /\ req[s].verb = "create" => passed[s]
    <3>1. ASSUME wrote'[s] # wrote[s], req[s].verb = "create" PROVE passed[s]
      <4>1. PICK r \in Reqs : Inserts(r) \/ Saves(r) \/ Removes(r)
        BY <1>1, <3>1, Writes
      <4>2. r = s
        BY <1>1, <3>1, <4>1, WroteIs
      <4>3. Inserts(s) BY <1>1, <2>1, <3>1, <4>1, <4>2, WriterVerbs
      <4>4. pc[s] = "insert" BY <4>3 DEF Inserts
      <4>5. QED BY <2>3, <2>4, <4>4 DEF Intercepted, Arrive
    <3>2. QED BY <3>1
  <2>7. QED BY <1>1, <2>1, <2>3, <2>5, <2>6 DEF GateOK, IsPod
<1>5. QED BY <1>1, <1>2, <1>3, <1>4, WrapLocality

LEMMA ServerWrites ==
  ASSUME WrapInv, ServerStep
  PROVE  Performed' /\ SubmittedHeld' /\ CreatedWhereSubmitted'
<1>1. /\ TypeOK /\ RowsOK /\ [Next]_vars /\ req' = req
      /\ \A s \in Reqs : StatusCourse(s) /\ (~ sub[s] => Course(s))
  BY ServerNext, RequestKept DEF WrapInv, RowsOK
<1>2. Performed'
  <2>1. SUFFICES ASSUME NEW s \in Reqs PROVE PerformedOf(s)'
    BY DEF Performed, PerformedOf
  <2>2. PerformedOf(s) BY DEF WrapInv, Performed, PerformedOf
  <2>3. CASE Untouched(s) BY <1>1, <2>2, <2>3 DEF Untouched, Kept, PerformedOf
  <2>4. CASE Lost(s) BY <1>1, <2>2, <2>4 DEF Lost, Kept, PerformedOf
  <2>5. CASE PassedOn(s)
    <3>1. Course(s) /\ (Arrive(s) \/ Serve(s)) BY <1>1, <2>5 DEF PassedOn
    <3>2. QED BY <1>1, <2>2, <3>1, PerformedStep
  <2>6. QED BY <1>1, <2>3, <2>4, <2>5, WrapLocality
<1>3. SubmittedHeld'
  BY <1>1, SubmittedInHand DEF WrapInv, SubmittedHeld
<1>4. CreatedWhereSubmitted'
  <2>1. SUFFICES ASSUME NEW s \in Reqs, NEW i \in wrote'[s],
                        req[s].verb = "create"
                 PROVE  /\ i \in DOMAIN table'
                        /\ table'[i].namespace = Submitted(req[s]).namespace
    BY <1>1 DEF CreatedWhereSubmitted
  <2>2. CASE i \in wrote[s]
    <3>1. /\ i \in DOMAIN table
          /\ table[i].namespace = Submitted(req[s]).namespace
      BY <2>1, <2>2 DEF WrapInv, CreatedWhereSubmitted
    <3>2. QED BY <1>1, <3>1, RowsKept DEF IdentityStep, SameIdentity
  <2>3. CASE i \notin wrote[s]
    <3>1. PICK r \in Reqs : Inserts(r) \/ Saves(r) \/ Removes(r)
      BY <1>1, <2>1, <2>3, Writes
    <3>2. r = s BY <1>1, <2>1, <2>3, <3>1, WroteIs
    <3>3. Course(s)
      BY <1>1, <3>1, <3>2 DEF StatusCourse, Inserts, Saves, Removes
    <3>4. Inserts(s) BY <1>1, <2>1, <3>1, <3>2, <3>3, WriterVerbs
    <3>5. i = Len(table) + 1 BY <1>1, <2>1, <2>3, <3>4, WroteIs
    <3>6. QED BY <1>1, <3>4, <3>5, InsertedRow
  <2>4. QED BY <2>2, <2>3
<1>5. QED BY <1>2, <1>3, <1>4

-----------------------------------------------------------------------------
(***************************************************************************)
(* The theorems.                                                           *)
(***************************************************************************)
LEMMA WrapInitInv == ASSUME WrapInit PROVE WrapInv
<1>1. Init BY DEF WrapInit
<1>2. RowsOK /\ \A r \in Reqs : Course(r) BY <1>1, InitInv, InvSays
<1>3. \A r \in Reqs : pc[r] = "new" /\ wrote[r] = {} /\ status[r] = 0
  BY <1>1 DEF Init
<1>4. passed = [r \in Reqs |-> FALSE] BY DEF WrapInit
<1>5. \A r \in Reqs : StatusCourse(r) /\ GateOK(r)
  BY <1>3, <1>4 DEF StatusCourse, GateOK
<1>6. Performed /\ SubmittedHeld /\ CreatedWhereSubmitted
  BY <1>3 DEF Performed, SubmittedHeld, CreatedWhereSubmitted
<1>7. QED BY <1>2, <1>4, <1>5, <1>6 DEF WrapInv, WrapInit

LEMMA WrapNextInv == ASSUME WrapInv, [WrapNext]_allVars PROVE WrapInv'
<1>1. TypeOK /\ passed \in [Reqs -> BOOLEAN] BY DEF WrapInv, RowsOK
<1>2. ASSUME NEW r \in Reqs, Gate(r) PROVE WrapInv'
  <2>1. UNCHANGED <<sub, spec>> /\ passed' \in [Reqs -> BOOLEAN]
    BY <1>1, <1>2, GateStep DEF GateKeeps, GateTypes
  <2>2. QED
    BY <1>2, <2>1, GateRows, GateCourse, GateWrites DEF WrapInv
<1>3. ASSUME ServerStep PROVE WrapInv'
  BY <1>3, ServerNext, ServerRows, ServerCourse, ServerWrites DEF WrapInv
<1>4. QED BY <1>2, <1>3, WrapSteps DEF ServerStep

\* The invariant of the wrappers.
THEOREM WrapInvariance == WrapSpec => []WrapInv
<1>1. WrapInit => WrapInv BY WrapInitInv
<1>2. WrapInv /\ [WrapNext]_allVars => WrapInv' BY WrapNextInv
<1>3. QED BY <1>1, <1>2, PTL DEF WrapSpec

\* Every pod created through a PodStorage is complete.
THEOREM CreatedPodsAreComplete == WrapSpec => []CreatedPodsComplete
<1>1. WrapInv => CreatedPodsComplete
  <2>1. SUFFICES ASSUME WrapInv, NEW r \in Reqs, NEW i \in wrote[r],
                        req[r].verb = "create", IsPod(r)
                 PROVE  /\ ValidPod(spec[r])
                        /\ spec[r] \in Seq([name : Strings, image : Strings])
                        /\ table[i].namespace # ""
    BY NamesCount DEF CreatedPodsComplete, ValidPod
  <2>2. ~ sub[r] BY <2>1 DEF WrapInv, StatusCourse
  <2>3. ValidPod(spec[r]) /\ Submitted(req[r]).namespace # ""
    BY <2>1, <2>2 DEF WrapInv, GateOK
  <2>4. spec[r] \in Containers BY <2>1 DEF WrapInv
  <2>5. table[i].namespace = Submitted(req[r]).namespace
    BY <2>1 DEF WrapInv, CreatedWhereSubmitted
  <2>6. QED BY <2>3, <2>4, <2>5, WrappersAssumption
<1>2. QED BY <1>1, WrapInvariance, PTL

-----------------------------------------------------------------------------
(***************************************************************************)
(* What a wrapped request asks for: the object with its defaults.          *)
(***************************************************************************)
Completed(r) ==
  IF req[r].verb = "create" /\ (IsPod(r) \/ IsDeployment(r))
  THEN Defaulted(req[r]) ELSE req[r]
WAimed == [r \in Reqs |-> Aim(Completed(r))]

\* It is not the request, as long as a wrapper has not completed it; but it
\* is when a row is written.
LEMMA WAimsAre ==
  ASSUME WrapInv, NEW r \in Reqs
  PROVE  /\ WAimed[r].verb = req[r].verb /\ WAimed[r].gvr = req[r].gvr
         /\ WAimed[r].name = req[r].name
         /\ req[r].verb # "create" => WAimed[r].object = Submitted(req[r])
         /\ PassedOn(r) /\ Inserts(r) => WAimed[r].object = Submitted(req[r])
<1>1. /\ req[r] \in Request /\ GateOK(r)
      /\ WAimed[r] = Aim(Completed(r))
  BY DEF WrapInv, RowsOK, TypeOK, WAimed
<1>2. /\ Completed(r).verb = req[r].verb /\ Completed(r).gvr = req[r].gvr
      /\ Completed(r).name = req[r].name
      /\ req[r].verb # "create" => Completed(r) = req[r]
  BY <1>1, DefaultedType DEF Completed
<1>3. ASSUME PassedOn(r), Inserts(r) PROVE Completed(r) = req[r]
  <2>1. CASE req[r].verb = "create" /\ (IsPod(r) \/ IsDeployment(r))
    <3>1. ~ sub[r] /\ passed[r]
      BY <1>3, <2>1 DEF PassedOn, Inserts, Intercepted, Arrive
    <3>2. Submitted(req[r]).namespace # "" BY <1>1, <2>1, <3>1 DEF GateOK
    <3>3. Defaulted(req[r]) = req[r] BY <1>1, <3>2, DefaultedType
    <3>4. QED BY <2>1, <3>3 DEF Completed
  <2>2. QED BY <2>1 DEF Completed
<1>4. QED BY <1>1, <1>2, <1>3 DEF Aim

\* No step changes what a request asks for: what has been completed is
\* complete.
LEMMA WAimsKept == ASSUME WrapInv, [WrapNext]_allVars PROVE WAimed' = WAimed
<1>1. TypeOK /\ passed \in [Reqs -> BOOLEAN] /\ req \in [Reqs -> Request]
  BY DEF WrapInv, RowsOK, TypeOK
<1>2. CASE req' = req BY <1>2 DEF WAimed, Completed, IsPod, IsDeployment
<1>3. ASSUME NEW r \in Reqs, Gate(r), req' # req PROVE WAimed' = WAimed
  <2>1. /\ pc[r] = "insert" /\ (IsPod(r) \/ IsDeployment(r))
        /\ req' = [req EXCEPT ![r] = Defaulted(req[r])]
    BY <1>1, <1>3, GateStep DEF StatusMoves, Refuses, Admits
  <2>2. req[r].verb = "create"
    <3>1. Course(r) BY <2>1 DEF WrapInv, StatusCourse
    <3>2. req[r].verb \in Verbs BY <1>1 DEF Request
    <3>3. QED BY <2>1, <3>1, <3>2, StageNames DEF Course, Verbs
  <2>3. /\ req'[r] = Defaulted(req[r])
        /\ req'[r].verb = "create" /\ req'[r].gvr = req[r].gvr
        /\ Defaulted(Defaulted(req[r])) = Defaulted(req[r])
    BY <1>1, <2>1, <2>2, DefaultedType
  <2>4. Completed(r)' = Completed(r)
    BY <2>1, <2>2, <2>3 DEF Completed, IsPod, IsDeployment
  <2>5. ASSUME NEW s \in Reqs, s # r PROVE Completed(s)' = Completed(s)
    <3>1. req'[s] = req[s] BY <1>1, <2>1, <2>5
    <3>2. QED BY <3>1 DEF Completed, IsPod, IsDeployment
  <2>6. QED BY <2>4, <2>5 DEF WAimed
<1>4. CASE ServerStep
  <2>1. req' = req BY <1>4, ServerNext, RequestKept
  <2>2. QED BY <1>2, <2>1
<1>5. QED BY <1>2, <1>3, <1>4, WrapSteps DEF ServerStep

-----------------------------------------------------------------------------
(***************************************************************************)
(* The promise of the wrapped storages, step by step.                      *)
(***************************************************************************)

\* A gate leaves the rows alone.
LEMMA GateQuiet ==
  ASSUME WrapInv, NEW r \in Reqs, Gate(r)
  PROVE  Quiet(r)
<1>1. TypeOK /\ passed \in [Reqs -> BOOLEAN] BY DEF WrapInv, RowsOK
<1>2. GateKeeps(r) /\ (StatusMoves(r) \/ Refuses(r) \/ Admits(r))
  BY <1>1, GateStep
<1>3. UNCHANGED <<table, wrote>> /\ Moves(r) BY <1>2 DEF GateKeeps, Moves
<1>4. StatusMoves(r) => Lawful(r)
  BY PhaseNames DEF StatusMoves, Lawful, Phase
<1>5. Refuses(r) => Lawful(r) BY PhaseNames DEF Refuses, Lawful, Phase
<1>6. Admits(r) => Lawful(r) BY DEF Admits, Lawful, Phase
<1>7. Lawful(r) BY <1>2, <1>4, <1>5, <1>6
<1>8. QED BY <1>3, <1>7 DEF Quiet

\* As without wrappers: a request that leaves the rows alone opens, fails or
\* succeeds.
LEMMA WrappedQuietStep ==
  ASSUME WrapInv, NEW r \in Reqs, Quiet(r), WAimed' = WAimed
  PROVE  [WrappedPromise!RSNext]_(WrappedPromise!rowVars)
<1>1. Phases' = [Phases EXCEPT ![r] = Phase(r)'] /\ Phases[r] = Phase(r)
  BY PhaseMoves DEF Quiet
<1>2. UNCHANGED <<Rows, WAimed, wrote>> BY DEF Quiet, Rows
<1> USE DEF Phases, Rows, WAimed, Completed
<1>3. CASE Phase(r)' = Phase(r)
  <2>1. Phases' = Phases BY <1>1, <1>3
  <2>2. QED BY <1>2, <2>1 DEF WrappedPromise!rowVars
<1>4. CASE Phase(r) = "idle" /\ Phase(r)' = "open"
  <2>1. WrappedPromise!Open(r)
    BY <1>1, <1>2, <1>4 DEF WrappedPromise!Open, WrappedPromise!Move
  <2>2. QED BY <2>1 DEF WrappedPromise!RSNext
<1>5. CASE Phase(r) \in {"idle", "open"} /\ Phase(r)' = "failed"
  <2>1. {r} \in SUBSET {s \in Reqs : Phases[s] \in {"idle", "open"}}
    BY <1>1, <1>5
  <2>2. Phases' = [s \in Reqs |-> IF s \in {r} THEN "failed" ELSE Phases[s]]
    BY <1>1, <1>5
  <2>3. WrappedPromise!Fail
    BY <1>2, <2>1, <2>2 DEF WrappedPromise!Fail
  <2>4. QED BY <2>3 DEF WrappedPromise!RSNext
<1>6. CASE /\ Phase(r) = "open" /\ Phase(r)' = "ok"
           /\ req[r].verb \in {"create", "update", "delete"} => wrote[r] # {}
  <2>1. WAimed[r].verb = req[r].verb BY WAimsAre
  <2>2. WrappedPromise!Succeed(r)
    BY <1>1, <1>2, <1>6, <2>1
    DEF WrappedPromise!Succeed, WrappedPromise!Move
  <2>3. QED BY <2>2 DEF WrappedPromise!RSNext
<1>7. QED BY <1>3, <1>4, <1>5, <1>6 DEF Quiet, Lawful

\* One that ends with its write, or stays open, acts.
LEMMA WrappedEndsActing ==
  ASSUME WrapInv, NEW r \in Reqs, Ends(r), WAimed' = WAimed
  PROVE  WrappedPromise!MayAct(r, req[r].verb)
<1>1. Phases' = [Phases EXCEPT ![r] = Phase(r)'] /\ Phases[r] = Phase(r)
  BY PhaseMoves DEF Ends
<1>2. Phases[r] = "open" BY <1>1 DEF Ends
<1>3. Phases' = Phases \/ Phases' = [Phases EXCEPT ![r] = "failed"]
  <2>1. CASE Phase(r)' = "open" BY <1>1, <1>2, <2>1 DEF Phases
  <2>2. CASE Phase(r)' = "failed" BY <1>1, <2>2
  <2>3. QED BY <2>1, <2>2 DEF Ends
<1>4. WAimed[r].verb = req[r].verb BY WAimsAre
<1>5. QED
  BY <1>2, <1>3, <1>4
  DEF WrappedPromise!MayAct, WrappedPromise!Move, Phases, WAimed, Completed

LEMMA WrappedWriteStep ==
  ASSUME WrapInv, NEW r \in Reqs, PassedOn(r), Ends(r), WAimed' = WAimed,
         Inserts(r) \/ Saves(r) \/ Removes(r)
  PROVE  [WrappedPromise!RSNext]_(WrappedPromise!rowVars)
<1>1. RowsOK /\ TypeOK /\ Course(r) /\ SubmittedHeld
  BY DEF WrapInv, RowsOK, PassedOn
<1>2. WrappedPromise!MayAct(r, req[r].verb) BY WrappedEndsActing
<1>3. /\ WAimed[r].gvr = req[r].gvr /\ WAimed[r].name = req[r].name
      /\ req[r].verb # "create" \/ Inserts(r)
         => WAimed[r].object = Submitted(req[r])
  BY WAimsAre
<1> USE DEF WrappedPromise!Acted, Written, Rows, WAimed, Completed
<1>4. CASE Inserts(r)
  <2>1. WrappedPromise!Add(r)
    BY <1>1, <1>2, <1>3, <1>4, WritesOnce, InsertAdds
    DEF WrappedPromise!Add
  <2>2. QED BY <2>1 DEF WrappedPromise!RSNext
<1>5. CASE Saves(r)
  <2>1. record[r].raw = Submitted(req[r]) /\ ~ record[r].deleted
    BY <1>1, <1>5 DEF SubmittedHeld, Saves
  <2>2. PICK i \in DOMAIN Rows :
          /\ Rows[i].gvr = req[r].gvr /\ Rows[i].name = req[r].name
          /\ Rows' = [Rows EXCEPT ![i].raw = Submitted(req[r]),
                                  ![i].live = TRUE]
          /\ Written(r, i)
    BY <1>1, <1>5, <2>1, SaveReplaces
  <2>3. WrappedPromise!Replace(r, i)
    BY <1>1, <1>2, <1>3, <1>5, <2>2, WritesOnce
    DEF WrappedPromise!Replace
  <2>4. QED BY <2>2, <2>3 DEF WrappedPromise!RSNext
<1>6. CASE Removes(r)
  <2>1. PICK i \in DOMAIN Rows :
          /\ Rows[i].gvr = req[r].gvr
          /\ pc[r] = "remove" => Rows[i].name = req[r].name
          /\ Rows' = [Rows EXCEPT ![i].live = FALSE]
          /\ Written(r, i)
    BY <1>1, <1>6, RemovalDiscards
  <2>2. \/ /\ WrappedPromise!MayAct(r, "delete")
           /\ wrote[r] = {} /\ pc[r] = "remove"
        \/ WrappedPromise!MayAct(r, "deletecollection")
    BY <1>1, <1>2, <1>6, WritesOnce
  <2>3. WrappedPromise!Discard(r, i)
    BY <1>3, <2>1, <2>2 DEF WrappedPromise!Discard
  <2>4. QED BY <2>1, <2>3 DEF WrappedPromise!RSNext
<1>7. QED BY <1>4, <1>5, <1>6

\* Behind their wrappers too the storages implement what RowStore promises,
\* where a create promises the object with its defaults.
THEOREM WrappersKeepThePromise == WrapSpec => WrappersKeepPromise
<1>1. WrapInit => WrappedPromise!RSInit
  <2>1. SUFFICES ASSUME WrapInit PROVE WrappedPromise!RSInit
    OBVIOUS
  <2>2. Init BY <2>1 DEF WrapInit
  <2>3. AbstractTable(table) \in {AbstractTable(t) : t \in Tables}
    BY <2>2 DEF Init
  <2>4. \A r \in Reqs : Completed(r) \in Menu \cup {Defaulted(q) : q \in Menu}
    BY <2>2 DEF Init, Completed
  <2>5. WAimed \in [Reqs -> {Aim(q) : q \in Menu}
                              \cup {Aim(Defaulted(q)) : q \in Menu}]
    BY <2>4 DEF WAimed
  <2>6. [r \in Reqs |-> Phase(r)] = [r \in Reqs |-> "idle"]
    BY <2>2, PhaseNames DEF Init, Phase
  <2>7. wrote = [r \in Reqs |-> {}] BY <2>2 DEF Init
  <2>8. QED
    BY <2>3, <2>5, <2>6, <2>7 DEF WrappedPromise!RSInit, WAimed, Completed
<1>2. WrapInv /\ [WrapNext]_allVars
        => [WrappedPromise!RSNext]_(WrappedPromise!rowVars)
  <2>1. SUFFICES ASSUME WrapInv, [WrapNext]_allVars
                 PROVE  [WrappedPromise!RSNext]_(WrappedPromise!rowVars)
    OBVIOUS
  <2>2. WAimed' = WAimed BY <2>1, WAimsKept
  <2>3. ASSUME NEW r \in Reqs, Gate(r)
        PROVE  [WrappedPromise!RSNext]_(WrappedPromise!rowVars)
    BY <2>1, <2>2, <2>3, GateQuiet, WrappedQuietStep
  <2>4. ASSUME NEW r \in Reqs, PassedOn(r)
        PROVE  [WrappedPromise!RSNext]_(WrappedPromise!rowVars)
    <3>1. TypeOK /\ Course(r) /\ PerformedOf(r) /\ (Arrive(r) \/ Serve(r))
      BY <2>1, <2>4
      DEF WrapInv, RowsOK, PassedOn, Performed, PerformedOf
    <3>2. Acts(r) BY <3>1, ServeActs
    <3>3. QED
      BY <2>1, <2>2, <2>4, <3>2, WrappedQuietStep, WrappedWriteStep DEF Acts
  <2>5. ASSUME Exit PROVE [WrappedPromise!RSNext]_(WrappedPromise!rowVars)
    <3>1. WrappedPromise!Fail
      BY <2>2, <2>5, ExitFails
      DEF WrappedPromise!Fail, Phases, WAimed, Completed
    <3>2. QED BY <3>1 DEF WrappedPromise!RSNext
  <2>6. ASSUME UNCHANGED vars
        PROVE  [WrappedPromise!RSNext]_(WrappedPromise!rowVars)
    BY <2>2, <2>6
    DEF vars, history, handler, WrappedPromise!rowVars, Phase, WAimed,
        Completed
  <2>7. QED BY <2>1, <2>3, <2>4, <2>5, <2>6, WrapSteps
<1>3. QED
  BY <1>1, <1>2, WrapInvariance, PTL
  DEF WrapSpec, WrappersKeepPromise, WrappedPromise!RSSpec

=============================================================================

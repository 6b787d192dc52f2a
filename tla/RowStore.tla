------------------------------ MODULE RowStore ------------------------------
(***************************************************************************)
(* What registry.Storage and its handlers promise of the stored resources, *)
(* without statements, hooks or local variables (pkg/registry/storage.go). *)
(* Rows are added, replaced and removed by requests; each request acts     *)
(* atomically, at most once unless it deletes a collection, only on rows   *)
(* it addresses and only between its arrival and its answer; and it is     *)
(* answered "ok" only if it did what it was asked.                         *)
(***************************************************************************)
EXTENDS Naturals, Sequences

CONSTANTS Reqs, Aims, InitialRows

VARIABLES
  rows,      \* what was ever stored; live says whether it still counts
  aim,       \* aim[r]: what r asks for
  phase,     \* phase[r]: "idle", "open", then "ok" or "failed"
  effects    \* effects[r]: the rows r acted on

rowVars == <<rows, aim, phase, effects>>

RSInit ==
  /\ rows \in InitialRows
  /\ aim \in [Reqs -> Aims]
  /\ phase = [r \in Reqs |-> "idle"]
  /\ effects = [r \in Reqs |-> {}]

Move(r, p) == phase' = [phase EXCEPT ![r] = p]
Acted(r, i) == effects' = [effects EXCEPT ![r] = @ \cup {i}]

Open(r) ==
  /\ phase[r] = "idle"
  /\ Move(r, "open")
  /\ UNCHANGED <<rows, aim, effects>>

\* A request that is still open acts once; it may fail by the same step,
\* when the error of a statement that was applied is reported.
MayAct(r, verb) ==
  /\ phase[r] = "open"
  /\ aim[r].verb = verb
  /\ phase' = phase \/ Move(r, "failed")
  /\ UNCHANGED aim

Add(r) ==
  /\ MayAct(r, "create")
  /\ effects[r] = {}
  /\ \A i \in DOMAIN rows : rows[i].uid # aim[r].object.uid
  /\ rows' = Append(rows, [gvr |-> aim[r].gvr,
                           namespace |-> aim[r].object.namespace,
                           name |-> aim[r].object.name,
                           uid |-> aim[r].object.uid,
                           raw |-> aim[r].object,
                           live |-> TRUE])
  /\ Acted(r, Len(rows) + 1)

Replace(r, i) ==
  /\ MayAct(r, "update")
  /\ effects[r] = {}
  /\ rows[i].gvr = aim[r].gvr /\ rows[i].name = aim[r].name
  /\ rows' = [rows EXCEPT ![i].raw = aim[r].object, ![i].live = TRUE]
  /\ Acted(r, i)

Discard(r, i) ==
  /\ \/ /\ MayAct(r, "delete")
        /\ effects[r] = {}
        /\ rows[i].name = aim[r].name
     \/ MayAct(r, "deletecollection")
  /\ rows[i].gvr = aim[r].gvr
  /\ rows' = [rows EXCEPT ![i].live = FALSE]
  /\ Acted(r, i)

\* Create, update and delete succeed only when they acted.
Succeed(r) ==
  /\ phase[r] = "open"
  /\ aim[r].verb \in {"create", "update", "delete"} => effects[r] # {}
  /\ Move(r, "ok")
  /\ UNCHANGED <<rows, aim, effects>>

\* Requests fail, a bad one on arrival, several at once when the server exits.
Fail ==
  /\ \E lost \in SUBSET {r \in Reqs : phase[r] \in {"idle", "open"}} :
       phase' = [r \in Reqs |-> IF r \in lost THEN "failed" ELSE phase[r]]
  /\ UNCHANGED <<rows, aim, effects>>

RSNext ==
  \/ \E r \in Reqs :
       \/ Open(r) \/ Add(r) \/ Succeed(r)
       \/ \E i \in DOMAIN rows : Replace(r, i) \/ Discard(r, i)
  \/ Fail

RSSpec == RSInit /\ [][RSNext]_rowVars
=============================================================================

------------------------------ MODULE Wrappers ------------------------------
(***************************************************************************)
(* The storages of pkg/api that wrap the storage of a resource, over the   *)
(* handlers and the DBStorage of ResourceServer: PodStorage, the status    *)
(* subresource of pods over it, and DeploymentStorage.  The wrappers of    *)
(* the other resources pass every call on.                                 *)
(*                                                                         *)
(* A wrapper is a gate in front of the first statement of Create, Update   *)
(* or Delete: passed[r] says that it has called the storage below.  It may *)
(* send a statement of its own before, so two reads with other requests    *)
(* between them decide what is written.                                    *)
(*                                                                         *)
(* The server of this repository registers its resources without their     *)
(* wrappers (see Startup), all but the one below the status of pods; a     *)
(* program that passes a wrapper to ResourceBuilder.Storage has them all.  *)
(***************************************************************************)
EXTENDS ResourceServer

CONSTANTS
  PodResources,         \* the resources served by a PodStorage
  DeploymentResources,  \* those served by a DeploymentStorage
  StatusResources,      \* those with a status subresource
  Containers            \* the lists of containers a submitted pod may have

VARIABLES
  sub,     \* sub[r]: the request is for the status subresource
  spec,    \* spec[r]: the containers of the pod it submits
  passed   \* passed[r]: the wrapper has called the storage below

wrapVars == <<sub, spec, passed>>
allVars == <<vars, wrapVars>>

ASSUME WrappersAssumption ==
  /\ PodResources \cap DeploymentResources = {}
  /\ Containers \subseteq Seq([name : Strings, image : Strings])
  /\ "default" \in Strings

WrapInit ==
  /\ Init
  /\ sub \in [Reqs -> BOOLEAN]
  /\ \A r \in Reqs :
       sub[r] => /\ req[r].gvr \in StatusResources
                 /\ req[r].verb \in {"get", "update"}
  /\ spec \in [Reqs -> Containers]
  /\ passed = [r \in Reqs |-> FALSE]

-----------------------------------------------------------------------------
IsPod(r) == req[r].gvr \in PodResources
IsDeployment(r) == req[r].gvr \in DeploymentResources

\* The calls a wrapper does something about.
Intercepted(r) ==
  \/ IsPod(r) /\ pc[r] \in {"insert", "updateFirst", "deleteFirst"}
  \/ IsDeployment(r) /\ pc[r] = "insert"

Passes(r) == passed' = [passed EXCEPT ![r] = TRUE]

\* A panic ends the request without an answer, as the end of the process does.
Aborts(r) == pc' = [pc EXCEPT ![r] = "lost"] /\ UNCHANGED status

\* Mutant of ValidPod: a name may be used again.
ValidPodAnyNames(cs) ==
  cs # <<>> /\ \A i \in DOMAIN cs : cs[i].name # "" /\ cs[i].image # ""

\* validatePod
ValidPod(cs) ==
  /\ cs # <<>>
  /\ \A i \in DOMAIN cs :
       /\ cs[i].name # ""
       /\ \A j \in 1..(i - 1) : cs[j].name # cs[i].name
       /\ cs[i].image # ""

\* What setPodDefaults and DeploymentStorage.Create do to the object they are
\* given; the defaults they put into its spec are payload.
Defaulted(q) ==
  IF Submitted(q).namespace = "" THEN [q EXCEPT !.body.namespace = "default"]
                                 ELSE q

\* The wrapper calls the Create below with the object it completed.
CreatesDefaulted(r) ==
  /\ req' = [req EXCEPT ![r] = Defaulted(@)]
  /\ Passes(r)
  /\ UNCHANGED <<pc, status>>

\* PodStorage.Create, DeploymentStorage.Create.
WrappedCreate(r) ==
  /\ pc[r] = "insert" /\ Intercepted(r) /\ ~ passed[r]
  /\ \/ IsPod(r) /\ ~ ValidPod(spec[r]) /\ Reply(r, 500)
          /\ UNCHANGED <<req, passed>>
     \/ IsPod(r) /\ ValidPod(spec[r]) /\ CreatesDefaulted(r)
     \/ IsDeployment(r) /\ CreatesDefaulted(r)
  /\ UNCHANGED <<table, handler, history, sub, spec>>

\* Mutant of AssertOldPod: an object of another type is let through.
AssertOldPodOk(r) == Passes(r) /\ UNCHANGED <<pc, status>>

\* oldObj.(*corev1.Pod) of what DBStorage.Get returned, which is partial
\* metadata whatever the resource.
AssertOldPod(r) == Aborts(r) /\ UNCHANGED passed

\* PodStorage.Update up to the Update of the storage below.
PodUpdate(r) ==
  /\ pc[r] = "updateFirst" /\ Intercepted(r) /\ ~ passed[r]
  /\ \/ ConditionParses /\ Candidates(req[r]) # {} /\ AssertOldPod(r)
     \/ /\ Candidates(req[r]) = {} \/ LookupRefused
        /\ Reply(r, 500)
        /\ UNCHANGED passed
  /\ UNCHANGED <<table, req, handler, history, sub, spec>>

\* PodStorage.Delete up to the Delete of the storage below, which it calls
\* at once for what is not a Pod.
PodDelete(r) ==
  /\ pc[r] = "deleteFirst" /\ Intercepted(r) /\ ~ passed[r]
  /\ \/ /\ ConditionParses /\ Candidates(req[r]) # {}
        /\ Passes(r)
        /\ UNCHANGED <<pc, status>>
     \/ /\ Candidates(req[r]) = {} \/ LookupRefused
        /\ Reply(r, 500)
        /\ UNCHANGED passed
  /\ UNCHANGED <<table, req, handler, history, sub, spec>>

\* handleSubresourceGet and handleSubresourceUpdate start: no hooks.
ArriveStatus(r) ==
  /\ sub[r] /\ pc[r] = "new"
  /\ \/ Undecodable(req[r]) /\ Reply(r, 400)
     \/ ~ Undecodable(req[r]) /\ Goto(r, "get")
  /\ UNCHANGED <<table, req, handler, history, wrapVars>>

\* PodStatusStorage.Get and Update: the Get of the parent, PodStorage's, hands
\* on what DBStorage returned or the error, and what DBStorage returns is
\* never the Pod both expect.  Either way the answer is 500.
StatusCall(r) ==
  /\ sub[r] /\ pc[r] = "get"
  /\ Reply(r, 500)
  /\ UNCHANGED <<table, req, handler, history, wrapVars>>

\* A call the wrapper has passed on, or does not care about.
Below(r) ==
  /\ ~ sub[r]
  /\ Intercepted(r) => passed[r]
  /\ Serve(r)
  /\ UNCHANGED wrapVars

WrapServe(r) ==
  \/ WrappedCreate(r) \/ PodUpdate(r) \/ PodDelete(r)
  \/ StatusCall(r) \/ Below(r)

WrapNext ==
  \/ \E r \in Reqs :
       \/ ~ sub[r] /\ Arrive(r) /\ UNCHANGED wrapVars
       \/ ArriveStatus(r)
       \/ WrapServe(r)
  \/ Exit /\ UNCHANGED wrapVars

\* Goroutines run, as in ResourceServer.
WrapSpec ==
  /\ WrapInit /\ [][WrapNext]_allVars
  /\ \A r \in Reqs : WF_allVars(WrapServe(r))

-----------------------------------------------------------------------------
(***************************************************************************)
(* Properties.                                                             *)
(***************************************************************************)

\* Every pod that a request created through a PodStorage has containers with
\* an image each and names of their own, and lies in a namespace, though the
\* row is written by a later statement than the one that was checked.
CreatedPodsComplete ==
  \A r \in Reqs : \A i \in wrote[r] :
    req[r].verb = "create" /\ IsPod(r) =>
      LET names == {spec[r][k].name : k \in DOMAIN spec[r]} IN
      /\ names # {} /\ "" \notin names
      /\ Cardinality(names) = Len(spec[r])
      /\ \A k \in DOMAIN spec[r] : spec[r][k].image # ""
      /\ table[i].namespace # ""

\* A started request is answered, panics, or the process exits.
WrappedAnswered ==
  \A r \in Reqs : InFlight(r) ~> pc[r] \in {"done", "lost"}

\* Wrapped or not, the storages keep what RowStore promises, where a create
\* promises to store the object with its defaults.  A panic is a failure that
\* has no effect; a delete that a wrapper looked up twice acts once.
WrappedPromise == INSTANCE RowStore WITH
  Aims <- {Aim(q) : q \in Menu} \cup {Aim(Defaulted(q)) : q \in Menu},
  InitialRows <- {AbstractTable(t) : t \in Tables},
  rows <- AbstractTable(table),
  aim <- [r \in Reqs |->
            Aim(IF req[r].verb = "create" /\ (IsPod(r) \/ IsDeployment(r))
                THEN Defaulted(req[r]) ELSE req[r])],
  phase <- [r \in Reqs |-> Phase(r)],
  effects <- wrote
WrappersKeepPromise == WrappedPromise!RSSpec

(***************************************************************************)
(* Why they hold: the inductive invariant.                                 *)
(***************************************************************************)

\* A request for a status gets no further than the parent's Get.
StatusCourse(r) ==
  sub[r] => /\ pc[r] \in {"new", "get", "done", "lost"}
            /\ pc[r] = "done" => status[r] \in {400, 500}
            /\ wrote[r] = {}

\* What a wrapper has let a create pass on has a namespace.  A pod is stored
\* only behind the checks of its wrapper, and what they let through is still
\* what is stored.  No update of a pod is let through, though one should be:
\* see StoredPodServed.
GateOK(r) ==
  ~ sub[r] =>
    /\ req[r].verb = "create" /\ passed[r] => Submitted(req[r]).namespace # ""
    /\ IsPod(r) =>
         /\ pc[r] \notin {"save", "postUpdate"}
         /\ passed[r] => req[r].verb \in {"create", "delete"}
         /\ req[r].verb = "create" => /\ wrote[r] # {} => passed[r]
                                      /\ passed[r] => ValidPod(spec[r])

\* The object is complete before its row is written, so the row has the
\* namespace the request has in the end.
CreatedWhereSubmitted ==
  \A r \in Reqs : \A i \in wrote[r] :
    req[r].verb = "create" =>
      i \in DOMAIN table /\ table[i].namespace = Submitted(req[r]).namespace

\* What an update is about to save is what it submitted.
SubmittedHeld ==
  \A r \in Reqs : pc[r] = "save" =>
    record[r].raw = Submitted(req[r]) /\ ~ record[r].deleted

\* The gates leave the table and the records in hand alone, and a request
\* that is not for a status takes the course of its verb: ResourceServer's
\* argument about rows carries over.  A status update at "get" is on no
\* course of an update, so its whole Inv does not.
WrapInv ==
  /\ RowsOK
  /\ sub \in [Reqs -> BOOLEAN] /\ passed \in [Reqs -> BOOLEAN]
  /\ spec \in [Reqs -> Containers]
  /\ \A r \in Reqs : StatusCourse(r) /\ (~ sub[r] => Course(r)) /\ GateOK(r)
  /\ Performed
  /\ SubmittedHeld
  /\ CreatedWhereSubmitted

(***************************************************************************)
(* What documents say and the code does not do.                            *)
(***************************************************************************)

\* "Get retrieves the pod status.", "Update updates the pod status."
\* (pkg/api/corev1/pod_status.go:32, 63), and a pod itself can be put
\* (docs/ARCHITECTURE.md:516): when no statement fails, a
\* stored pod can be updated, and its status be read and updated: its wrapper
\* neither refuses the request nor panics.
StoredPodServed ==
  [][\A r \in Reqs :
       /\ StatusCall(r) \/ PodUpdate(r)
       /\ Candidates(req[r]) # {} /\ Faults = {}
       => pc'[r] # "lost" /\ status'[r] \notin {404, 500}]_allVars
=============================================================================

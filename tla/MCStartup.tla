------------------------------ MODULE MCStartup ------------------------------
(***************************************************************************)
(* The definitions of the repository, and requests on them.                *)
(***************************************************************************)
EXTENDS Startup

\* NewResourceBuilder's default, which no registrar changes.
DefaultVerbs == {"get", "list", "create", "update", "delete"}

Def(group, resource, namespaced, wrapped, subs) ==
  [group |-> group, resource |-> resource, namespaced |-> namespaced,
   wrapped |-> wrapped, verbs |-> DefaultVerbs, subs |-> subs]

\* corev1, appsv1 and batchv1, then the resource main registers itself, and a
\* last one that stands for what docs/ARCHITECTURE.md invites others to add:
\* cluster-scoped, with the verbs no registrar of the repository asks for.
MCBoot == <<
  Def("v1", "pods", TRUE, TRUE, {"status"}),
  Def("v1", "services", TRUE, TRUE, {}),
  Def("v1", "configmaps", TRUE, TRUE, {}),
  Def("v1", "secrets", TRUE, TRUE, {}),
  Def("v1", "namespaces", FALSE, TRUE, {}),
  Def("v1", "nodes", FALSE, TRUE, {}),
  Def("apps/v1", "deployments", TRUE, TRUE, {}),
  Def("apps/v1", "replicasets", TRUE, TRUE, {}),
  Def("batch/v1", "jobs", TRUE, TRUE, {}),
  Def("example.com/v1", "myresources", TRUE, FALSE, {}),
  [Def("example.com/v1", "widgets", FALSE, TRUE, {"status", "log"}) EXCEPT
     !.verbs = DefaultVerbs \cup {"patch", "deletecollection"}] >>

Tokens == {"namespaces", "pods", "widgets", "status", "x"}
Paths(n) == UNION {[1..k -> Tokens] : k \in 0..n}

\* Every request of up to five tokens, some of which are called like a
\* resource or a subresource, on a core group, one without pods, one with
\* cluster-scoped widgets, and the discovery path.
MCRequests ==
  [group : {"v1", "batch/v1", "example.com/v1", "apis"},
   method : {"GET", "PUT", "DELETE"},
   tokens : {p \in Paths(5) :
               Len(p) > 0 => p[1] \in {"namespaces", "pods", "widgets"}}]

FewRequests ==
  [group : {"v1", "batch/v1", "apis"}, method : {"GET", "PATCH"},
   tokens : {<<>>, <<"nodes">>, <<"nodes", "x">>, <<"namespaces", "x", "pods">>,
             <<"namespaces", "x", "jobs">>, <<"namespaces", "x", "events">>}]
=============================================================================

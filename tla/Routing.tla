------------------------------ MODULE Routing ------------------------------
(***************************************************************************)
(* pkg/router/router.go: the routes installed for the resources of the     *)
(* registry, and the handler go-restful's CurlyRouter picks for a request. *)
(* A path is the sequence of its tokens below the root of the web service  *)
(* of its group version ("/api/v1", "/apis/apps/v1", ...).                 *)
(***************************************************************************)
EXTENDS Naturals, Sequences, FiniteSets

Namespace == "{namespace}"
Name == "{name}"
Parameters == {Namespace, Name}

\* basePath and itemPath of a resource, by scope.
BasePath(info) ==
  IF info.namespaced THEN <<"namespaces", Namespace, info.resource>>
                     ELSE <<info.resource>>
ItemPath(info) == Append(BasePath(info), Name)
SubresourcePath(info, sub) == Append(ItemPath(info), sub)

Route(method, path, handler, info) ==
  [method |-> method, path |-> path, handler |-> handler,
   resource |-> info.resource]

\* installNamespacedRoutes and installClusterScopedRoutes: a route for each
\* verb of the resource; only namespaced resources have a watch route.
VerbRoutes(info) ==
  LET On(verb, method, path) ==
        IF verb \in info.verbs THEN {Route(method, path, verb, info)} ELSE {}
  IN  On("list", "GET", BasePath(info))
      \cup On("create", "POST", BasePath(info))
      \cup On("deletecollection", "DELETE", BasePath(info))
      \cup On("get", "GET", ItemPath(info))
      \cup On("update", "PUT", ItemPath(info))
      \cup On("patch", "PATCH", ItemPath(info))
      \cup On("delete", "DELETE", ItemPath(info))
      \cup IF info.namespaced THEN On("watch", "GET", BasePath(info)) ELSE {}

\* installSubresourceRoutes.  subs holds [name, verbs] records.
SubresourceMethods ==
  {<<"get", "GET">>, <<"update", "PUT">>, <<"patch", "PATCH">>}
SubresourceRoutes(info) ==
  UNION {{Route(m[2], SubresourcePath(info, sub.name),
                sub.name \o "/" \o m[1], info) :
            m \in {v \in SubresourceMethods : v[1] \in sub.verbs}} :
         sub \in info.subs}

\* Mutant of InstalledRoutes: the subresources are left out.
VerbRoutesOnly(infos, group) ==
  UNION {VerbRoutes(i) : i \in {i \in infos : i.group = group}}

\* Install, for the resources getResourcesForGroup finds.
InstalledRoutes(infos, group) ==
  UNION {VerbRoutes(i) \cup SubresourceRoutes(i) :
           i \in {i \in infos : i.group = group}}

-----------------------------------------------------------------------------
(***************************************************************************)
(* CurlyRouter (a library).                                                *)
(***************************************************************************)
Matches(template, tokens) ==
  /\ Len(template) = Len(tokens)
  /\ \A k \in DOMAIN template :
       template[k] \in Parameters \/ template[k] = tokens[k]

StaticTokens(template) ==
  Cardinality({k \in DOMAIN template : template[k] \notin Parameters})

\* The candidates for a request: of the routes of its path and method, those
\* with the most static tokens.
Candidates(routes, method, tokens) ==
  LET hits == {r \in routes : r.method = method /\ Matches(r.path, tokens)}
  IN  {r \in hits : \A s \in hits :
         StaticTokens(s.path) <= StaticTokens(r.path)}

PathKnown(routes, tokens) == \E r \in routes : Matches(r.path, tokens)
=============================================================================

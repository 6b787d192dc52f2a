------------------------------ MODULE Startup ------------------------------
(***************************************************************************)
(* The start of the server: cmd/server/main.go, the registrars of pkg/api, *)
(* pkg/registry/registry.go and the routes set up by pkg/server/server.go. *)
(* main registers one definition after another; a registrar that wraps a   *)
(* storage builds the definition first, puts the wrapper into the built    *)
(* ResourceInfo, and registers the builder, which builds it again.  The    *)
(* registry hands its resources to the server in the order of a Go map,    *)
(* which is any order.  Once routes are set up, requests are dispatched    *)
(* until the listener fails or a signal cancels the context of Run.        *)
(*                                                                         *)
(* A *ResourceInfo is shared by pointer between its builder, the two maps  *)
(* of the registry and the routes: info is that heap, indexed by the GVR   *)
(* of the definition; the maps hold GVRs.                                  *)
(***************************************************************************)
EXTENDS Routing

CONSTANTS
  Boot,      \* the definitions, in the order main registers them
  Requests   \* what clients may ask: [group, method, tokens]

VARIABLES
  stage,            \* what main does next
  next,             \* the definition it registers
  instances,        \* the GVR of each storage the factory made, in order
  builder,          \* the builder of that definition: its storage, its subs
  info,             \* the ResourceInfo of each GVR
  resources,        \* ResourceRegistry.resources: the GVRs registered
  subresources,     \* ResourceRegistry.subresources: <<GVR, name>>
  groups,           \* ResourceRegistry.groups: the GVRs of each group version
  pending,          \* the infos main's loop has yet to RegisterResource
  storageRegistry,  \* ContainerServer.storageRegistry
  signal,           \* "none", "sent", "taken" by the goroutine that cancels
  listener,         \* ListenAndServe: "off", "up", "failed"
  code,             \* how the process ended: "0", "1", "killed", "" before
  answer            \* the request last dispatched and where it went

registry == <<resources, subresources, groups>>
life == <<signal, listener, code>>
server == <<instances, info, registry, storageRegistry>>
vars == <<stage, next, builder, pending, server, life, answer>>

\* A definition: types.APIResource, and the builder main writes itself.
\* wrapped says it has a StorageWrapper, subs lists its subresources.
Definitions == {Boot[k] : k \in DOMAIN Boot}
GVR(d) == <<d.group, d.resource>>
GVRs == {GVR(d) : d \in Definitions}
Groups == {d.group : d \in Definitions}
Definition(gvr) == CHOOSE d \in Definitions : GVR(d) = gvr
Current == Boot[next]

\* main registers a definition at least, and each resource once.
ASSUME BootAssumption ==
  /\ Boot \in Seq(Definitions) /\ Boot # <<>>
  /\ \A j, k \in DOMAIN Boot : GVR(Boot[j]) = GVR(Boot[k]) => j = k

\* What keeps the routes of definitions apart, as those of the repository do:
\* no name is that of a path parameter; no namespaced resource has both a
\* list and a watch, two routes of one path and method; and no subresource of
\* a cluster-scoped "namespaces" has the name of a namespaced resource.
ASSUME RoutesAssumption ==
  \A d \in Definitions :
    /\ d.namespaced \in BOOLEAN
    /\ d.resource \notin Parameters /\ d.subs \cap Parameters = {}
    /\ d.namespaced => ~ ({"list", "watch"} \subseteq d.verbs)
    /\ d.resource = "namespaces" /\ ~ d.namespaced =>
         \A e \in Definitions :
           e.namespaced /\ e.group = d.group => e.resource \notin d.subs

\* A storage: instance n of the factory, bare or inside its wrapper.
NoStorage == [instance |-> 0, wrapped |-> FALSE]
Bare(n) == [instance |-> n, wrapped |-> FALSE]
Wrapped(s) == [s EXCEPT !.wrapped = TRUE]

NoInfo == [storage |-> NoStorage, subs |-> {}]
NewBuilder == [storage |-> NoStorage, subs |-> {}]
NoAnswer == [request |-> <<>>, outcome |-> "none", resource |-> ""]

Init ==
  /\ stage = "create"
  /\ next = 1
  /\ instances = <<>>
  /\ builder = NewBuilder
  /\ info = [g \in GVRs |-> NoInfo]
  /\ resources = {}
  /\ subresources = {}
  /\ groups = [g \in Groups |-> <<>>]
  /\ pending = {}
  /\ storageRegistry = [g \in GVRs |-> NoStorage]
  /\ signal = "none"
  /\ listener = "off"
  /\ code = ""
  /\ answer = NoAnswer

\* Where main goes on, or gives up: os.Exit(1).
GoOn(to) == stage' = to /\ UNCHANGED code
Abort == stage' = "exited" /\ code' = "1"

\* NewContainerServer: the REST configuration and the transport.
NewContainerServer ==
  /\ stage = "create"
  /\ GoOn("connect") \/ Abort
  /\ UNCHANGED <<next, builder, pending, server, signal, listener, answer>>

\* gorm.Open; without a DSN nothing is registered and the server starts with
\* the empty registry it was created with.
Connect ==
  /\ stage = "connect"
  /\ GoOn("build") \/ GoOn("serving") \/ Abort
  /\ UNCHANGED <<next, builder, pending, server, signal, listener, answer>>

\* Mutant of Cached: the factory is asked on every Build.
NeverCached(s) == NoStorage
\* The builder's storage, kept between its Builds.
Cached(s) == s

\* ResourceBuilder.Build: a storage is made unless the builder has one, and
\* the info takes the builder's storage and subresources.
Build ==
  LET kept == Cached(builder.storage)
      fresh == kept = NoStorage
      storage == IF fresh THEN Bare(Len(instances) + 1) ELSE kept
  IN  /\ instances' = IF fresh THEN Append(instances, GVR(Current))
                               ELSE instances
      /\ builder' = [builder EXCEPT !.storage = storage]
      /\ info' = [info EXCEPT ![GVR(Current)] =
                    [storage |-> storage, subs |-> @.subs \cup builder.subs]]

\* The factory returns an error, as its interface allows although main's own
\* never does: only where Build calls it.
FactoryFails == Cached(builder.storage) = NoStorage /\ Abort

\* The registrar builds a definition with a wrapper ahead of registering it.
BuildFirst ==
  /\ stage = "build"
  /\ Current.wrapped
  /\ \/ Build /\ GoOn("wrap")
     \/ FactoryFails /\ UNCHANGED <<instances, builder, info>>
  /\ UNCHANGED <<next, registry, pending, storageRegistry, signal, listener,
                 answer>>

\* It wraps the storage of the info; the one of core/v1, whose pods alone have
\* subresources, also gives the builder those it knows, "status", with a
\* storage over the wrapped one.
Wrap ==
  /\ stage = "wrap"
  /\ LET g == GVR(Current)
         storage == Wrapped(info[g].storage)
     IN  /\ info' = [info EXCEPT ![g].storage = storage]
         /\ builder' = [builder EXCEPT !.subs =
              {[name |-> s, over |-> storage] :
                 s \in Current.subs \cap {"status"}}]
  /\ GoOn("register")
  /\ UNCHANGED <<next, instances, registry, pending, storageRegistry, signal,
                 listener, answer>>

\* Mutant of Listed: the group starts afresh with each resource.
ListedAlone(list, g) == <<g>>
\* A resource enters the list of its group version.
Listed(list, g) == Append(list, g)

\* ResourceRegistry.Register: builds, then enters the info into the maps.
Register ==
  /\ \/ stage = "register"
     \/ stage = "build" /\ ~ Current.wrapped
  /\ \/ /\ Build
        /\ LET g == GVR(Current) IN
           /\ resources' = resources \cup {g}
           /\ subresources' =
                subresources \cup {<<g, s.name>> : s \in info'[g].subs}
           /\ groups' = [groups EXCEPT ![Current.group] = Listed(@, g)]
        /\ GoOn("next")
     \/ FactoryFails /\ UNCHANGED <<instances, builder, info, registry>>
  /\ UNCHANGED <<next, pending, storageRegistry, signal, listener, answer>>

\* Mutants of More: the last definition is missed; one past it is looked for.
MoreButOne(k) == k < Len(Boot) - 1
MoreThanAll(k) == k <= Len(Boot)
More(k) == k < Len(Boot)

\* The loops of the registrars, of RegisterAll and of main go on.
NextDefinition ==
  /\ stage = "next"
  /\ IF More(next)
     THEN next' = next + 1 /\ GoOn("build") /\ UNCHANGED pending
     ELSE pending' = resources /\ GoOn("install") /\ UNCHANGED next
  /\ builder' = NewBuilder
  /\ UNCHANGED <<server, signal, listener, answer>>

\* for _, info := range ListResources() { srv.RegisterResource(...) }
RegisterResource ==
  /\ stage = "install"
  /\ \E g \in pending :
       /\ storageRegistry' = [storageRegistry EXCEPT ![g] = info[g].storage]
       /\ pending' = pending \ {g}
  /\ UNCHANGED <<stage, next, instances, builder, info, registry, life, answer>>

\* SetResourceRegistry; then main adds filters and a hook, asks to be notified
\* of signals and calls Run, whose setupRoutes reads the registry.
SetResourceRegistry ==
  /\ stage = "install"
  /\ pending = {}
  /\ storageRegistry' =
       [g \in GVRs |-> IF g \in resources THEN info[g].storage
                                          ELSE storageRegistry[g]]
  /\ GoOn("serving")
  /\ UNCHANGED <<next, instances, builder, info, registry, pending, signal,
                 listener, answer>>

-----------------------------------------------------------------------------
(***************************************************************************)
(* Run.  Three goroutines meet in its select: the listener, the one that   *)
(* waits for a signal, and main.  Nothing is shut down: the process ends   *)
(* with whatever requests it serves (Exit of ResourceServer).              *)
(***************************************************************************)

\* What answer says is forgotten by the next step.
Forget == answer' = NoAnswer

\* The goroutine of Run: ListenAndServe binds the port or fails, and fails
\* later if accepting does; the error goes into errChan, which has room.
ListenAndServe ==
  /\ stage = "serving"
  /\ \/ listener = "off" /\ listener' \in {"up", "failed"}
     \/ listener = "up" /\ listener' = "failed"
  /\ Forget
  /\ UNCHANGED <<stage, next, builder, pending, server, signal, code>>

\* SIGINT or SIGTERM: before signal.Notify it kills the process.
Signal ==
  /\ stage # "exited" /\ signal = "none"
  /\ signal' = "sent"
  /\ IF stage = "serving" THEN UNCHANGED <<stage, code>>
                          ELSE stage' = "exited" /\ code' = "killed"
  /\ Forget
  /\ UNCHANGED <<next, builder, pending, server, listener>>

\* The goroutine of main takes the signal and cancels the context.
Cancel ==
  /\ stage = "serving" /\ signal = "sent"
  /\ signal' = "taken"
  /\ Forget
  /\ UNCHANGED <<stage, next, builder, pending, server, listener, code>>

\* Mutant of Ready: Run waits for its context only.
ReadyContextOnly == IF signal = "taken" THEN {"context"} ELSE {}

\* The cases of the select that can be taken; if both can, either is.
Ready ==
  {c \in {"context", "errChan"} :
     IF c = "context" THEN signal = "taken" ELSE listener = "failed"}

\* Mutant of ExitCode: every error of Run counts.
ExitCodeAny(cause) == "1"

\* main treats context.Canceled as the end it asked for.
ExitCode(cause) == IF cause = "context" THEN "0" ELSE "1"

\* Run returns, and main after it.
RunReturns ==
  /\ stage = "serving"
  /\ \E cause \in Ready : code' = ExitCode(cause)
  /\ stage' = "exited"
  /\ Forget
  /\ UNCHANGED <<next, builder, pending, server, signal, listener>>

-----------------------------------------------------------------------------
(***************************************************************************)
(* Dispatching.                                                            *)
(***************************************************************************)
\* What setupRoutes sees of the registry.
Served ==
  {[group |-> g[1], resource |-> g[2],
    namespaced |-> Definition(g).namespaced, verbs |-> Definition(g).verbs,
    subs |-> {[name |-> s.name, verbs |-> {"get", "update"}] :
                s \in info[g].subs}] : g \in resources}

\* InstallAll makes a web service of each group version of the registry.
Services == {d.group : d \in {Definition(g) : g \in resources}}

Outcome(request, outcome, resource) ==
  answer' = [request |-> request, outcome |-> outcome, resource |-> resource]

\* The document InstallAPIGroupsHandler serves.
Discovers(q) == q.group = "apis" /\ q.tokens = <<>> /\ q.method = "GET"

\* The router finds the web service, then the route; /apis is the discovery
\* document, and there is no route for anything else.  Dispatching leaves the
\* server as it is, so one request per behaviour tells all.
Dispatch ==
  /\ stage = "serving" /\ listener = "up"
  /\ answer = NoAnswer
  /\ \E q \in Requests :
       LET routes == InstalledRoutes(Served, q.group) IN
       \/ /\ q.group \notin Services
          /\ IF Discovers(q)
             THEN Outcome(q, "discovery", "")
             ELSE Outcome(q, "notFound", "")
       \/ /\ q.group \in Services
          /\ ~ PathKnown(routes, q.tokens)
          /\ Outcome(q, "notFound", "")
       \/ /\ q.group \in Services
          /\ PathKnown(routes, q.tokens)
          /\ Candidates(routes, q.method, q.tokens) = {}
          /\ Outcome(q, "methodNotAllowed", "")
       \/ /\ q.group \in Services
          /\ \E r \in Candidates(routes, q.method, q.tokens) :
               Outcome(q, r.handler, r.resource)
  /\ UNCHANGED <<stage, next, builder, pending, server, life>>

Boots ==
  \/ NewContainerServer \/ Connect \/ BuildFirst \/ Wrap \/ Register \/ NextDefinition
  \/ RegisterResource \/ SetResourceRegistry

Next ==
  \/ Boots \/ RunReturns \/ ListenAndServe \/ Cancel
  \/ Signal \/ Dispatch

Spec == Init /\ [][Next]_vars

\* The three goroutines run when they can; the port is free or not, but
\* ListenAndServe answers nothing else until it fails, and nobody is obliged
\* to send a signal or a request.
FairSpec ==
  /\ Spec
  /\ WF_vars(Boots) /\ WF_vars(RunReturns) /\ WF_vars(Cancel)

-----------------------------------------------------------------------------
(***************************************************************************)
(* Properties.                                                             *)
(***************************************************************************)
Storages == [instance : Nat, wrapped : BOOLEAN]
SubNames == UNION {d.subs : d \in Definitions}
Subresources == [name : SubNames, over : Storages]
Infos == [storage : Storages, subs : SUBSET Subresources]

\* Types of the variables.
TypeOK ==
  /\ stage \in {"create", "connect", "build", "wrap", "register", "next", "install",
                "serving", "exited"}
  /\ next \in DOMAIN Boot
  /\ instances \in Seq(GVRs)
  /\ builder \in Infos
  /\ info \in [GVRs -> Infos]
  /\ resources \subseteq GVRs /\ pending \subseteq GVRs
  /\ subresources \subseteq GVRs \X SubNames
  /\ groups \in [Groups -> Seq(GVRs)]
  /\ storageRegistry \in [GVRs -> Storages]
  /\ signal \in {"none", "sent", "taken"}
  /\ listener \in {"off", "up", "failed"}
  /\ code \in {"", "0", "1", "killed"}

\* The two maps of the registry agree in every state of the start: each
\* registered resource is listed exactly once by its group and by no other,
\* and the subresource map holds the subresources of the registered infos.
RegistryCoherent ==
  /\ \A gv \in Groups :
       /\ {groups[gv][k] : k \in DOMAIN groups[gv]}
            = {g \in resources : g[1] = gv}
       /\ Len(groups[gv]) = Cardinality({g \in resources : g[1] = gv})
  /\ subresources =
       UNION {{<<g, s.name>> : s \in info[g].subs} : g \in resources}

\* However often a definition is built, the factory makes one storage for it:
\* a registered resource is served by the only instance made for its GVR, and
\* its subresources read and write through that same instance.
OneStorageEach ==
  \A g \in resources :
    LET n == info[g].storage.instance IN
    /\ {k \in DOMAIN instances : instances[k] = g} = {n}
    /\ \A s \in info[g].subs : s.over.instance = n

\* The server serves every definition or, without a database, none; the
\* server's own map holds for each resource the storage its routes use.
ServesAllOrNothing ==
  stage = "serving" =>
    /\ resources = IF instances = <<>> THEN {} ELSE GVRs
    /\ \A g \in resources : storageRegistry[g] = info[g].storage
                            /\ storageRegistry[g] # NoStorage

\* The exit code tells why the server stopped serving: 0 only after a signal
\* was taken, 1 only if something failed, and no process that somebody asked
\* to stop and whose listener is well ends with 1.
ExitTellsWhy ==
  stage = "exited" =>
    /\ code = "0" => signal = "taken"
    /\ code = "1" /\ listener # "off" => listener = "failed"
    /\ signal = "taken" /\ listener # "failed" => code = "0"

\* The start ends in a server or an exit, and the server does not outlive a
\* signal or the loss of its listener, whichever of them comes first.
ComesToAnEnd ==
  /\ <>(stage \in {"serving", "exited"})
  /\ (signal # "none" \/ listener = "failed") ~> stage = "exited"

\* The paths of the Kubernetes API, spelled out apart from the router's.
Collection(i, ns) ==
  IF i.namespaced THEN <<"namespaces", ns, i.resource>> ELSE <<i.resource>>
CollectionVerbs == [list |-> "GET", create |-> "POST",
                    deletecollection |-> "DELETE"]
ItemVerbs == [get |-> "GET", update |-> "PUT", patch |-> "PATCH",
              delete |-> "DELETE"]

\* Answer a is right if its request is for the collection of i in namespace
\* ns, for the object called name in it, or for a subresource of that object.
Unshadowed(i, a, ns, name) ==
  LET Asked(method, tokens) ==
        a.request.method = method /\ a.request.tokens = tokens
      Reached(verb) == a.outcome = verb /\ a.resource = i.resource
  IN  /\ \A v \in i.verbs \cap DOMAIN CollectionVerbs :
           Asked(CollectionVerbs[v], Collection(i, ns)) => Reached(v)
      /\ \A v \in i.verbs \cap DOMAIN ItemVerbs :
           Asked(ItemVerbs[v], Append(Collection(i, ns), name)) => Reached(v)
      /\ \A s \in i.subs : \A v \in s.verbs :
           Asked(ItemVerbs[v], Collection(i, ns) \o <<name, s.name>>)
           => Reached(s.name \o "/" \o v)

\* A request on a path of a registered resource reaches the handler of its
\* verb for that resource: no route of another resource, another scope or a
\* subresource shadows it, whatever the namespace and the object are called.
RoutesUnshadowed ==
  answer # NoAnswer =>
    LET tokens == answer.request.tokens
        Words == {tokens[k] : k \in DOMAIN tokens}
    IN  \A i \in Served : i.group = answer.request.group =>
          \A ns, name \in Words : Unshadowed(i, answer, ns, name)

(***************************************************************************)
(* Why they hold: what each stage of the start has done.                   *)
(***************************************************************************)
Booting == {"create", "connect", "build", "wrap", "register", "next"}

\* The instances made for a GVR, and the first n definitions' GVRs.
MadeFor(g) == {k \in DOMAIN instances : instances[k] = g}
Registered(n) == {GVR(Boot[j]) : j \in 1..n}

\* Nothing was made of a definition yet.
Unmade(g) == MadeFor(g) = {} /\ info[g].subs = {}

\* The builder holds the one storage made for the definition, and whatever
\* is over a storage is over that one.
Underway(g) ==
  /\ MadeFor(g) = {builder.storage.instance}
  /\ info[g].storage.instance = builder.storage.instance
  /\ info[g].subs = {}
  /\ \A s \in builder.subs : s.over.instance = builder.storage.instance

StageOK ==
  /\ stage \in {"create", "connect"} => next = 1 /\ instances = <<>>
  /\ stage \in Booting =>
       /\ resources = IF stage = "next" THEN Registered(next)
                                        ELSE Registered(next - 1)
       /\ \A j \in DOMAIN Boot : j > next => Unmade(GVR(Boot[j]))
  /\ stage \in {"create", "connect", "build"} =>
       builder = NewBuilder /\ Unmade(GVR(Current))
  /\ stage \in {"wrap", "register"} => Underway(GVR(Current))
  /\ stage = "install" =>
       /\ resources = GVRs
       /\ \A g \in GVRs \ pending : storageRegistry[g] = info[g].storage

\* The listener is started, and the context cancelled, by Run alone.
RunStartsThem ==
  signal = "taken" \/ listener # "off" => stage \in {"serving", "exited"}

\* Subresources are those the definition lists.
SubsListed ==
  /\ \A g \in GVRs : \A s \in info[g].subs : s.name \in Definition(g).subs
  /\ stage \in {"build", "wrap", "register"} =>
       \A s \in builder.subs : s.name \in Current.subs

\* Requests are dispatched by a server that serves.
ServingAnswers == answer # NoAnswer => stage = "serving"

StartInv ==
  /\ TypeOK /\ StageOK /\ RunStartsThem /\ IsFiniteSet(resources)
  /\ SubsListed /\ ServingAnswers
  /\ RegistryCoherent /\ OneStorageEach /\ ServesAllOrNothing /\ ExitTellsWhy

(***************************************************************************)
(* What documents say and the code does not do.                            *)
(***************************************************************************)

\* "StorageWrapper is an optional function to wrap the storage
\* implementation" (pkg/api/types/types.go:33): a resource defined with one is
\* served by the wrapped storage.
WrapperInstalled ==
  stage = "serving" =>
    \A g \in resources : Definition(g).wrapped => info[g].storage.wrapped

\* "未注册资源代理到 kube-apiserver" (docs/ARCHITECTURE.md:12): a request for
\* a resource nobody registered is proxied.
UnregisteredProxied ==
  /\ answer # NoAnswer
  /\ answer.request.method = "GET"
  /\ Len(answer.request.tokens) = 3
  /\ answer.request.tokens[1] = "namespaces"
  /\ <<answer.request.group, answer.request.tokens[3]>> \notin resources
  => answer.outcome = "proxied"
=============================================================================

# Specifications of apiserver-proxy

TLA+ models of the container server of this repository, the TLC runs that
check them, and TLAPS proofs about all of them. Paths below are relative to the
root of the repository; `src/` stands before them in `PROJECT.json`.

## The system

A request comes in over HTTP, passes the filters, is routed by go-restful to a
handler of its resource, and the handler runs hooks and calls the storage of the
resource, which keeps objects in one SQL table.

| part | code | state | operations |
|---|---|---|---|
| start-up | `cmd/server/main.go`, `pkg/api`, `pkg/registry` | the registry's three maps, the builder of each resource | build, wrap, register, hand over to the server |
| server | `pkg/server/server.go`, `types.go` | `storageRegistry`, `resourceRegistry`, the hook lists, the error channel and context of `Run` | RegisterResource, SetResourceRegistry, AddHook, Execute...Hooks, setupRoutes, Run |
| router | `pkg/router/router.go` | the routes of each web service | Install, InstallAll |
| handlers | `pkg/server/handler.go` | nothing but local variables | list, create, get, update, delete, deletecollection, patch and watch (proxied), subresources |
| storage | `pkg/storage/db_storage.go` | the table `container_resources` | Create, Get, List, Update, Delete, DeleteCollection |
| resource wrappers | `pkg/api/corev1/pod.go`, `pod_status.go`, `pkg/api/appsv1/deployment.go` | nothing | validate, default, read and write the status |
| proxy | `pkg/server/proxy.go` | nothing; the wroteHeader of a response | forward a request, with hooks around it |
| filters | `pkg/middleware` | prometheus metrics, the status each writer captured | audit, metrics, logging around every request |

What is hard in it:

* Requests run concurrently, and no handler holds a lock or opens a
  transaction: an update is a SELECT and, later, a Save of every column; a
  delete by a client is two SELECTs, two rounds of hooks and a DELETE. Anything
  may happen in between.
* Rows are marked deleted and never removed, and the marked rows still occupy
  the unique index on the uid column.
* Names are not unique and lookups have no namespace, so several rows answer to
  a name.
* Statements and hooks fail, a statement can be applied although its error is
  reported, and the process exits without waiting for its requests.
* Start-up works on shared pointers and builds some definitions twice.
* A handler may panic; go-restful does not recover, so a panic runs through
  every filter and only what they deferred is done.
* The upstream may act on a request whose answer is lost, answer before it has
  the whole body, or never answer. The server's 30 seconds for reading a request
  and writing its answer (`server.go:184`) do not end a round trip.
* MySQL, which main opens, reserves the word `group`, and the conditions of all
  lookups name that column without quotes.
* A signal, the loss of the listener and the end of `Run` can come in any order.

What makes each part correct:

* handlers and storage: the table stays consistent; a request writes only rows
  it addresses, and nothing once it was refused; what was acknowledged happened
  and lasts; every request is answered;
* registry and start-up: its maps agree, every resource has one storage, and
  all of them or none are served;
* router: no route hides another;
* proxy: hook rounds pair up around the round trip, at most once; what a client
  is told is what the upstream said, or promises nothing; a client that leaves
  ends its request;
* filters: gauges return to zero, and each finished request is counted, logged
  and audited once with the status the client saw, panics included;
* wrappers: what is stored through them is valid and defaulted, and they add no
  way to break the promise of the storage below;
* stopping: the server ends when it is asked to or cannot go on, and its exit
  code says which.

## Modules

| module | what it is |
|---|---|
| `ResourceTable` | the SQL table and the statements gorm sends, as operators on a sequence of rows (a library, modelled from how `db_storage.go` uses it) |
| `ResourceServer` | the core: the handlers over `DBStorage`, concurrent requests on one table |
| `RowStore` | abstract specification: what `registry.Storage` and its handlers promise, each request acting atomically |
| `Wrappers` | the storages of pods, pod status and deployments over `ResourceServer` |
| `RequestInfo` | what filters and proxy read off a path (pure operators) |
| `Filters` | concurrent requests passing audit, metrics and logging around any endpoint; extends `RequestInfo` |
| `Proxy` | the proxy, its hook middleware and the other endpoints inside `Filters` |
| `Routing` | the routes of a set of resources and CurlyRouter's choice (pure operators) |
| `Startup` | the life of the process: registration, dispatch, stop; extends `Routing` |
| `MCResourceServer`, `MCWrappers`, `MCProxy`, `MCStartup` | values of the constants for TLC |
| `ResourceServer_proofs` | proofs: types, the table and what is in hand |
| `Acknowledged_proofs` | proofs: what was acknowledged, limits; extends `ResourceServer_proofs` |
| `Promise_proofs` | proofs: `ResourceServer` implements `RowStore`; extends `Acknowledged_proofs` |
| `Wrappers_proofs` | proofs about `Wrappers`; extends `Promise_proofs` |
| `Filters_proofs` | proofs: the filters around any endpoint |
| `Proxy_proofs` | proofs: the proxy's endpoints; extends `Filters_proofs` |
| `Routing_proofs` | lemmas: which routes a path leads to |
| `Startup_proofs` | proofs: start, registry, routes, exit; extends `Routing_proofs` |

A composition extends the module it composes with and conjoins the variables of
its own: a step of `Wrappers` or `Proxy` is a step of the module below with the
new variables unchanged, a step of its own, or both at once.

### ResourceServer

`pc[r]` is the call the handler of request `r` makes next. `Arrive` is the
handler up to its first call. `RunPreHooks` and `RunPostHooks` are a round of
`Execute...Hooks`. Each SQL statement is an action: `Insert`, `Get`, `List`,
`UpdateFirst` and `Save` (the two statements of `DBStorage.Update`),
`DeleteFirst` and `Remove` (`DBStorage.Delete`), `CollectionFirst` and
`CollectionRemove` (one turn of the loop of `DBStorage.DeleteCollection`).
`Exit` is the end of the process. `record`, `result` and `items` are the local
variables of the code; `wrote` and `vetoed` are history variables that no action
reads.

Abstractions:

* An object is its name, namespace, uid and resource version; the rest is
  payload. The columns for labels, annotations and times are written together
  with `raw` and never read. A group, version and resource are one value.
* A request is what the code reads of it. Query options that no code reads
  after parsing (`dryRun`, `gracePeriodSeconds`, ...) are left out. The limit of
  a list comes out of a decoded body; the one of a deletecollection goes through
  `parseInt64`, whose digits wrap around at `Modulus` (2^64 in the code), and
  whose upper half is negative, which `List` takes for no limit (`ParsedLimit`).
* A round of hooks fails or not. Hooks are assumed not to change the object
  they are given, as the one main adds does not. A hook that writes the object
  would make `raw` another submitted object.
* The JSON in a row was marshalled by `Create` or `Update` and always parses,
  so the branches for an unmarshalling error are not there.
* The unique index is the one of `ResourceRecord`'s tags. `DBStorage.Init`
  would migrate it, but no code calls it: the table is taken to have been made
  from the model.
* `db_storage.go` writes the column `group` into the conditions of its four
  lookups without quotes (lines 189, 214, 248, 300). It is a reserved word of
  MySQL, the only driver main opens (`main.go:58`), which refuses each of them
  as a syntax error. That is `"reserved"` in `Faults`, with which no lookup
  finds anything (`ConditionParses`), and run `finding_mysql_group` shows what
  becomes of an object that was stored. The other runs leave it out: they show
  what the handlers do on a database that takes the condition, as this one will
  once the word is quoted. The theorems hold with and without it.
* A statement a client abandoned is applied before its request is answered or
  not at all; a statement that the database still executes after the process
  has exited is the same as one executed just before.
* Request bodies are decoded in `Arrive`, and `ReadEntity` decodes the empty
  list options of a GET without a body as undecodable, which means no limit.

`Insert` needs a uid that no row has, marked or not. `Saved` is gorm's Save: an
UPDATE of live rows, and when it finds none an INSERT that turns into an update
of every column on the duplicate key, which clears `deleted_at`.

### Wrappers

A wrapper is a gate in front of the first statement of `Create`, `Update` or
`Delete`: `passed[r]` says whether the wrapper of request `r` has called the
storage below. `WrappedCreate` validates and defaults a pod or defaults a
deployment, replacing the submitted object; `PodUpdate` and `PodDelete` are the
`Get` each sends first, which other requests may invalidate before the statement
below runs. `Below` is every step of `ResourceServer` behind an open gate.
`ArriveStatus` and `StatusCall` are the two subresource handlers with
`PodStatusStorage` below them. The containers of a pod (`spec`) are kept as
names and images, since `validatePod` checks these.

The handler decodes a body into what the storage's `New` makes, which is a pod
behind `PodStorage`; but `DBStorage` returns `*metav1.PartialObjectMetadata` for
every resource. So `Create` gets the pod it asserts, while `PodStorage.Update`
asserts `*corev1.Pod` of the stored object without a check and panics
(`AssertOldPod`), and the status storage checks and answers an error. Both are
defects: pods and their status are meant to be updated. Run `finding_pod_update`
holds the code against what its comments and the routes promise; the other
properties of this module say what the code does as it is, and hold of updates
only in that a request that failed left no trace.

The server as started today serves pods and deployments without their wrappers
(a finding of `Startup`), except below the status subresource. So the status part
is what the program does; the rest is what the wrappers do for a program whose
`ResourceBuilder.Storage` is given one, and what this one would do were the
second `Build` repaired.

### Filters, RequestInfo and Proxy

`depth[r]` is how many filters of the chain request `r` is inside of and
`stage[r]` its direction: down, up after the endpoint returned, or "panic".
`EnterAudit`, `EnterMetrics` and `EnterLogging` are the code before
`ProcessFilter`, `Leave...` the code after it, `Unwind` what a filter deferred,
and `Finish` is net/http. Each filter puts a writer of its own around the
response, and `recorded[r][f]` is the status that writer captured. Labels of the
metrics come from `ParseMetricsRequestPath`, the events from `ParseRequestPath`.

`at[r]` is where the proxy is: `RunPreHooks`, `Forward` (the URL is parsed),
`RoundTripFails` or `RunPostHooks` (RoundTrip returned), `Relay` (status and
headers), `CopyEnds` (the body). `Serves` is the upstream acting on a request it
received, or answering before it has the whole body, at any time until its
answer is read. The `Middleware...` and `Next...` actions
are `ProxyHookMiddleware` around a handler that writes as it likes. `Local` is a
resource handler, abstracted to its answer, and the router's 404. `Leave` is
the client going away.

Abstractions:

* A body is whole, broken (the client stops within it, and reading it reports
  that) or cut (it ends early and nobody is told). Headers and durations are
  left out, and of a log line only the status matters.
* A round of hooks ends well, in an error or in a panic. The proxy treats the
  first two alike, so they are one disjunct. It gives hooks no object, and a
  hook that asserts its type panics.
* A status passes through all writers in one step: one goroutine does it, and
  nobody else sees its writers. Of a second status the writers would keep the
  new one and net/http the old one (`Writes`), so metrics, audit and log would
  be wrong about that request. No endpoint of this repository sends two:
  `Sends` and `Answers` say so in their guards, and what is shown of the filters
  is shown for such endpoints. A handler inside the hook middleware would be
  another program's, and is assumed to keep to it.
* `APIHeads` are the first segments that begin with "api", which is all that
  `proxyRequest` tests of a path (`proxy.go:91`): `/apidocs` is among them.
* The server's read and write timeouts appear as what they do to a request: a
  body that is not read in time breaks off, an answer that cannot be written
  ends the copy (`CopyEnds`), and a connection that is given up cancels the
  context, which is `Leave`. They interrupt no handler that waits for the
  upstream, so nothing is assumed of when they do any of it.
* `proxyRequest` is reached by the patch and watch routes. `proxyCoreRequest`
  and `ProxyHookMiddleware` are mounted on no route today and are modelled as
  a program that mounts them would use them.

### Startup and Routing

`info` is the heap of `ResourceInfo`s, which the builder, the registry's maps and
the routes share by pointer. `BuildFirst`, `Wrap` and `Register` are the steps
of a registrar for one definition; `NextDefinition` is the loops around them;
`RegisterResource` is main's loop over a Go map, in any order;
`SetResourceRegistry` is the call of that name and `setupRoutes`. `Dispatch`
routes one request; it changes nothing but `answer`. The definitions come from
the registrars (`MCBoot`), with a last one that uses the verbs they do not: no
registrar of the repository asks for patch, watch or deletecollection, so these
handlers, and with them `proxyRequest`, are reached only in a program that
defines a resource with such a verb. A subresource's verbs are those of the
pod's status.

`NewContainerServer` and `Connect` are the calls that may end main with exit
code 1, and so may a storage factory. Once serving, three goroutines meet in the
select of `Run`: `ListenAndServe` (the listener comes up, fails, or fails later),
`Cancel` (the goroutine that takes a signal) and `RunReturns`, which takes any
case that is ready. A signal that arrives before `signal.Notify` kills the
process. `answer` is cleared by the steps of the goroutines, so that a request
is dispatched in every state of the server that serves.

## Runs

All configurations say `CHECK_DEADLOCK FALSE`: each request is served once, and
a behaviour in which all have been answered, or the process has exited, ends.

| run | question | bounds | distinct states |
|---|---|---|---|
| `server_races` | creates, reads, updates, deletes and collection deletes on one table | 3 requests out of 9, 7 tables of up to 3 rows, `Modulus` 4 | 1.99 million |
| `server_faults` | every verb with every failure; refinement of `RowStore` | 3 requests out of 10, 4 tables, all faults and vetoes | 546 thousand |
| `wrappers` | the same storage behind the wrappers; answers under fairness | 2 requests out of 10, 3 tables, 2 lists of containers | 97 thousand |
| `gateway` | filters, proxy and middleware with panics, lost and early answers, clients that leave | 2 requests out of 6, 3 chains of filters | 263 thousand |
| `startup` | registration, every request of up to 5 tokens, the stop | 11 definitions, 4 groups, 3 methods | 173 thousand |
| `finding_*` | seven statements of comments and documents that fail | | |

Why these bounds are enough: the races of the code are between the statements
of one request and one write of another, which takes two requests; a third one
gives them a delete or a create to disagree about, or repeats the first. Names
are "a" and "b", so that two rows share a name, in one namespace and in two, and
a rename collides. A table with a deleted row, and rows of another resource with
the same name, cover what the conditions of the lookups must tell apart.
Requests are interchangeable until they arrive, so `Reqs` is a symmetry set in
the runs of `ResourceServer`, which check safety only.

With `Modulus` 4 an int64 holds 0 and 1, and -2 and -1: a limit of 1 is kept, 2
wraps into a negative one, and 5 comes back as 1. That is one number of each
kind `parseInt64` can meet.

A wrapper's extra read races one other write, so two requests do. In `gateway`
requests share the metrics and nothing else: two of one label set or of two show
every interference there is. The three chains are main's own, one with an
auditor (main passes none) and the filters the other way round, and one with two
filters switched off and no transport.

What they show:

* `StoreConsistent`, `IdentityStable`: a Save writes a whole row that was read
  earlier; keys, uids, the version column and what the row is survive it.
* `WritesAddressed`: a request writes rows of its resource and name, although
  the handler and the storage each look the name up.
* `AckedWritesPersist`, `AckedRemovalsHold`: what was answered as done is in the
  table. The removal property has the exception the code needs: an update may
  bring a row back. The finding `finding_delete_resurrected` is that exception.
* `RejectedHasNoEffect`: 400, 404, a veto and reads leave no trace.
* `GetByVersionExact`: the version column and the stored object do not drift.
* `KeepsPromise`: the handlers implement `RowStore`: every request acts once, on
  a row it addresses, while it is open, and succeeds only if it acted.
* `LimitHonoured`: a collection delete with a limit that fits removes no more
  than that, although it looks each row up again by a name.
* `CreatedPodsComplete`: what a pod wrapper checked is what is stored, in a later
  statement. `WrappersKeepPromise`: the wrapped storages still implement
  `RowStore`, the double and triple lookups of a delete included.
* `WrappedAnswered`: no request waits for another, and the loop of a collection
  delete ends, wrapped or not.
* `GaugeExact`, `CountedAsAnswered`, `ReportedAsAnswered`: metrics, audit and log
  agree with what clients saw, for any order of filters, and with requests that
  panic. A panicked request is in neither the counters nor the audit trail.
* `HooksBracket`, `AnswerJustified`: rounds of hooks pair up around one round
  trip; a client hears the upstream's answer, or 500 for what was never sent, or
  502, after which nothing is known.
* `ForwardedWhole`: the upstream mistakes half a body for a whole one only where
  the audit filter read it and dropped the error.
* `GoneEnds`: a client that leaves ends its request, watches included.
* `RegistryCoherent`, `OneStorageEach`, `ServesAllOrNothing`, `RoutesUnshadowed`:
  registration leaves the maps in agreement, one storage for each resource, all
  resources or none, and no route behind another.
* `ExitTellsWhy`, `ComesToAnEnd`: a signal or a lost listener ends the process,
  and the exit code tells which, also when both happen.

Fairness:

* `WrapSpec`: weak fairness of `WrapServe(r)` for every request. A goroutine
  runs when it can, because Go's scheduler is preemptive; a statement or a hook
  is assumed to return. No request has to arrive, the process need not exit.
* `Proxy`: weak fairness of passing filters and of the proxy's own steps. A round
  trip, the copy of a body and a wrapped handler may last for ever; they are fair
  only once the request's context is cancelled (`Cancelled`). The transport gets
  the context and no timeout of its own, and the timeouts of `http.Server` bound
  the reading of the request and the writing of the answer, not the handler
  between them, which is why no more is assumed.
* `Startup`: weak fairness of main's steps (`Boots`, `RunReturns`) and of the
  goroutine that takes the signal. Nobody has to send a signal or a request, and
  a listener need neither bind nor fail.

### Findings

1. On MySQL nothing that is stored can be found, because the lookups do not
   quote `group`; a get answers 404 (`db_storage.go:189`).
2. Behind `PodStorage` a stored pod cannot be updated, which panics
   (`pod.go:98`), and its status be neither read nor updated, which is answered
   500 (`pod_status.go:39, 70`): the wrappers expect a type `DBStorage` never
   returns. The status routes are those the server has today; the panic waits
   behind finding 6. Property `StoredPodServed` fails in each of the three ways,
   and TLC stops at the first, a status.
3. A list on a namespace's path returns all namespaces (`handler.go:26`).
4. An update racing a delete brings the deleted row back (`db_storage.go:290`).
5. No uid is ever assigned while the column is unique, so only one object
   without a uid can be created (`db_storage.go:172`).
6. The storage wrappers are lost, because `Register` builds a second time
   (`registry.go:145`).
7. Unregistered resources are answered 404, not proxied (`server.go:223`).

Findings 3 and 4 show on a database that takes the conditions of the lookups:
on MySQL finding 1 comes first.

## Proofs

Every safety property and action property that a run checks is also proved, for
any constants that satisfy the ASSUMEs. Each module has its inductive invariant,
which a run checks too: `Inv` (`server_faults`), `AckInv` (`server_races`),
`WrapInv` (`wrappers`), `ProxyInv` with `FiltersInv` in it (`gateway`) and
`StartInv` (`startup`).

### The table (`ResourceServer_proofs`)

* `TypeCorrect`: `Spec => []TypeOK`;
* `Invariance`: `Spec => []Inv`, and from it `StoreStaysConsistent`,
  `WritesStayAddressed`, `RejectionHasNoEffect` and `GetsAreExact`;
* `IdentityIsStable`: the action property `IdentityStable`.

`StoreConsistent` is not inductive: `Save` overwrites a row with `record[r]`, so
one has to know what that record is. `Inv` adds `HeldOK` (a record in hand
has the key and identity of a row of the table, and agrees with itself on its
version; its other columns may be out of date) and `StagesOK` (where a verb's
handler can be, and that nothing was written before the write). `HeldOK`
survives other requests because no write changes what a row is: lemmas `Writes`,
`InsertsKeep`, `SavesKeep` and `RemovesKeep` say so of the three kinds of write,
`TableKept` of every step, and `Locality` says that a step changes the local
variables of one request only. `VersionInHand` is the part for gets by version:
from the SELECT to the answer the object in hand has the version asked for,
which holds because `StoreConsistent` says the column and the object agree.
The argument needs of a request only the course of its verb, so it is split into
`RowsOK` and `Course`, which `Wrappers_proofs` uses again.

### What was acknowledged (`Acknowledged_proofs`)

`AckedWritesLast`, `AckedRemovalsLast` and `LimitsHonoured` follow from `AckInv`,
which adds to `Inv`

* `Performed`: a handler is past its storage call only after a write;
* `WritesHold`, `RemovalsHold`: what a request wrote or marked is still in the
  table unless an update of another request has written that row. They are
  wider than the two properties, because they must hold before the answer;
* `ItemsOK`, `SweepOK`, `TurnsOK`: the loop of a collection delete.

The loop is the hard part. A collection delete removes all it listed if it has
no limit, no statement fails and no update interferes (`Sweeping`). Each turn looks a row up again by the *name* of the
item whose turn it is, and may mark another item of that name. So no turn need
remove its own item, and "all items so far are gone" is false. What is inductive
is a count: of every name, at most as many listed items are live as turns are
left (`SweepOK`). A turn uses up one, and either marks a row or finds none live;
the lookup takes the first row of a name, and rows created after the list come
later, so a newcomer is never taken while a listed item lives. `TurnsOK` is the
same count for limits: rows written plus turns left stay within the limit.

### Refinement (`Promise_proofs`)

`PromiseIsKept` is `Spec => KeepsPromise`, the whole of `RowStore` under the
refinement mapping of `ResourceServer`. `AimsAre` says what a request may write
in `RowStore`'s terms. `InsertAdds`, `SaveReplaces` and `RemovalDiscards` show
that each statement that writes is the abstract action of its request, on rows it
addresses; `QuietStep`, `EndsActing` and `WriteStep` sort all steps into
stutters, ends of requests and writes. `WritesOnce` excludes a second write of a
request that may write once. The proof needs `AckInv`, because `RowStore`
lets a request succeed only if it acted (`Performed`).

### The wrappers (`Wrappers_proofs`)

`CreatedPodsAreComplete` and `WrappersKeepThePromise`. A step
below an open gate is a step of `ResourceServer`, so its lemmas carry over; its
`Inv` does not, since a status update enters at a stage where no update of
`ResourceServer` is. `WrapInv` therefore takes `RowsOK`, the `Course` of the
requests that are not for a status, and `StatusCourse` for those that are, and
adds `GateOK` (which gate is open at which stage), `SubmittedHeld` and
`CreatedWhereSubmitted` (the defaulted object is the one the INSERT sends). In
`WrappersKeepThePromise` a create aims at the object with its defaults, so the
aims of a request may change while its gate is shut (`WAimsKept`), and a gate
that opens is a stutter of `RowStore` (`GateQuiet`).

### Filters and proxy (`Filters_proofs`, `Proxy_proofs`)

`FiltersInvariance` is about the filters around *any* endpoint that sends at
most one status before it returns or panics (`FiltersSpec`), for any chain, any
number of requests and any settings. `EndpointsConform` shows that the proxy, its
middleware, the handlers and the router are such endpoints:
`Spec => ConformsToFilters`. `GaugeIsExact`, `CountsAreTrue` and `ReportsAreTrue`
are then facts about the whole.

`FiltersInv` adds what each writer has captured (`RecordsSeen`, `SentByEndpoint`),
what the logging filter has said so far (`StartLogged`), what a body can have
become (`CutByAudit`), and `FinitelyMany`: without it a gauge that is the number of
requests inside could not be stepped by one, and it holds because each step lets
one request in. `ProxyInv` adds `PlaceOK`, which says at each place of
an endpoint which rounds of hooks have run, whether the upstream has acted and
what it answered. `HooksComeInPairs`, `AnswersJustified` and `BodiesForwarded`
follow.

### The start (`Startup_proofs`, `Routing_proofs`)

`StartInv` holds for any list of definitions main could register. `StageOK` says
at each stage which definitions are registered, that those to come are untouched
(`Unmade`), and that the one in work has exactly one storage, which its info, its
builder and everything over it share (`Underway`). `BuildMakesOne` is the step
that matters: a Build makes a storage only if the builder has none, so the second
one makes none. `RegistryIsCoherent`, `OneStorageIsMade`, `AllOrNothing` and
`ExitCodeTellsWhy` are conjuncts of `StartInv`.

`RoutesStayUnshadowed`: whatever is registered, and however namespaces and objects
are called, a request for a collection, an object or a subresource reaches the
handler of that verb and that resource. `Templates` spells the paths out;
`OnlyItsCollection`, `OnlyItsObject` and `OnlyItsSubresource` show that every
route such a path matches is one of that resource and that kind, so the count of
static tokens never has to decide; `Found` shows that there is one.

This needs `RoutesAssumption`, which the code does not enforce and the
definitions of the repository satisfy. Each of its clauses is a way to break the
routes:

* a resource or subresource called `{name}` or `{namespace}` would be a path
  parameter;
* a namespaced resource with list and watch has two routes of one method and path
  (`router.go:176`), and a request for either may reach the other. No registrar
  of the repository asks for the watch verb;
* a cluster-scoped resource `namespaces` with a subresource called like a
  namespaced resource of its group: `/namespaces/{name}/pods` and
  `/namespaces/{namespace}/pods` match the same requests. The repository's
  `namespaces` has none.

### Assumptions

| module | assumed of the constants |
|---|---|
| `ResourceTable`, `ResourceServer` | `""` is a string, initial tables are consistent (`TablesAssumption`), menus hold requests (`MenuAssumption`), which statements and hooks may fail, `Modulus` is at least 2 |
| `Wrappers` | pods and deployments are different resources, containers have names and images, `"default"` is a string (`WrappersAssumption`) |
| `Filters`, `Proxy` | statuses are positive numbers, with 200, 404, 500 and 502 among them; no filter is twice in a chain; bodies arrive whole or broken; "api" and "apis" begin with "api" (`APIHeadsAssumption`) |
| `Startup` | main registers something, and no resource twice (`BootAssumption`); `RoutesAssumption` |

### Model-checked only

Liveness, which the prover does not do: `GoneEnds`, `ComesToAnEnd` and
`WrappedAnswered`. TLC alone also shows that the findings can happen, and that
every action of the models does.

## Not modelled

* `forceAllowCreate` and the validation callbacks of `DBStorage.Create` and
  `Update`: every caller in the repository passes false and nil.
* `DBStorage.Init` and `Watch`, `NewProxyHandler`, `ShouldProxy` and the
  interceptor of `pkg/server`: nothing calls them, or they only return an error.
* `InstallAPIGroups` and the content of the discovery document; TLS, flags and
  configuration; the hook main adds, which logs.
* The dropped veto of a pre-hook in the proxy is in the model but has no
  property: the repository does not say what a veto of a proxied request means.
* What the filters make of a path is in the model (`RequestInfo`) but no
  property is about it: the three copies of `parseRequestPath` know of no
  namespaces, so an event, a metric or a log line about an object in a namespace
  says resource "namespaces" and has the namespace for its name
  (`audit.go:139`). main passes no auditor.
* The watch route of a namespaced resource shares method and path with the list
  route (`router.go:176`); no registrar asks for it.
* The other wrappers of `pkg/api` pass every call on and are the identity here.

## Plan

1. The safety half of the liveness properties: a measure that every step of a
   request in the server makes smaller (turns left of a collection delete, then
   the stages of its verb), and the same for filters on the way out and for the
   stages of main. Under the fairness above that is why requests end; the measures
   can be proved, the conclusion stays with TLC.
2. Lemmas about the values of `ParsedLimit` and of `RequestInfo`'s paths, of which
   the proofs now need the types only.
3. `forceAllowCreate` and the validation callbacks of `DBStorage`, for callers
   outside this repository.

------------------------------ MODULE Filters ------------------------------
(***************************************************************************)
(* The filters of pkg/middleware around an endpoint.  The goroutine of a   *)
(* request goes down the filters of the container, each of which puts its  *)
(* own writer around the response, runs the endpoint, and comes back up    *)
(* through the code after ProcessFilter.  A panic in the endpoint passes   *)
(* through the filters and runs only what they have deferred: go-restful   *)
(* does not recover, net/http does and closes the connection.              *)
(*                                                                         *)
(* The endpoint may send one status and returns or panics.  Requests share *)
(* the metrics; they have nothing else in common.                          *)
(***************************************************************************)
EXTENDS RequestInfo, FiniteSets

CONSTANTS
  Reqs,      \* the requests that may arrive
  Menu,      \* what a request may be
  Configs,   \* how the server may be set up
  Statuses   \* the status codes endpoints answer

VARIABLES
  config,    \* the filters of the server and the settings of it all
  req,       \* req[r]: the request
  stage,     \* stage[r]: where its goroutine is
  depth,     \* depth[r]: how many filters it is inside of
  body,      \* body[r]: what reading its body gives
  sent,      \* sent[r]: the status on the wire, 0 before
  recorded,  \* recorded[r][f]: statusCode of the writer of f, 0 without one
  gauge,     \* inFlightRequests, by labels
  counter,   \* requestCounter, by labels and status
  audited,   \* audited[r]: the events the auditor was given
  logged     \* logged[r]: the lines logged, 0 for "request started"

metrics == <<gauge, counter>>
reports == <<audited, logged>>
filterVars == <<config, req, stage, depth, body, sent, recorded, metrics,
                reports>>

FilterNames == {"audit", "metrics", "logging"}
Levels == {"None", "Metadata", "Request", "RequestResponse"}

\* A configuration has the chain of filters, the level of the audit filter
\* and whether it was given an auditor, which main does not, whether metrics
\* are enabled, and whether the server has a transport for the proxy.
Settings == [level : Levels, auditor : BOOLEAN, enabled : BOOLEAN,
             transport : BOOLEAN]

\* A body is whole, broken (the client stops in the middle of it, and reading
\* it ends with an error) or cut (it ends early and nothing tells).
Bodies == {"whole", "broken", "cut"}

\* The order in which main adds the filters its flags enable.
FiltersInOrder == <<"audit", "metrics", "logging">>
MainChain(flags) == SelectSeq(FiltersInOrder, LAMBDA f : f \in flags)

\* The labels of the metrics of a request.
Labels(q) == [method |-> q.method, path |-> q.path,
              parsed |-> ParseMetricsRequestPath(q.path)]
LabelSets == {Labels(q) : q \in Menu}

\* What a client stops sending is told from its end: by its length or by the
\* chunk that ends it.
ASSUME MenuAssumption == \A q \in Menu : q.body \in {"whole", "broken"}
ASSUME StatusesAssumption == Statuses \subseteq Nat \ {0} /\ 200 \in Statuses
ASSUME ConfigsAssumption ==
  \A c \in Configs :
    /\ c.chain \in Seq(FilterNames)
    /\ [s \in {"level", "auditor", "enabled", "transport"} |-> c[s]] \in Settings
    /\ \A i, j \in DOMAIN c.chain : c.chain[i] = c.chain[j] => i = j

\* A filter that is switched off hands the request on.
Active(f) ==
  CASE f = "audit" -> config.level # "None"
    [] f = "metrics" -> config.enabled
    [] f = "logging" -> TRUE

NoWriter == [f \in FilterNames |-> 0]

FiltersInit ==
  /\ config \in Configs
  /\ req \in [Reqs -> Menu]
  /\ stage = [r \in Reqs |-> "idle"]
  /\ depth = [r \in Reqs |-> 0]
  /\ body = [r \in Reqs |-> req[r].body]
  /\ sent = [r \in Reqs |-> 0]
  /\ recorded = [r \in Reqs |-> NoWriter]
  /\ gauge = [l \in LabelSets |-> 0]
  /\ counter = [l \in LabelSets |-> [s \in Statuses |-> 0]]
  /\ audited = [r \in Reqs |-> <<>>]
  /\ logged = [r \in Reqs |-> <<>>]

-----------------------------------------------------------------------------
(***************************************************************************)
(* Down the chain.                                                         *)
(***************************************************************************)
Arrive(r) ==
  /\ stage[r] = "idle"
  /\ stage' = [stage EXCEPT ![r] = "down"]
  /\ UNCHANGED <<config, req, depth, body, sent, recorded, metrics, reports>>

AtEndpoint(r) == stage[r] = "down" /\ depth[r] = Len(config.chain)

\* The next filter down is f and has something to do, or has not.
Entering(r, f) ==
  /\ stage[r] = "down"
  /\ depth[r] < Len(config.chain)
  /\ config.chain[depth[r] + 1] = f
  /\ depth' = [depth EXCEPT ![r] = @ + 1]
  /\ UNCHANGED <<config, req, stage, sent, counter, audited>>

\* Its writer presumes the status net/http sends when nobody sets one.
Wraps(r, f) == recorded' = [recorded EXCEPT ![r][f] = 200]

EnterInactive(r) ==
  \E f \in FilterNames :
    /\ ~ Active(f)
    /\ Entering(r, f)
    /\ UNCHANGED <<body, recorded, gauge, logged>>

\* Mutant of ReadsBody: the audit filter reads bodies at every level.
ReadsBodyAlways(level) == TRUE
ReadsBody(level) == level \in {"Request", "RequestResponse"}

\* The audit filter reads a body to its end, drops the error that reading it
\* may end with, and puts what it read in its place.
EnterAudit(r) ==
  /\ Active("audit")
  /\ Entering(r, "audit")
  /\ Wraps(r, "audit")
  /\ body' = IF ReadsBody(config.level) /\ body[r] = "broken"
             THEN [body EXCEPT ![r] = "cut"] ELSE body
  /\ UNCHANGED <<gauge, logged>>

EnterMetrics(r) ==
  /\ Active("metrics")
  /\ Entering(r, "metrics")
  /\ Wraps(r, "metrics")
  /\ gauge' = [gauge EXCEPT ![Labels(req[r])] = @ + 1]
  /\ UNCHANGED <<body, logged>>

EnterLogging(r) ==
  /\ Entering(r, "logging")
  /\ Wraps(r, "logging")
  /\ logged' = [logged EXCEPT ![r] = Append(@, 0)]
  /\ UNCHANGED <<body, gauge>>

-----------------------------------------------------------------------------
(***************************************************************************)
(* What an endpoint does to its response.                                  *)
(***************************************************************************)
\* Mutant of Captured: the writer keeps the status it presumed.
CapturedDefault(code, s) == code
\* WriteHeader of a writer: the status it now holds.
Captured(code, s) == s

\* The status passes through every writer on its way to the connection.  Of
\* two statuses the writers would keep the second, net/http the first.
Writes(r, s) ==
  /\ sent' = [sent EXCEPT ![r] = IF @ = 0 THEN s ELSE @]
  /\ recorded' = [recorded EXCEPT ![r] =
       [f \in FilterNames |-> IF @[f] = 0 THEN 0 ELSE Captured(@[f], s)]]

\* It sends a status and goes on, or returns; returns; panics.  No endpoint of
\* this server sends a second status.
Sends(r, s) ==
  /\ AtEndpoint(r)
  /\ sent[r] = 0
  /\ Writes(r, s)
  /\ UNCHANGED <<config, req, stage, depth, body, metrics, reports>>

Answers(r, s) ==
  /\ AtEndpoint(r)
  /\ sent[r] = 0
  /\ Writes(r, s)
  /\ stage' = [stage EXCEPT ![r] = "up"]
  /\ UNCHANGED <<config, req, depth, body, metrics, reports>>

Ends(r, way) ==
  /\ AtEndpoint(r)
  /\ stage' = [stage EXCEPT ![r] = way]
  /\ UNCHANGED <<config, req, depth, body, sent, recorded, metrics, reports>>
Returns(r) == Ends(r, "up")
Panics(r) == Ends(r, "panic")

-----------------------------------------------------------------------------
(***************************************************************************)
(* Up the chain, by returning or by a panic.                               *)
(***************************************************************************)
Leaving(r, f, way) ==
  /\ stage[r] = way
  /\ depth[r] > 0
  /\ config.chain[depth[r]] = f
  /\ depth' = [depth EXCEPT ![r] = @ - 1]
  /\ UNCHANGED <<config, req, stage, body, sent, recorded>>

LeaveInactive(r) ==
  \E f \in FilterNames :
    /\ ~ Active(f)
    /\ Leaving(r, f, "up")
    /\ UNCHANGED <<metrics, reports>>

\* Mutant of Event: the status is that of a success, like its reason.
EventOK(r, code) ==
  [parsed |-> ParseRequestPath(req[r].path), code |-> 200]
\* The event of a request: what its path says it is about, and the answer.
Event(r, code) ==
  [parsed |-> ParseRequestPath(req[r].path), code |-> code]

LeaveAudit(r) ==
  /\ Active("audit")
  /\ Leaving(r, "audit", "up")
  /\ audited' = IF config.auditor
                THEN [audited EXCEPT ![r] =
                        Append(@, Event(r, recorded[r]["audit"]))]
                ELSE audited
  /\ UNCHANGED <<metrics, logged>>

\* The gauge goes down when the filter returns, by a deferred call.
InFlightDec(r) == [gauge EXCEPT ![Labels(req[r])] = @ - 1]

LeaveMetrics(r) ==
  /\ Active("metrics")
  /\ Leaving(r, "metrics", "up")
  /\ counter' = [counter EXCEPT
       ![Labels(req[r])][recorded[r]["metrics"]] = @ + 1]
  /\ gauge' = InFlightDec(r)
  /\ UNCHANGED reports

LeaveLogging(r) ==
  /\ Leaving(r, "logging", "up")
  /\ logged' = [logged EXCEPT ![r] = Append(@, recorded[r]["logging"])]
  /\ UNCHANGED <<metrics, audited>>

\* Mutant of Deferred: no call is deferred.
DeferredNothing(r, f) == gauge
\* What a filter has deferred, run while a panic passes through it.
Deferred(r, f) ==
  IF f = "metrics" /\ Active(f) THEN InFlightDec(r) ELSE gauge

Unwind(r) ==
  \E f \in FilterNames :
    /\ Leaving(r, f, "panic")
    /\ gauge' = Deferred(r, f)
    /\ UNCHANGED <<counter, reports>>

\* Back in net/http: it sends 200 if nothing was sent, or recovers the panic
\* and closes the connection.
Finish(r) ==
  /\ stage[r] \in {"up", "panic"}
  /\ depth[r] = 0
  /\ IF stage[r] = "up"
     THEN /\ stage' = [stage EXCEPT ![r] = "done"]
          /\ sent' = [sent EXCEPT ![r] = IF @ = 0 THEN 200 ELSE @]
     ELSE /\ stage' = [stage EXCEPT ![r] = "aborted"]
          /\ UNCHANGED sent
  /\ UNCHANGED <<config, req, depth, body, recorded, metrics, reports>>

-----------------------------------------------------------------------------
PassFilters(r) ==
  \/ EnterInactive(r) \/ EnterAudit(r) \/ EnterMetrics(r) \/ EnterLogging(r)
  \/ LeaveInactive(r) \/ LeaveAudit(r) \/ LeaveMetrics(r) \/ LeaveLogging(r)
  \/ Unwind(r) \/ Finish(r)

\* Any endpoint that sends at most one status.
Endpoint(r) ==
  \/ \E s \in Statuses : Sends(r, s) \/ Answers(r, s)
  \/ Returns(r) \/ Panics(r)

FiltersNext == \E r \in Reqs : Arrive(r) \/ PassFilters(r) \/ Endpoint(r)

FiltersSpec == FiltersInit /\ [][FiltersNext]_filterVars

-----------------------------------------------------------------------------
(***************************************************************************)
(* Properties.                                                             *)
(***************************************************************************)
Stages == {"idle", "down", "up", "panic", "done", "aborted"}
Codes == Statuses \cup {0}

Events == [parsed : {ParseRequestPath(q.path) : q \in Menu}, code : Codes]

\* Types of the variables.
FiltersTypeOK ==
  /\ config \in Configs
  /\ req \in [Reqs -> Menu]
  /\ stage \in [Reqs -> Stages]
  /\ depth \in [Reqs -> 0..Len(config.chain)]
  /\ body \in [Reqs -> Bodies]
  /\ sent \in [Reqs -> Codes]
  /\ recorded \in [Reqs -> [FilterNames -> Codes]]
  /\ gauge \in [LabelSets -> Nat]
  /\ counter \in [LabelSets -> [Statuses -> Nat]]
  /\ audited \in [Reqs -> Seq(Events)]
  /\ logged \in [Reqs -> Seq(Codes)]

\* The filters request r is inside of, and those it has returned through.
Inside(r, f) ==
  /\ stage[r] \in {"down", "up", "panic"}
  /\ \E k \in 1..depth[r] : config.chain[k] = f
Through(r, f) ==
  /\ stage[r] \in {"up", "done"}
  /\ \E k \in DOMAIN config.chain : k > depth[r] /\ config.chain[k] = f
  /\ Active(f)

\* The status the client of r sees once its endpoint has returned.
Seen(r) == IF sent[r] = 0 THEN 200 ELSE sent[r]

\* The requests with labels l that are inside the metrics filter.
Metered(l) ==
  {r \in Reqs :
     Labels(req[r]) = l /\ Active("metrics") /\ Inside(r, "metrics")}

\* The in-flight gauge of a label set counts the requests with these labels
\* that are inside the metrics filter, whatever other requests do and however
\* they end: it can neither leak nor go below zero.
GaugeExact == \A l \in LabelSets : gauge[l] = Cardinality(Metered(l))

\* Those that have returned through it and were answered s.
Tallied(l, s) ==
  {r \in Reqs : Labels(req[r]) = l /\ Through(r, "metrics") /\ Seen(r) = s}

\* Every request that returned through the metrics filter is counted once, by
\* the status its client sees; one that panicked is not counted.
CountedAsAnswered ==
  \A l \in LabelSets, s \in Statuses :
    counter[l][s] = Cardinality(Tallied(l, s))

\* The auditor and the log tell what the client saw, once, in whatever order
\* the filters are: an event only after the answer, with its status, and none
\* for a request that panicked, which the log shows as started only.
ReportedAsAnswered ==
  \A r \in Reqs :
    /\ Through(r, "audit") /\ config.auditor =>
         Len(audited[r]) = 1 /\ audited[r][1].code = Seen(r)
    /\ ~ Through(r, "audit") => audited[r] = <<>>
    /\ Through(r, "logging") => logged[r] = <<0, Seen(r)>>
    /\ ~ Through(r, "logging") => logged[r] \in {<<>>, <<0>>}

-----------------------------------------------------------------------------
(***************************************************************************)
(* Why they hold, in any order of the filters.                             *)
(***************************************************************************)

\* Nothing is sent before the endpoint is reached.
SentByEndpoint ==
  \A r \in Reqs :
    /\ stage[r] = "idle" => depth[r] = 0 /\ sent[r] = 0
    /\ stage[r] = "down" /\ depth[r] < Len(config.chain) => sent[r] = 0

\* Each writer on the way knows what the client sees.
RecordsSeen ==
  \A r \in Reqs, f \in FilterNames :
    stage[r] \in {"down", "up"} /\ Inside(r, f) /\ Active(f)
    => recorded[r][f] = Seen(r)

\* The logging filter has logged the start of a request it is around, and of
\* none that has yet to come to it.
StartLogged ==
  \A r \in Reqs :
    /\ Inside(r, "logging") => logged[r] = <<0>>
    /\ stage[r] \in {"idle", "down"} /\ ~ Inside(r, "logging")
         => logged[r] = <<>>

\* Only the audit filter makes a cut body of a broken one.
CutByAudit ==
  \A r \in Reqs :
    body[r] = "cut" => /\ ReadsBody(config.level)
                       /\ \E k \in DOMAIN config.chain : config.chain[k] = "audit"

\* Only finitely many requests have come so far.
FinitelyMany ==
  \A l \in LabelSets :
    /\ IsFiniteSet(Metered(l))
    /\ \A s \in Statuses : IsFiniteSet(Tallied(l, s))

FiltersInv ==
  /\ FiltersTypeOK /\ SentByEndpoint /\ RecordsSeen /\ StartLogged
  /\ CutByAudit /\ FinitelyMany
  /\ GaugeExact /\ CountedAsAnswered /\ ReportedAsAnswered
=============================================================================

------------------------------- MODULE Proxy -------------------------------
(***************************************************************************)
(* pkg/server/proxy.go inside the filters: the endpoint that forwards a    *)
(* request to the kube-apiserver (proxyRequest, proxyCoreRequest) and the  *)
(* middleware that runs hooks around another http.Handler                  *)
(* (ProxyHookMiddleware).  The other endpoints are the resource handlers,  *)
(* abstracted to the status they answer, and the router's own errors.      *)
(*                                                                         *)
(* The proxy runs the hooks of the verb, with no object, on either side of *)
(* the round trip and drops the errors they return.  A hook may panic: a   *)
(* type assertion on the missing object does.  The upstream may apply a    *)
(* request and its answer be lost.  A client may go away at any time,      *)
(* which cancels the context of its request.                               *)
(***************************************************************************)
EXTENDS Filters

CONSTANTS
  APIHeads,    \* the first segments of a path that begin with "api"
  Replies,     \* the statuses others answer: upstream and handlers
  HookFaults   \* how a round of hooks may end: "error", "panic"

VARIABLES
  at,           \* at[r]: where its endpoint is
  hooks,        \* hooks[r]: the rounds of hooks run for it, and their GVR
  upstream,     \* upstream[r]: what the kube-apiserver answered, 0 before
  received,     \* received[r]: the body the kube-apiserver took for whole
  wroteHeader,  \* wroteHeader[r] of the middleware's writer
  gone          \* gone[r]: its client has gone away

proxyVars == <<at, hooks, upstream, received, wroteHeader, gone>>
vars == <<filterVars, proxyVars>>

\* route is the handler the router found for the request, or "none";
\* parses says whether the target URL made of its path and query does.
Routes == {"none", "local", "proxy", "core", "middleware"}

ASSUME APIHeadsAssumption == {"api", "apis"} \subseteq APIHeads
ASSUME RepliesAssumption == Replies \subseteq Statuses
ASSUME HookFaultsAssumption == HookFaults \subseteq {"error", "panic"}
ASSUME ProxyStatusesAssumption == {404, 500, 502} \subseteq Statuses

Init ==
  /\ FiltersInit
  /\ at = [r \in Reqs |-> "entry"]
  /\ hooks = [r \in Reqs |-> <<>>]
  /\ upstream = [r \in Reqs |-> 0]
  /\ received = [r \in Reqs |-> "none"]
  /\ wroteHeader = [r \in Reqs |-> FALSE]
  /\ gone = [r \in Reqs |-> FALSE]

-----------------------------------------------------------------------------
Route(r, route) == AtEndpoint(r) /\ req[r].route = route
Proxied(r) == req[r].route \in {"proxy", "core"}
At(r, place) == AtEndpoint(r) /\ at[r] = place

Goto(r, place) == at' = [at EXCEPT ![r] = place]

\* What proxyRequest takes for the target of a request: a path that does not
\* begin with /api, with whatever else in its first segment, gets it in front.
ProxyTarget(q) ==
  ParseGVRAndVerb(IF q.path[1] \in APIHeads THEN q.path
                  ELSE <<"api">> \o q.path, q.method)

\* What proxyCoreRequest takes from the path parameters of its route,
\* /api/v1/{resource} with or without /{name}.
CoreTarget(q) ==
  [group |-> "", version |-> "v1", resource |-> q.path[3],
   verb |-> MethodToVerb(q.method, Len(q.path) = 3)]

\* The middleware takes the path as it is.
Target(q) ==
  CASE q.route = "proxy" -> ProxyTarget(q)
    [] q.route = "core" -> CoreTarget(q)
    [] OTHER -> ParseGVRAndVerb(q.path, q.method)

\* The verbs the switch statements around the round trip know.
HookedVerbs == {"create", "get", "list", "update", "delete"}
Hooked(r) == Target(req[r]).verb \in HookedVerbs

Round(r, kind) == [kind |-> kind, target |-> Target(req[r])]

\* A round of hooks is run, if the verb has any: it ends well, with an error
\* that is dropped, or in a panic.
HooksRun(r, kind) ==
  hooks' = IF Hooked(r) THEN [hooks EXCEPT ![r] = Append(@, Round(r, kind))]
                        ELSE hooks
HooksPanic(r, kind) ==
  /\ "panic" \in HookFaults
  /\ Hooked(r)
  /\ HooksRun(r, kind)
  /\ Panics(r)

-----------------------------------------------------------------------------
(***************************************************************************)
(* proxyRequest and proxyCoreRequest.                                      *)
(***************************************************************************)
NotConfigured(r) ==
  /\ At(r, "entry") /\ Proxied(r)
  /\ ~ config.transport
  /\ Answers(r, 502)
  /\ UNCHANGED proxyVars

RunPreHooks(r) ==
  /\ At(r, "entry") /\ Proxied(r)
  /\ config.transport
  /\ \/ HooksRun(r, "pre") /\ Goto(r, "forward") /\ UNCHANGED filterVars
     \/ HooksPanic(r, "pre") /\ UNCHANGED at
  /\ UNCHANGED <<upstream, received, wroteHeader, gone>>

\* url.Parse of the target, then RoundTrip is called.
Forward(r) ==
  /\ At(r, "forward")
  /\ \/ ~ req[r].parses /\ Answers(r, 500) /\ UNCHANGED at
     \/ req[r].parses /\ Goto(r, "roundTrip") /\ UNCHANGED filterVars
  /\ UNCHANGED <<hooks, upstream, received, wroteHeader, gone>>

\* The kube-apiserver acts on a request all of which it received, or answers
\* before it has the whole body, of which more may come or not.
Serves(r) ==
  /\ At(r, "roundTrip")
  /\ upstream[r] = 0
  /\ \E s \in Replies : upstream' = [upstream EXCEPT ![r] = s]
  /\ \/ body[r] # "broken" /\ received' = [received EXCEPT ![r] = body[r]]
     \/ UNCHANGED received
  /\ UNCHANGED <<filterVars, at, hooks, wroteHeader, gone>>

\* RoundTrip returns an error, whether or not the kube-apiserver has acted.
RoundTripFails(r) ==
  /\ At(r, "roundTrip")
  /\ Answers(r, 502)
  /\ UNCHANGED proxyVars

\* Mutant of OnSuccess: the hooks run whatever became of the round trip.
OnSuccessAlways(r) == TRUE
\* RoundTrip has returned a response.
OnSuccess(r) == upstream[r] # 0

RunPostHooks(r) ==
  /\ At(r, "roundTrip")
  /\ OnSuccess(r)
  /\ \/ HooksRun(r, "post") /\ Goto(r, "relay") /\ UNCHANGED filterVars
     \/ HooksPanic(r, "post") /\ UNCHANGED at
  /\ UNCHANGED <<upstream, received, wroteHeader, gone>>

\* Mutant of Relayed: the status of the response is not copied.
RelayedOK(r) == 200
Relayed(r) == upstream[r]

\* The headers and the status are copied, then the body.
Relay(r) ==
  /\ At(r, "relay")
  /\ Sends(r, Relayed(r))
  /\ Goto(r, "copying")
  /\ UNCHANGED <<hooks, upstream, received, wroteHeader, gone>>

\* io.Copy ends, at the end of the body or with an error that is dropped.
CopyEnds(r) ==
  /\ At(r, "copying")
  /\ Returns(r)
  /\ UNCHANGED proxyVars

-----------------------------------------------------------------------------
(***************************************************************************)
(* ProxyHookMiddleware around a handler next, which may write a header,    *)
(* then a body, before it returns.                                         *)
(***************************************************************************)
MiddlewarePreHooks(r) ==
  /\ Route(r, "middleware") /\ at[r] = "entry"
  /\ \/ HooksRun(r, "pre") /\ Goto(r, "next") /\ UNCHANGED filterVars
     \/ HooksPanic(r, "pre") /\ UNCHANGED at
  /\ UNCHANGED <<upstream, received, wroteHeader, gone>>

NextWriteHeader(r) ==
  /\ At(r, "next")
  /\ \E s \in Replies : Sends(r, s)
  /\ wroteHeader' = [wroteHeader EXCEPT ![r] = TRUE]
  /\ UNCHANGED <<at, hooks, upstream, received, gone>>

\* Mutant of Marked: writing does not set wroteHeader.
MarkedNever(r) == wroteHeader
Marked(r) == [wroteHeader EXCEPT ![r] = TRUE]

\* The first Write runs the post-hooks unless a header was written; without
\* a header net/http sends 200, once.
NextWrite(r) ==
  /\ At(r, "next")
  /\ IF wroteHeader[r]
     THEN UNCHANGED <<filterVars, hooks, wroteHeader>>
     ELSE \/ /\ HooksRun(r, "post")
             /\ wroteHeader' = Marked(r)
             /\ IF sent[r] = 0 THEN Sends(r, 200) ELSE UNCHANGED filterVars
          \/ HooksPanic(r, "post") /\ UNCHANGED wroteHeader
  /\ UNCHANGED <<at, upstream, received, gone>>

NextReturns(r) ==
  /\ At(r, "next")
  /\ Returns(r)
  /\ UNCHANGED proxyVars

-----------------------------------------------------------------------------
(***************************************************************************)
(* The other endpoints, and the client.                                    *)
(***************************************************************************)
\* A resource handler answers, or one of its hooks panics before it does;
\* the router answers a request it has no route for.
Local(r) ==
  /\ \/ Route(r, "local") /\ \E s \in Replies : Answers(r, s)
     \/ Route(r, "local") /\ "panic" \in HookFaults /\ Panics(r)
     \/ Route(r, "none") /\ Answers(r, 404)
  /\ UNCHANGED proxyVars

\* The client goes away; its request can notice only where it waits.
Leave(r) ==
  /\ AtEndpoint(r)
  /\ at[r] \in {"roundTrip", "copying", "next"}
  /\ ~ gone[r]
  /\ gone' = [gone EXCEPT ![r] = TRUE]
  /\ UNCHANGED <<filterVars, at, hooks, upstream, received,
                 wroteHeader>>

\* What the goroutine does by itself, and when it hears from others.
Runs(r) ==
  \/ NotConfigured(r) \/ RunPreHooks(r) \/ Forward(r) \/ Relay(r)
  \/ MiddlewarePreHooks(r) \/ Local(r)
Waits(r) == RoundTripFails(r) \/ RunPostHooks(r) \/ CopyEnds(r)
Nexts(r) == NextWriteHeader(r) \/ NextWrite(r) \/ NextReturns(r)

Filtered(r) == (Arrive(r) \/ PassFilters(r)) /\ UNCHANGED proxyVars

Next ==
  \E r \in Reqs :
    Filtered(r) \/ Runs(r) \/ Waits(r) \/ Nexts(r) \/ Serves(r) \/ Leave(r)

Spec == Init /\ [][Next]_vars

\* Mutant of Cancelled: the round trip is not given the request's context.
CancelledNever(r) == FALSE
\* The round trip and the body of its response depend on the context of the
\* request, which net/http cancels when the client goes away.
Cancelled(r) == gone[r]

\* Goroutines run.  The transport has no timeout: a round trip, or the copy of
\* a watch, may last for ever unless it is cancelled.  The handler next is
\* expected to heed the context too.
Fairness ==
  \A r \in Reqs :
    /\ WF_vars(PassFilters(r) /\ UNCHANGED proxyVars)
    /\ WF_vars(Runs(r))
    /\ WF_vars(Cancelled(r) /\ (Waits(r) \/ NextReturns(r)))

FairSpec == Spec /\ Fairness

-----------------------------------------------------------------------------
(***************************************************************************)
(* Properties.                                                             *)
(***************************************************************************)
Places == {"entry", "forward", "roundTrip", "relay", "copying", "next"}

\* Types of the variables.
TypeOK ==
  /\ FiltersTypeOK
  /\ at \in [Reqs -> Places]
  /\ hooks \in [Reqs -> Seq([kind : {"pre", "post"},
                             target : {Target(q) : q \in Menu}])]
  /\ \A r \in Reqs : Len(hooks[r]) <= 2
  /\ upstream \in [Reqs -> Codes]
  /\ received \in [Reqs -> Bodies \cup {"none"}]
  /\ wroteHeader \in [Reqs -> BOOLEAN]
  /\ gone \in [Reqs -> BOOLEAN]

Kinds(r) == [k \in DOMAIN hooks[r] |-> hooks[r][k].kind]

\* Hooks come in pairs around the request they belong to: the post-hooks run
\* at most once, after the pre-hooks, and only for a request the upstream has
\* answered, which it was never given before its pre-hooks ran; a client that
\* was told the upstream's answer was told after the post-hooks.
HooksBracket ==
  \A r \in Reqs : Hooked(r) =>
    /\ Kinds(r) \in {<<>>, <<"pre">>, <<"pre", "post">>}
    /\ Proxied(r) =>
         /\ upstream[r] # 0 => Kinds(r) # <<>>
         /\ Kinds(r) = <<"pre", "post">> => upstream[r] # 0
         /\ at[r] = "copying" => Kinds(r) = <<"pre", "post">>
    /\ req[r].route = "middleware" /\ sent[r] # 0
         => wroteHeader[r] \/ stage[r] = "done"

\* A proxied client is told what the upstream answered, or 500 for a request
\* that was never forwarded, or 502, which promises nothing: the upstream may
\* have applied the request.  Nobody is told 200 for want of an answer.
AnswerJustified ==
  \A r \in Reqs : Proxied(r) /\ sent[r] # 0 =>
    \/ sent[r] = upstream[r]
    \/ sent[r] = 500 /\ upstream[r] = 0 /\ ~ req[r].parses
    \/ sent[r] = 502 /\ Kinds(r) # <<"pre", "post">>

\* The upstream takes for whole a body that is whole, unless the audit filter
\* reads bodies: it drops the error that tells a broken one.
ForwardedWhole ==
  \A r \in Reqs :
    received[r] = "cut"
    => config.level \in {"Request", "RequestResponse"}
       /\ \E k \in DOMAIN config.chain : config.chain[k] = "audit"

\* To the filters every endpoint of the server looks the same: it sends at
\* most one status, one net/http knows, and then returns or panics.
ConformsToFilters == FiltersSpec

\* A request whose client has gone away ends, however long the upstream takes
\* over it, so that the gauge of requests in flight goes down again.
GoneEnds ==
  \A r \in Reqs : gone[r] ~> stage[r] \in {"done", "aborted"}

(***************************************************************************)
(* Why they hold: what each place of the endpoint says of its request.     *)
(***************************************************************************)

\* The rounds of hooks that have been run, if the verb of r has hooks.
Ran(r, rounds) == hooks[r] = IF Hooked(r) THEN rounds ELSE <<>>
Before(r) == <<Round(r, "pre")>>
Both(r) == <<Round(r, "pre"), Round(r, "post")>>

Untouched(r) ==
  upstream[r] = 0 /\ received[r] = "none" /\ wroteHeader[r] = FALSE

Answered(r, s) == stage[r] \in {"up", "done"} /\ sent[r] = s
Thrown(r) == stage[r] \in {"panic", "aborted"} /\ sent[r] = 0
Silent(r) == stage[r] = "down" /\ sent[r] = 0

AtEntry(r) ==
  /\ Untouched(r)
  /\ \/ Ran(r, <<>>)
        /\ \/ stage[r] = "idle" \/ Silent(r)
           \/ Proxied(r) /\ Answered(r, 502)
           \/ req[r].route \in {"local", "none"}
     \/ Ran(r, Before(r)) /\ Thrown(r)

AtForward(r) ==
  /\ Proxied(r) /\ Untouched(r) /\ Ran(r, Before(r))
  /\ Silent(r) \/ (Answered(r, 500) /\ ~ req[r].parses)

AtRoundTrip(r) ==
  /\ Proxied(r)
  /\ \/ Ran(r, Before(r)) /\ (Silent(r) \/ Answered(r, 502))
     \/ Ran(r, Both(r)) /\ Thrown(r) /\ upstream[r] # 0

AtRelay(r) ==
  Proxied(r) /\ Ran(r, Both(r)) /\ Silent(r) /\ upstream[r] # 0

AtCopying(r) ==
  /\ Proxied(r) /\ Ran(r, Both(r))
  /\ stage[r] \in {"down", "up", "done"}
  /\ sent[r] = upstream[r] /\ upstream[r] # 0

AtNext(r) ==
  /\ req[r].route = "middleware"
  /\ \/ /\ wroteHeader[r] = FALSE
        /\ \/ Ran(r, Before(r)) /\ (Silent(r) \/ stage[r] \in {"up", "done"})
           \/ Ran(r, Both(r)) /\ Thrown(r)
        /\ sent[r] # 0 => stage[r] = "done"
     \/ /\ wroteHeader[r] = TRUE
        /\ Ran(r, Before(r)) \/ Ran(r, Both(r))
        /\ stage[r] \in {"down", "up", "done"}

PlaceOK(r) ==
  /\ at[r] = "entry" => AtEntry(r)
  /\ at[r] = "forward" => AtForward(r)
  /\ at[r] = "roundTrip" => AtRoundTrip(r)
  /\ at[r] = "relay" => AtRelay(r)
  /\ at[r] = "copying" => AtCopying(r)
  /\ at[r] = "next" => AtNext(r)

\* The inductive invariant of the whole.
ProxyInv ==
  /\ TypeOK /\ FiltersInv /\ ForwardedWhole
  /\ \A r \in Reqs : PlaceOK(r)
=============================================================================

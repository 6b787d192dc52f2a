---------------------------- MODULE Proxy_proofs ----------------------------
(***************************************************************************)
(* Theorems about Proxy: its endpoints are endpoints as the filters expect *)
(* them, so what the filters count and report is true of them; hooks come  *)
(* in pairs, answers are justified, bodies are forwarded whole.            *)
(***************************************************************************)
EXTENDS Proxy, Filters_proofs

-----------------------------------------------------------------------------
(***************************************************************************)
(* The proxy's endpoints, seen from the filters.                           *)
(***************************************************************************)

\* An endpoint of the proxy sends a status the filters know of, returns,
\* panics or does nothing to its response.
LEMMA EndpointStep ==
  ASSUME ProxyInv, [Next]_vars
  PROVE  [FiltersNext]_filterVars
<1> USE DEF FiltersNext
<1>0. /\ Replies \subseteq Statuses /\ 200 \in Statuses
      /\ 404 \in Statuses /\ 500 \in Statuses /\ 502 \in Statuses
  BY RepliesAssumption, StatusesAssumption, ProxyStatusesAssumption
<1>1. CASE UNCHANGED vars BY <1>1 DEF vars
<1>2. ASSUME NEW r \in Reqs, Filtered(r) PROVE FiltersNext
  BY <1>2 DEF Filtered
<1>3. ASSUME NEW r \in Reqs,
             Endpoint(r) \/ UNCHANGED filterVars
      PROVE  [FiltersNext]_filterVars
  BY <1>3
<1>4. ASSUME NEW r \in Reqs, Runs(r) PROVE Endpoint(r) \/ UNCHANGED filterVars
  <2>1. CASE NotConfigured(r)
    BY <1>0, <2>1 DEF NotConfigured, Endpoint
  <2>2. CASE RunPreHooks(r)
    BY <2>2 DEF RunPreHooks, HooksPanic, Endpoint
  <2>3. CASE Forward(r)
    BY <1>0, <2>3 DEF Forward, Endpoint
  <2>4. CASE Relay(r)
    <3>1. at[r] = "relay" /\ Sends(r, upstream[r])
      BY <2>4 DEF Relay, Relayed, At
    <3>2. upstream[r] # 0 BY <3>1 DEF ProxyInv, PlaceOK, AtRelay
    <3>3. upstream[r] \in Statuses
      BY <3>2 DEF ProxyInv, TypeOK, Codes
    <3>4. QED BY <3>1, <3>3 DEF Endpoint
  <2>5. CASE MiddlewarePreHooks(r)
    BY <2>5 DEF MiddlewarePreHooks, HooksPanic, Endpoint
  <2>6. CASE Local(r)
    BY <1>0, <2>6 DEF Local, Endpoint
  <2>7. QED BY <1>4, <2>1, <2>2, <2>3, <2>4, <2>5, <2>6 DEF Runs
<1>5. ASSUME NEW r \in Reqs, Waits(r) PROVE Endpoint(r) \/ UNCHANGED filterVars
  BY <1>0, <1>5
  DEF Waits, RoundTripFails, RunPostHooks, HooksPanic, CopyEnds, Endpoint
<1>6. ASSUME NEW r \in Reqs, Nexts(r) PROVE Endpoint(r) \/ UNCHANGED filterVars
  BY <1>0, <1>6
  DEF Nexts, NextWriteHeader, NextWrite, HooksPanic, NextReturns, Endpoint
<1>7. ASSUME NEW r \in Reqs, Serves(r) \/ Leave(r) PROVE UNCHANGED filterVars
  BY <1>7 DEF Serves, Leave
<1>8. QED BY <1>1, <1>2, <1>3, <1>4, <1>5, <1>6, <1>7 DEF Next

-----------------------------------------------------------------------------
(***************************************************************************)
(* Rounds of hooks.                                                        *)
(***************************************************************************)

\* What a round adds to those that have been run.
LEMMA RoundRun ==
  ASSUME TypeOK, NEW r \in Reqs
  PROVE  /\ HooksRun(r, "pre") /\ Ran(r, <<>>)
              => hooks'[r] = IF Hooked(r) THEN Before(r) ELSE <<>>
         /\ HooksRun(r, "post") /\ Ran(r, Before(r))
              => hooks'[r] = IF Hooked(r) THEN Both(r) ELSE <<>>
         /\ \A kind : HooksRun(r, kind) =>
              \A s \in Reqs \ {r} : hooks'[s] = hooks[s]
<1>1. DOMAIN hooks = Reqs BY DEF TypeOK
<1>2. Append(<<>>, Round(r, "pre")) = <<Round(r, "pre")>> OBVIOUS
<1>3. Append(<<Round(r, "pre")>>, Round(r, "post"))
        = <<Round(r, "pre"), Round(r, "post")>>
  BY AppendsTo
<1>4. QED BY <1>1, <1>2, <1>3 DEF HooksRun, Ran, Before, Both

\* The kinds of the rounds of a sequence of them.
KindsIn(h) == [k \in DOMAIN h |-> h[k].kind]

LEMMA NoKinds == KindsIn(<<>>) = <<>>
<1> DEFINE f == KindsIn(<<>>)
<1>1. DOMAIN <<>> = 1..0 OBVIOUS
<1>2. f \in [1..0 -> {0}] BY <1>1 DEF KindsIn
<1>3. f \in Seq({0}) /\ Len(f) = 0 BY <1>2
<1>4. <<>> \in Seq({0}) OBVIOUS
<1> HIDE DEF f
<1>5. f = <<>> BY <1>3, <1>4, SeqEqual
<1>6. QED BY <1>5 DEF f

LEMMA OneKind ==
  ASSUME NEW a
  PROVE  KindsIn(<<a>>) = <<a.kind>>
<1> DEFINE f == KindsIn(<<a>>)
           g == <<a.kind>>
           S == {a.kind}
<1>1. DOMAIN <<a>> = 1..1 /\ <<a>>[1] = a OBVIOUS
<1>2. g \in Seq(S) /\ Len(g) = 1 /\ g[1] = a.kind OBVIOUS
<1> HIDE DEF g, S
<1>3. f \in [1..1 -> S] BY <1>1 DEF S, KindsIn
<1>4. f \in Seq(S) /\ Len(f) = 1 BY <1>3 DEF KindsIn
<1>5. \A i \in 1..1 : f[i] = g[i] BY <1>1, <1>2 DEF KindsIn
<1> HIDE DEF f
<1>6. f = g BY <1>2, <1>4, <1>5, SeqEqual
<1>7. QED BY <1>6 DEF f, g

LEMMA TwoKinds ==
  ASSUME NEW a, NEW b
  PROVE  KindsIn(<<a, b>>) = <<a.kind, b.kind>>
<1> DEFINE s == <<a, b>>
           f == KindsIn(s)
           g == <<a.kind, b.kind>>
           S == {a.kind, b.kind}
<1>1. DOMAIN s = 1..2 /\ s[1] = a /\ s[2] = b OBVIOUS
<1>2. g \in Seq(S) /\ Len(g) = 2 /\ g[1] = a.kind /\ g[2] = b.kind OBVIOUS
<1> HIDE DEF g, S, s
<1>3. f \in [1..2 -> S] BY <1>1 DEF S, KindsIn
<1>4. f \in Seq(S) /\ Len(f) = 2 BY <1>3 DEF KindsIn
<1>5. \A i \in 1..2 : f[i] = g[i] BY <1>1, <1>2 DEF KindsIn
<1> HIDE DEF f
<1>6. f = g BY <1>2, <1>4, <1>5, SeqEqual
<1>7. QED BY <1>6 DEF f, g, s

\* The kinds of the rounds that a place says were run.
LEMMA KindsRan ==
  ASSUME NEW r \in Reqs, Hooked(r)
  PROVE  /\ Ran(r, <<>>) => Kinds(r) = <<>>
         /\ Ran(r, Before(r)) => Kinds(r) = <<"pre">>
         /\ Ran(r, Both(r)) => Kinds(r) = <<"pre", "post">>
<1>1. Kinds(r) = KindsIn(hooks[r]) BY DEF Kinds, KindsIn
<1>2. Round(r, "pre").kind = "pre" /\ Round(r, "post").kind = "post"
  BY DEF Round
<1>3. Ran(r, <<>>) => Kinds(r) = <<>> BY <1>1, NoKinds DEF Ran
<1>4. Ran(r, Before(r)) => Kinds(r) = <<"pre">>
  <2>1. KindsIn(Before(r)) = <<"pre">> BY <1>2, OneKind DEF Before
  <2>2. QED BY <1>1, <2>1 DEF Ran
<1>5. Ran(r, Both(r)) => Kinds(r) = <<"pre", "post">>
  <2>1. KindsIn(Both(r)) = <<"pre", "post">> BY <1>2, TwoKinds DEF Both
  <2>2. QED BY <1>1, <2>1 DEF Ran
<1>6. QED BY <1>3, <1>4, <1>5

-----------------------------------------------------------------------------
(***************************************************************************)
(* Places.                                                                 *)
(***************************************************************************)

\* What PlaceOK says of a request it says of it again if nothing changed that
\* is the request's own.
Same(s) ==
  /\ at'[s] = at[s] /\ stage'[s] = stage[s] /\ sent'[s] = sent[s]
  /\ hooks'[s] = hooks[s] /\ upstream'[s] = upstream[s]
  /\ received'[s] = received[s] /\ wroteHeader'[s] = wroteHeader[s]

LEMMA PlaceKept ==
  ASSUME NEW s \in Reqs, PlaceOK(s), Same(s), req' = req
  PROVE  PlaceOK(s)'
BY DEF Same, PlaceOK, AtEntry, AtForward, AtRoundTrip, AtRelay, AtCopying,
       AtNext, Untouched, Answered, Thrown, Silent, Ran, Before, Both, Round,
       Hooked, Proxied

\* A step of one request leaves the others as they are.
LEMMA OthersKept ==
  ASSUME TypeOK, NEW r \in Reqs,
         Filtered(r) \/ Runs(r) \/ Waits(r) \/ Nexts(r) \/ Serves(r) \/ Leave(r)
  PROVE  req' = req /\ \A s \in Reqs \ {r} : Same(s)
<1>1. /\ DOMAIN stage = Reqs /\ DOMAIN sent = Reqs /\ DOMAIN at = Reqs
      /\ DOMAIN hooks = Reqs /\ DOMAIN upstream = Reqs
      /\ DOMAIN received = Reqs /\ DOMAIN wroteHeader = Reqs
  BY DEF TypeOK, FiltersTypeOK
<1>2. ASSUME Arrive(r) \/ PassFilters(r)
      PROVE  /\ req' = req
             /\ \A s \in Reqs \ {r} : stage'[s] = stage[s] /\ sent'[s] = sent[s]
  BY <1>1, <1>2
  DEF Arrive, PassFilters, EnterInactive, EnterAudit, EnterMetrics,
      EnterLogging, LeaveInactive, LeaveAudit, LeaveMetrics, LeaveLogging,
      Unwind, Finish, Entering, Leaving
<1>3. /\ \A c : Sends(r, c) \/ Answers(r, c) =>
              /\ req' = req
              /\ \A s \in Reqs \ {r} :
                   stage'[s] = stage[s] /\ sent'[s] = sent[s]
      /\ Returns(r) \/ Panics(r) =>
              /\ req' = req
              /\ \A s \in Reqs \ {r} :
                   stage'[s] = stage[s] /\ sent'[s] = sent[s]
  BY <1>1 DEF Sends, Answers, Writes, Returns, Panics, Ends
<1>4. \A place : Goto(r, place) => \A s \in Reqs \ {r} : at'[s] = at[s]
  BY <1>1 DEF Goto
<1>5. \A kind : HooksRun(r, kind) => \A s \in Reqs \ {r} : hooks'[s] = hooks[s]
  BY RoundRun
<1>6. CASE Filtered(r)
  BY <1>2, <1>6 DEF Filtered, Same, proxyVars
<1>7. CASE NotConfigured(r) \/ RoundTripFails(r) \/ CopyEnds(r) \/ NextReturns(r)
           \/ Local(r)
  BY <1>3, <1>7
  DEF NotConfigured, RoundTripFails, CopyEnds, NextReturns, Local, Same, proxyVars
<1>8. CASE RunPreHooks(r) \/ RunPostHooks(r) \/ MiddlewarePreHooks(r)
  BY <1>3, <1>4, <1>5, <1>8
  DEF RunPreHooks, RunPostHooks, MiddlewarePreHooks, HooksPanic, Same, filterVars
<1>9. CASE Forward(r) \/ Relay(r)
  BY <1>3, <1>4, <1>9 DEF Forward, Relay, Same, filterVars
<1>10. CASE NextWriteHeader(r)
  BY <1>1, <1>3, <1>10 DEF NextWriteHeader, Same
<1>11. CASE NextWrite(r)
  BY <1>1, <1>3, <1>5, <1>11
  DEF NextWrite, HooksPanic, Marked, Same, filterVars
<1>12. CASE Serves(r) \/ Leave(r)
  BY <1>1, <1>12 DEF Serves, Leave, Same, filterVars
<1>13. QED
  BY <1>6, <1>7, <1>8, <1>9, <1>10, <1>11, <1>12 DEF Runs, Waits, Nexts

\* What the endpoint's acts do to the stage and the answer of their request.
LEMMA Acts ==
  ASSUME TypeOK, NEW r \in Reqs
  PROVE  /\ \A c : Answers(r, c) =>
              /\ req' = req /\ stage[r] = "down" /\ sent[r] = 0
              /\ stage'[r] = "up" /\ sent'[r] = c
         /\ \A c : Sends(r, c) =>
              /\ req' = req /\ stage[r] = "down" /\ sent[r] = 0
              /\ stage'[r] = "down" /\ sent'[r] = c
         /\ Returns(r) =>
              /\ req' = req /\ stage[r] = "down"
              /\ stage'[r] = "up" /\ sent'[r] = sent[r]
         /\ Panics(r) =>
              /\ req' = req /\ stage[r] = "down"
              /\ stage'[r] = "panic" /\ sent'[r] = sent[r]
         /\ \A place : Goto(r, place) => at'[r] = place
         /\ UNCHANGED filterVars =>
              req' = req /\ stage'[r] = stage[r] /\ sent'[r] = sent[r]
<1>1. /\ DOMAIN stage = Reqs /\ DOMAIN sent = Reqs /\ DOMAIN at = Reqs
  BY DEF TypeOK, FiltersTypeOK
<1>2. QED
  BY <1>1
  DEF Answers, Sends, Returns, Panics, Ends, Writes, AtEndpoint, Goto, filterVars

\* Filters leave a request in its place: it is silent until its endpoint runs,
\* and what it was answered stays.
LEMMA FilteredPlace ==
  ASSUME ProxyInv, NEW r \in Reqs, Filtered(r)
  PROVE  PlaceOK(r)'
<1>1. PlaceOK(r) /\ TypeOK BY DEF ProxyInv
<1>2. /\ UNCHANGED proxyVars /\ req' = req
      /\ \/ Arrive(r) \/ Finish(r)
         \/ stage' = stage /\ sent' = sent
  BY OthersKept, <1>1
  DEF Filtered, PassFilters, EnterInactive, EnterAudit, EnterMetrics,
      EnterLogging, LeaveInactive, LeaveAudit, LeaveMetrics, LeaveLogging,
      Unwind, Entering, Leaving
<1>3. CASE stage' = stage /\ sent' = sent
  <2>1. Same(r) BY <1>2, <1>3 DEF Same, proxyVars
  <2>2. QED BY <1>1, <1>2, <2>1, PlaceKept
<1>4. CASE Arrive(r)
  <2>1. /\ stage[r] = "idle" /\ stage'[r] = "down" /\ sent'[r] = sent[r]
        /\ sent[r] = 0
    BY <1>1, <1>4
    DEF Arrive, TypeOK, FiltersTypeOK, ProxyInv, FiltersInv, SentByEndpoint
  <2>2. at[r] \in Places BY <1>1 DEF TypeOK
  <2>3. at[r] = "entry"
    <3>1. ~ Silent(r) /\ ~ Thrown(r) /\ \A c : ~ Answered(r, c)
      BY <2>1 DEF Silent, Thrown, Answered
    <3>2. QED
      BY <1>1, <2>1, <2>2, <3>1
      DEF PlaceOK, AtForward, AtRoundTrip, AtRelay, AtCopying, AtNext, Places
  <2>4. AtEntry(r) BY <1>1, <2>3 DEF PlaceOK
  <2>5. Untouched(r) /\ Ran(r, <<>>) BY <2>1, <2>4 DEF AtEntry, Thrown
  <2>6. Untouched(r)' /\ Ran(r, <<>>)' /\ at'[r] = "entry"
    BY <1>2, <2>3, <2>5 DEF Untouched, Ran, Hooked, proxyVars
  <2>7. Silent(r)' BY <2>1 DEF Silent
  <2>8. QED BY <2>6, <2>7 DEF PlaceOK, AtEntry
<1>5. CASE Finish(r)
  <2>1. \/ /\ stage[r] = "up" /\ stage'[r] = "done"
           /\ sent'[r] = IF sent[r] = 0 THEN 200 ELSE sent[r]
        \/ /\ stage[r] = "panic" /\ stage'[r] = "aborted"
           /\ sent'[r] = sent[r]
    BY <1>1, <1>5 DEF Finish, TypeOK, FiltersTypeOK
  <2>2. QED
    BY <1>1, <1>2, <2>1
    DEF PlaceOK, AtEntry, AtForward, AtRoundTrip, AtRelay, AtCopying, AtNext,
        Untouched, Answered, Thrown, Silent, Ran, Before, Both, Round, Hooked,
        Proxied, proxyVars
<1>6. QED BY <1>2, <1>3, <1>4, <1>5

\* What the proxy's own steps do to the place of their request, up to the
\* round trip.
LEMMA ForwardPlace ==
  ASSUME ProxyInv, NEW r \in Reqs,
         NotConfigured(r) \/ RunPreHooks(r) \/ Forward(r) \/ Serves(r)
         \/ RoundTripFails(r)
  PROVE  PlaceOK(r)'
<1>1. PlaceOK(r) /\ TypeOK BY DEF ProxyInv
<1>2. req' = req BY OthersKept, <1>1 DEF Runs, Waits
<1>3. CASE NotConfigured(r)
  <2>1. /\ at[r] = "entry" /\ Proxied(r) /\ UNCHANGED proxyVars
        /\ stage[r] = "down" /\ stage'[r] = "up" /\ sent'[r] = 502
    BY <1>1, <1>3, Acts DEF NotConfigured, At
  <2>2. Untouched(r) /\ Ran(r, <<>>)
    BY <1>1, <2>1 DEF PlaceOK, AtEntry, Thrown
  <2>3. Untouched(r)' /\ Ran(r, <<>>)' /\ Proxied(r)' /\ at'[r] = "entry"
    BY <1>2, <2>1, <2>2 DEF Untouched, Ran, Hooked, Proxied, proxyVars
  <2>4. Answered(r, 502)' BY <2>1 DEF Answered
  <2>5. QED BY <2>3, <2>4 DEF PlaceOK, AtEntry
<1>4. CASE RunPreHooks(r)
  <2>1. /\ at[r] = "entry" /\ Proxied(r) /\ HooksRun(r, "pre")
        /\ UNCHANGED <<upstream, received, wroteHeader>>
        /\ stage[r] = "down" /\ sent'[r] = sent[r]
        /\ \/ at'[r] = "forward" /\ stage'[r] = "down"
           \/ at'[r] = "entry" /\ stage'[r] = "panic"
    BY <1>1, <1>4, Acts DEF RunPreHooks, HooksPanic, At, AtEndpoint
  <2>2. Untouched(r) /\ Ran(r, <<>>) /\ Silent(r)
    BY <1>1, <2>1 DEF PlaceOK, AtEntry, Thrown, Answered, Proxied
  <2>3. Untouched(r)' /\ Proxied(r)'
    BY <1>2, <2>1, <2>2 DEF Untouched, Proxied
  <2>4. Ran(r, Before(r))'
    BY <1>1, <1>2, <2>1, <2>2, RoundRun DEF Ran, Before, Round, Hooked
  <2>5. IF at'[r] = "forward" THEN Silent(r)' ELSE Thrown(r)'
    BY <2>1, <2>2 DEF Silent, Thrown
  <2>6. QED BY <2>1, <2>3, <2>4, <2>5 DEF PlaceOK, AtEntry, AtForward
<1>5. CASE Forward(r)
  <2>1. /\ at[r] = "forward"
        /\ UNCHANGED <<hooks, upstream, received, wroteHeader>>
        /\ stage[r] = "down"
        /\ \/ /\ ~ req[r].parses /\ at'[r] = "forward"
              /\ stage'[r] = "up" /\ sent'[r] = 500
           \/ at'[r] = "roundTrip" /\ stage'[r] = "down" /\ sent'[r] = sent[r]
    BY <1>1, <1>5, Acts DEF Forward, At, AtEndpoint
  <2>2. Untouched(r) /\ Ran(r, Before(r)) /\ Silent(r) /\ Proxied(r)
    BY <1>1, <2>1 DEF PlaceOK, AtForward, Answered
  <2>3. Untouched(r)' /\ Proxied(r)' /\ Ran(r, Before(r))'
    BY <1>2, <2>1, <2>2 DEF Untouched, Proxied, Ran, Before, Round, Hooked
  <2>4. IF at'[r] = "forward" THEN Answered(r, 500)' /\ ~ req'[r].parses
                              ELSE Silent(r)'
    BY <1>2, <2>1, <2>2 DEF Silent, Answered
  <2>5. QED BY <2>1, <2>3, <2>4 DEF PlaceOK, AtForward, AtRoundTrip
<1>6. CASE Serves(r)
  <2>1. /\ at[r] = "roundTrip" /\ UNCHANGED <<at, hooks, wroteHeader>>
        /\ stage' = stage /\ sent' = sent /\ stage[r] = "down"
    BY <1>6 DEF Serves, At, AtEndpoint, filterVars
  <2>2. Proxied(r) /\ Ran(r, Before(r)) /\ Silent(r)
    BY <1>1, <2>1 DEF PlaceOK, AtRoundTrip, Thrown, Answered
  <2>3. Proxied(r)' /\ Ran(r, Before(r))' /\ Silent(r)' /\ at'[r] = "roundTrip"
    BY <1>2, <2>1, <2>2 DEF Proxied, Ran, Before, Round, Hooked, Silent
  <2>4. QED BY <2>3 DEF PlaceOK, AtRoundTrip
<1>7. CASE RoundTripFails(r)
  <2>1. /\ at[r] = "roundTrip" /\ UNCHANGED proxyVars
        /\ stage[r] = "down" /\ stage'[r] = "up" /\ sent'[r] = 502
    BY <1>1, <1>7, Acts DEF RoundTripFails, At
  <2>2. Proxied(r) /\ Ran(r, Before(r))
    BY <1>1, <2>1 DEF PlaceOK, AtRoundTrip, Thrown
  <2>3. Proxied(r)' /\ Ran(r, Before(r))' /\ at'[r] = "roundTrip"
    BY <1>2, <2>1, <2>2 DEF Proxied, Ran, Before, Round, Hooked, proxyVars
  <2>4. Answered(r, 502)' BY <2>1 DEF Answered
  <2>5. QED BY <2>3, <2>4 DEF PlaceOK, AtRoundTrip
<1>8. QED BY <1>3, <1>4, <1>5, <1>6, <1>7

\* From the answer of the round trip to the end of its body.
LEMMA RelayPlace ==
  ASSUME ProxyInv, NEW r \in Reqs,
         RunPostHooks(r) \/ Relay(r) \/ CopyEnds(r)
  PROVE  PlaceOK(r)'
<1>1. PlaceOK(r) /\ TypeOK BY DEF ProxyInv
<1>2. req' = req BY OthersKept, <1>1 DEF Runs, Waits
<1>3. CASE RunPostHooks(r)
  <2>1. /\ at[r] = "roundTrip" /\ HooksRun(r, "post")
        /\ upstream[r] # 0 /\ upstream'[r] = upstream[r]
        /\ stage[r] = "down" /\ sent'[r] = sent[r]
        /\ \/ at'[r] = "relay" /\ stage'[r] = "down"
           \/ at'[r] = "roundTrip" /\ stage'[r] = "panic"
    BY <1>1, <1>3, Acts DEF RunPostHooks, OnSuccess, HooksPanic, At, AtEndpoint
  <2>2. Proxied(r) /\ Ran(r, Before(r)) /\ Silent(r)
    BY <1>1, <2>1 DEF PlaceOK, AtRoundTrip, Thrown, Answered
  <2>3. Ran(r, Both(r))'
    BY <1>1, <1>2, <2>1, <2>2, RoundRun DEF Ran, Both, Round, Hooked
  <2>4. IF at'[r] = "relay" THEN Silent(r)' ELSE Thrown(r)'
    BY <2>1, <2>2 DEF Silent, Thrown
  <2>5. Proxied(r)' BY <1>2, <2>2 DEF Proxied
  <2>6. QED BY <2>1, <2>3, <2>4, <2>5 DEF PlaceOK, AtRoundTrip, AtRelay
<1>4. CASE Relay(r)
  <2>1. /\ at[r] = "relay" /\ at'[r] = "copying"
        /\ UNCHANGED <<hooks, upstream>>
        /\ stage'[r] = "down" /\ sent'[r] = upstream[r]
    BY <1>1, <1>4, Acts DEF Relay, Relayed, At
  <2>2. Proxied(r) /\ Ran(r, Both(r)) /\ upstream[r] # 0
    BY <1>1, <2>1 DEF PlaceOK, AtRelay
  <2>3. Proxied(r)' /\ Ran(r, Both(r))'
    BY <1>2, <2>1, <2>2 DEF Proxied, Ran, Both, Round, Hooked
  <2>4. QED BY <2>1, <2>2, <2>3 DEF PlaceOK, AtCopying
<1>5. CASE CopyEnds(r)
  <2>1. /\ at[r] = "copying" /\ UNCHANGED proxyVars
        /\ stage'[r] = "up" /\ sent'[r] = sent[r]
    BY <1>1, <1>5, Acts DEF CopyEnds, At
  <2>2. AtCopying(r) BY <1>1, <2>1 DEF PlaceOK
  <2>3. Proxied(r)' /\ Ran(r, Both(r))'
    BY <1>2, <2>1, <2>2 DEF AtCopying, Proxied, Ran, Both, Round, Hooked, proxyVars
  <2>4. QED BY <2>1, <2>2, <2>3 DEF PlaceOK, AtCopying, proxyVars
<1>6. QED BY <1>3, <1>4, <1>5

\* The middleware around a handler.
LEMMA MiddlewarePlace ==
  ASSUME ProxyInv, NEW r \in Reqs,
         \/ MiddlewarePreHooks(r) \/ NextWriteHeader(r)
         \/ NextWrite(r) \/ NextReturns(r)
  PROVE  PlaceOK(r)'
<1>1. PlaceOK(r) /\ TypeOK BY DEF ProxyInv
<1>2. req' = req BY OthersKept, <1>1 DEF Runs, Nexts
<1>3. CASE MiddlewarePreHooks(r)
  <2>1. /\ at[r] = "entry" /\ req[r].route = "middleware" /\ HooksRun(r, "pre")
        /\ UNCHANGED <<upstream, received, wroteHeader>>
        /\ stage[r] = "down" /\ sent'[r] = sent[r]
        /\ \/ at'[r] = "next" /\ stage'[r] = "down"
           \/ at'[r] = "entry" /\ stage'[r] = "panic"
    BY <1>1, <1>3, Acts DEF MiddlewarePreHooks, HooksPanic, Route, AtEndpoint
  <2>2. Untouched(r) /\ Ran(r, <<>>) /\ Silent(r)
    BY <1>1, <2>1 DEF PlaceOK, AtEntry, Thrown, Answered, Proxied
  <2>3. Untouched(r)' BY <2>1, <2>2 DEF Untouched
  <2>4. Ran(r, Before(r))'
    BY <1>1, <1>2, <2>1, <2>2, RoundRun DEF Ran, Before, Round, Hooked
  <2>5. IF at'[r] = "next" THEN Silent(r)' ELSE Thrown(r)'
    BY <2>1, <2>2 DEF Silent, Thrown
  <2>6. sent'[r] = 0 /\ wroteHeader'[r] = FALSE
    BY <2>1, <2>2 DEF Silent, Untouched
  <2>7. QED
    BY <1>2, <2>1, <2>3, <2>4, <2>5, <2>6 DEF PlaceOK, AtEntry, AtNext
<1>4. CASE NextWriteHeader(r)
  <2>1. PICK c : Sends(r, c) BY <1>4 DEF NextWriteHeader
  <2>2. /\ at[r] = "next" /\ at'[r] = "next" /\ hooks' = hooks
        /\ stage[r] = "down" /\ stage'[r] = "down"
        /\ wroteHeader'[r] = TRUE
    BY <1>1, <1>4, <2>1, Acts DEF NextWriteHeader, At, TypeOK
  <2>3. req[r].route = "middleware" /\ (Ran(r, Before(r)) \/ Ran(r, Both(r)))
    BY <1>1, <2>2 DEF PlaceOK, AtNext
  <2>4. Ran(r, Before(r))' \/ Ran(r, Both(r))'
    BY <1>2, <2>2, <2>3 DEF Ran, Before, Both, Round, Hooked
  <2>5. QED BY <1>2, <2>2, <2>3, <2>4 DEF PlaceOK, AtNext
<1>5. CASE NextWrite(r)
  <2>1. /\ at[r] = "next" /\ at'[r] = "next" /\ stage[r] = "down"
    BY <1>5 DEF NextWrite, At, AtEndpoint
  <2>2. AtNext(r) BY <1>1, <2>1 DEF PlaceOK
  <2>3. CASE wroteHeader[r]
    <3>1. UNCHANGED <<hooks, wroteHeader>> /\ stage' = stage
      BY <1>5, <2>3 DEF NextWrite, filterVars
    <3>2. wroteHeader[r] = TRUE BY <1>1, <2>3 DEF TypeOK
    <3>3. Ran(r, Before(r)) \/ Ran(r, Both(r)) BY <2>2, <3>2 DEF AtNext
    <3>4. Ran(r, Before(r))' \/ Ran(r, Both(r))'
      BY <1>2, <3>1, <3>3 DEF Ran, Before, Both, Round, Hooked
    <3>5. QED
      BY <1>2, <2>1, <2>2, <3>1, <3>2, <3>4 DEF PlaceOK, AtNext
  <2>4. CASE ~ wroteHeader[r]
    <3>1. wroteHeader[r] = FALSE BY <1>1, <2>4 DEF TypeOK
    <3>2. Ran(r, Before(r)) /\ Silent(r) /\ req[r].route = "middleware"
      BY <2>1, <2>2, <3>1 DEF AtNext, Thrown
    <3>3. HooksRun(r, "post")
      BY <1>5, <2>4 DEF NextWrite, HooksPanic
    <3>4. Ran(r, Both(r))'
      BY <1>1, <1>2, <3>2, <3>3, RoundRun DEF Ran, Both, Round, Hooked
    <3>5. CASE wroteHeader' = Marked(r)
               /\ IF sent[r] = 0 THEN Sends(r, 200) ELSE UNCHANGED filterVars
      <4>1. wroteHeader'[r] = TRUE BY <1>1, <3>5 DEF Marked, TypeOK
      <4>2. stage'[r] = "down" BY <1>1, <2>1, <3>5, Acts
      <4>3. QED
        BY <1>2, <2>1, <3>2, <3>4, <4>1, <4>2 DEF PlaceOK, AtNext
    <3>6. CASE HooksPanic(r, "post") /\ UNCHANGED wroteHeader
      <4>1. stage'[r] = "panic" /\ sent'[r] = 0 /\ wroteHeader'[r] = FALSE
        BY <1>1, <3>1, <3>2, <3>6, Acts DEF HooksPanic, Silent
      <4>2. Thrown(r)' BY <4>1 DEF Thrown
      <4>3. QED
        BY <1>2, <2>1, <3>2, <3>4, <4>1, <4>2 DEF PlaceOK, AtNext
    <3>7. QED BY <1>5, <2>4, <3>5, <3>6 DEF NextWrite
  <2>5. QED BY <2>3, <2>4
<1>6. CASE NextReturns(r)
  <2>1. /\ at[r] = "next" /\ UNCHANGED proxyVars
        /\ stage[r] = "down" /\ stage'[r] = "up" /\ sent'[r] = sent[r]
    BY <1>1, <1>6, Acts DEF NextReturns, At
  <2>2. AtNext(r) BY <1>1, <2>1 DEF PlaceOK
  <2>3. /\ wroteHeader'[r] = wroteHeader[r] /\ at'[r] = "next"
        /\ Ran(r, Before(r))' <=> Ran(r, Before(r))
        /\ Ran(r, Both(r))' <=> Ran(r, Both(r))
    BY <1>2, <2>1 DEF Ran, Before, Both, Round, Hooked, proxyVars
  <2>4. QED
    BY <1>2, <2>1, <2>2, <2>3 DEF PlaceOK, AtNext, Silent, Thrown
<1>7. QED BY <1>3, <1>4, <1>5, <1>6

\* The other endpoints, and the client.
LEMMA LocalPlace ==
  ASSUME ProxyInv, NEW r \in Reqs, Local(r) \/ Leave(r)
  PROVE  PlaceOK(r)'
<1>1. PlaceOK(r) /\ TypeOK BY DEF ProxyInv
<1>2. req' = req BY OthersKept, <1>1 DEF Runs
<1>3. CASE Leave(r)
  BY <1>1, <1>2, <1>3, PlaceKept DEF Leave, Same, filterVars
<1>4. CASE Local(r)
  <2>1. /\ req[r].route \in {"local", "none"} /\ UNCHANGED proxyVars
        /\ stage[r] = "down"
    BY <1>1, <1>4, Acts DEF Local, Route
  <2>2. ~ Proxied(r) /\ req[r].route # "middleware" BY <2>1 DEF Proxied
  <2>3. at[r] \in Places BY <1>1 DEF TypeOK
  <2>4. at[r] = "entry"
    BY <1>1, <2>2, <2>3
    DEF PlaceOK, AtForward, AtRoundTrip, AtRelay, AtCopying, AtNext, Places
  <2>5. Untouched(r) /\ Ran(r, <<>>)
    BY <1>1, <2>1, <2>4 DEF PlaceOK, AtEntry, Thrown
  <2>6. Untouched(r)' /\ Ran(r, <<>>)' /\ at'[r] = "entry"
    BY <1>2, <2>1, <2>4, <2>5 DEF Untouched, Ran, Hooked, proxyVars
  <2>7. QED BY <1>2, <2>1, <2>6 DEF PlaceOK, AtEntry
<1>5. QED BY <1>3, <1>4

\* Every step keeps every request in its place.
LEMMA PlacesKept ==
  ASSUME ProxyInv, [Next]_vars
  PROVE  \A s \in Reqs : PlaceOK(s)'
<1> SUFFICES ASSUME NEW s \in Reqs PROVE PlaceOK(s)'
  OBVIOUS
<1>1. PlaceOK(s) /\ TypeOK BY DEF ProxyInv
<1>2. CASE UNCHANGED vars
  BY <1>1, <1>2, PlaceKept DEF Same, vars, filterVars, proxyVars
<1>3. ASSUME NEW r \in Reqs,
             Filtered(r) \/ Runs(r) \/ Waits(r) \/ Nexts(r) \/ Serves(r) \/ Leave(r)
      PROVE  PlaceOK(s)'
  <2>1. CASE s # r BY <1>1, <1>3, <2>1, OthersKept, PlaceKept
  <2>2. CASE s = r
    BY <1>3, <2>2, FilteredPlace, ForwardPlace, RelayPlace, MiddlewarePlace,
       LocalPlace
    DEF Runs, Waits, Nexts
  <2>3. QED BY <2>1, <2>2
<1>4. QED BY <1>2, <1>3 DEF Next

-----------------------------------------------------------------------------
(***************************************************************************)
(* Types, and the theorems.                                                *)
(***************************************************************************)

\* In every place no rounds were run, one or two, so rounds have their type.
RoundType == [kind : {"pre", "post"}, target : {Target(q) : q \in Menu}]

LEMMA RoundsType ==
  ASSUME NEW r \in Reqs, req'[r] \in Menu, at'[r] \in Places, PlaceOK(r)'
  PROVE  hooks'[r] \in Seq(RoundType) /\ Len(hooks'[r]) <= 2
<1> DEFINE pre == Round(r, "pre")'
           post == Round(r, "post")'
<1>1. pre \in RoundType /\ post \in RoundType
  BY DEF Round, RoundType
<1>2. Ran(r, <<>>)' \/ Ran(r, Before(r))' \/ Ran(r, Both(r))'
  BY DEF Places, PlaceOK, AtEntry, AtForward, AtRoundTrip, AtRelay, AtCopying,
         AtNext
<1>3. hooks'[r] = <<>> \/ hooks'[r] = <<pre>> \/ hooks'[r] = <<pre, post>>
  BY <1>2 DEF Ran, Before, Both
<1> HIDE DEF pre, post
<1>4. CASE hooks'[r] = <<>> BY <1>4
<1>5. CASE hooks'[r] = <<pre>> BY <1>1, <1>5
<1>6. CASE hooks'[r] = <<pre, post>> BY <1>1, <1>6
<1>7. QED BY <1>3, <1>4, <1>5, <1>6

\* The kube-apiserver is given the body the filters left.
LEMMA ReceivedStep ==
  ASSUME ProxyInv, [Next]_vars, CutByAudit', config' = config
  PROVE  ForwardedWhole'
<1>1. ForwardedWhole /\ received \in [Reqs -> Bodies \cup {"none"}]
  BY DEF ProxyInv, TypeOK
<1>2. received' = received
      \/ \E r \in Reqs : received' = [received EXCEPT ![r] = body[r]] /\ body' = body
  BY Zenon
  DEF Next, vars, proxyVars, filterVars, Filtered, Runs, NotConfigured,
      RunPreHooks, Forward, Relay, MiddlewarePreHooks, Local, Waits,
      RoundTripFails, RunPostHooks, CopyEnds, Nexts, NextWriteHeader, NextWrite,
      NextReturns, Serves, Leave
<1>3. CASE received' = received
  BY <1>1, <1>3 DEF ForwardedWhole
<1>4. ASSUME NEW r \in Reqs, received' = [received EXCEPT ![r] = body[r]],
             body' = body
      PROVE  ForwardedWhole'
  BY <1>1, <1>4 DEF ForwardedWhole, CutByAudit, ReadsBody
<1>5. QED BY <1>2, <1>3, <1>4

LEMMA TypeStep ==
  ASSUME ProxyInv, [Next]_vars, FiltersTypeOK', (\A r \in Reqs : PlaceOK(r))'
  PROVE  TypeOK'
<1>1. /\ at \in [Reqs -> Places] /\ upstream \in [Reqs -> Codes]
      /\ received \in [Reqs -> Bodies \cup {"none"}]
      /\ wroteHeader \in [Reqs -> BOOLEAN] /\ gone \in [Reqs -> BOOLEAN]
      /\ DOMAIN hooks = Reqs /\ body \in [Reqs -> Bodies]
  BY DEF ProxyInv, TypeOK, FiltersTypeOK
<1>2. at' \in [Reqs -> Places]
  <2>1. at' = at \/ \E r \in Reqs, p \in Places : at' = [at EXCEPT ![r] = p]
    BY Zenon
    DEF Next, vars, proxyVars, Filtered, Runs, NotConfigured,
        RunPreHooks, Forward, Relay, MiddlewarePreHooks, Local, Waits,
        RoundTripFails, RunPostHooks, CopyEnds, Nexts, NextWriteHeader,
        NextWrite, NextReturns, Serves, Leave, Goto, Places
  <2>2. QED BY <1>1, <2>1
<1>3. upstream' \in [Reqs -> Codes]
  <2>1. upstream' = upstream
        \/ \E r \in Reqs, c \in Replies : upstream' = [upstream EXCEPT ![r] = c]
    BY Zenon
    DEF Next, vars, proxyVars, Filtered, Runs, NotConfigured,
        RunPreHooks, Forward, Relay, MiddlewarePreHooks, Local, Waits,
        RoundTripFails, RunPostHooks, CopyEnds, Nexts, NextWriteHeader,
        NextWrite, NextReturns, Serves, Leave
  <2>2. QED BY <1>1, <2>1, RepliesAssumption DEF Codes
<1>4. received' \in [Reqs -> Bodies \cup {"none"}]
  <2>1. received' = received
        \/ \E r \in Reqs : received' = [received EXCEPT ![r] = body[r]]
    BY Zenon
    DEF Next, vars, proxyVars, Filtered, Runs, NotConfigured,
        RunPreHooks, Forward, Relay, MiddlewarePreHooks, Local, Waits,
        RoundTripFails, RunPostHooks, CopyEnds, Nexts, NextWriteHeader,
        NextWrite, NextReturns, Serves, Leave
  <2>2. QED BY <1>1, <2>1
<1>5. wroteHeader' \in [Reqs -> BOOLEAN]
  <2>1. wroteHeader' = wroteHeader
        \/ \E r \in Reqs : wroteHeader' = [wroteHeader EXCEPT ![r] = TRUE]
    BY Zenon
    DEF Next, vars, proxyVars, Filtered, Runs, NotConfigured,
        RunPreHooks, Forward, Relay, MiddlewarePreHooks, Local, Waits,
        RoundTripFails, RunPostHooks, CopyEnds, Nexts, NextWriteHeader,
        NextWrite, NextReturns, Serves, Leave, Marked
  <2>2. QED BY <1>1, <2>1
<1>6. gone' \in [Reqs -> BOOLEAN]
  <2>1. gone' = gone \/ \E r \in Reqs : gone' = [gone EXCEPT ![r] = TRUE]
    BY Zenon
    DEF Next, vars, proxyVars, Filtered, Runs, NotConfigured,
        RunPreHooks, Forward, Relay, MiddlewarePreHooks, Local, Waits,
        RoundTripFails, RunPostHooks, CopyEnds, Nexts, NextWriteHeader,
        NextWrite, NextReturns, Serves, Leave
  <2>2. QED BY <1>1, <2>1
<1>7. /\ hooks' \in [Reqs -> Seq(RoundType)]
      /\ \A r \in Reqs : Len(hooks'[r]) <= 2
  <2>1. hooks' = hooks
        \/ \E r \in Reqs : \E e : hooks' = [hooks EXCEPT ![r] = e]
    BY Zenon
    DEF Next, vars, proxyVars, Filtered, Runs, NotConfigured,
        RunPreHooks, Forward, Relay, MiddlewarePreHooks, Local, Waits,
        RoundTripFails, RunPostHooks, CopyEnds, Nexts, NextWriteHeader,
        NextWrite, NextReturns, Serves, Leave, HooksPanic, HooksRun
  <2>2. hooks' = [r \in Reqs |-> hooks'[r]]
    <3>1. hooks = [r \in Reqs |-> hooks[r]]
      BY DEF ProxyInv, TypeOK
    <3>2. CASE hooks' = hooks BY <3>1, <3>2
    <3>3. ASSUME NEW r \in Reqs, NEW e, hooks' = [hooks EXCEPT ![r] = e]
          PROVE  hooks' = [s \in Reqs |-> hooks'[s]]
      BY <1>1, <3>3
    <3>4. QED BY <2>1, <3>2, <3>3
  <2>3. req' \in [Reqs -> Menu] BY DEF FiltersTypeOK
  <2>4. ASSUME NEW r \in Reqs
        PROVE  hooks'[r] \in Seq(RoundType) /\ Len(hooks'[r]) <= 2
    <3>1. req'[r] \in Menu /\ at'[r] \in Places /\ PlaceOK(r)'
      BY <1>2, <2>3
    <3>2. QED BY <3>1, RoundsType
  <2>5. QED BY <2>2, <2>4
<1>8. QED
  BY <1>2, <1>3, <1>4, <1>5, <1>6, <1>7 DEF TypeOK, RoundType

\* The configuration is never changed.
LEMMA ConfigKept ==
  ASSUME [FiltersNext]_filterVars, SentByEndpoint, FiltersTypeOK
  PROVE  config' = config
<1>1. CASE UNCHANGED filterVars BY <1>1 DEF filterVars
<1>2. CASE FiltersNext
  BY <1>2
  DEF FiltersNext, Arrive, PassFilters, Endpoint, EnterInactive, EnterAudit,
      EnterMetrics, EnterLogging, Entering, LeaveInactive, LeaveAudit,
      LeaveMetrics, LeaveLogging, Leaving, Unwind, Finish, Sends, Answers,
      Returns, Panics, Ends
<1>3. QED BY <1>1, <1>2

LEMMA InitProxy == Init => ProxyInv
<1> SUFFICES ASSUME Init PROVE ProxyInv
  OBVIOUS
<1>1. FiltersInv /\ FiltersTypeOK BY InitFilters DEF Init, FiltersInv
<1>2. /\ \A r \in Reqs : /\ at[r] = "entry" /\ hooks[r] = <<>>
                         /\ upstream[r] = 0 /\ received[r] = "none"
                         /\ wroteHeader[r] = FALSE /\ stage[r] = "idle"
  BY DEF Init, FiltersInit
<1>3. TypeOK
  <2>1. "entry" \in Places /\ 0 \in Codes BY DEF Places, Codes
  <2>2. hooks \in [Reqs -> Seq(RoundType)] BY DEF Init
  <2>3. \A r \in Reqs : Len(hooks[r]) <= 2 BY <1>2
  <2>4. /\ at \in [Reqs -> Places] /\ upstream \in [Reqs -> Codes]
        /\ received \in [Reqs -> Bodies \cup {"none"}]
        /\ wroteHeader \in [Reqs -> BOOLEAN] /\ gone \in [Reqs -> BOOLEAN]
    BY <2>1 DEF Init
  <2>5. QED BY <1>1, <2>2, <2>3, <2>4 DEF TypeOK, RoundType
<1>4. ForwardedWhole BY <1>2 DEF ForwardedWhole
<1>5. \A r \in Reqs : PlaceOK(r)
  BY <1>2 DEF PlaceOK, AtEntry, Untouched, Ran
<1>6. QED BY <1>1, <1>3, <1>4, <1>5 DEF ProxyInv

LEMMA NextProxy == ProxyInv /\ [Next]_vars => ProxyInv'
<1> SUFFICES ASSUME ProxyInv, [Next]_vars PROVE ProxyInv'
  OBVIOUS
<1>1. [FiltersNext]_filterVars BY EndpointStep
<1>2. FiltersInv' BY <1>1, NextFilters DEF ProxyInv
<1>3. FiltersTypeOK' /\ CutByAudit' BY <1>2 DEF FiltersInv
<1>4. (\A r \in Reqs : PlaceOK(r))' BY PlacesKept
<1>5. config' = config BY <1>1, ConfigKept DEF ProxyInv, FiltersInv
<1>6. ForwardedWhole' BY <1>3, <1>5, ReceivedStep
<1>7. TypeOK' BY <1>3, <1>4, TypeStep
<1>8. QED BY <1>2, <1>4, <1>6, <1>7 DEF ProxyInv

\* The inductive invariant of the proxy inside the filters: what each place of
\* an endpoint says of its request, and all that the filters know.
THEOREM ProxyInvariance == Spec => []ProxyInv
<1>1. QED BY InitProxy, NextProxy, PTL DEF Spec

\* The endpoints of the proxy, the resource handlers and the router are
\* endpoints as the filters take them: they send at most one status, one that
\* net/http knows, before they return or panic.
THEOREM EndpointsConform == Spec => ConformsToFilters
<1>1. Init => FiltersInit BY DEF Init
<1>2. ProxyInv /\ [Next]_vars => [FiltersNext]_filterVars BY EndpointStep
<1>3. QED BY <1>1, <1>2, ProxyInvariance, PTL
  DEF Spec, FiltersSpec, ConformsToFilters

\* The variables have their types; no request runs more than two rounds of
\* hooks.
THEOREM ProxyTypes == Spec => []TypeOK
<1>1. ProxyInv => TypeOK BY DEF ProxyInv
<1>2. QED BY <1>1, ProxyInvariance, PTL

\* The in-flight gauge never leaks and never goes below zero, whatever the
\* order of the filters and however many requests return or panic.
THEOREM GaugeIsExact == Spec => []GaugeExact
<1>1. FiltersInv => GaugeExact BY DEF FiltersInv
<1>2. QED BY <1>1, EndpointsConform, FiltersInvariance, PTL DEF ConformsToFilters

\* The request counter counts every request that returned, by the status its
\* client saw.
THEOREM CountsAreTrue == Spec => []CountedAsAnswered
<1>1. FiltersInv => CountedAsAnswered BY DEF FiltersInv
<1>2. QED BY <1>1, EndpointsConform, FiltersInvariance, PTL DEF ConformsToFilters

\* The auditor and the log tell what the client saw, once.
THEOREM ReportsAreTrue == Spec => []ReportedAsAnswered
<1>1. FiltersInv => ReportedAsAnswered BY DEF FiltersInv
<1>2. QED BY <1>1, EndpointsConform, FiltersInvariance, PTL DEF ConformsToFilters

\* Unless both rounds were run, the kinds of the rounds are not both.
LEMMA NotBoth ==
  ASSUME NEW r \in Reqs, Ran(r, <<>>) \/ Ran(r, Before(r))
  PROVE  Kinds(r) # <<"pre", "post">>
<1>1. <<>> # <<"pre", "post">> /\ <<"pre">> # <<"pre", "post">>
  <2>1. Len(<<>>) = 0 /\ Len(<<"pre">>) = 1 /\ Len(<<"pre", "post">>) = 2
    OBVIOUS
  <2>2. QED BY <2>1
<1>2. CASE Hooked(r) BY <1>1, <1>2, KindsRan
<1>3. CASE ~ Hooked(r)
  <2>1. hooks[r] = <<>> BY <1>3 DEF Ran
  <2>2. Kinds(r) = KindsIn(hooks[r]) BY DEF Kinds, KindsIn
  <2>3. QED BY <1>1, <2>1, <2>2, NoKinds
<1>4. QED BY <1>2, <1>3

\* Post-hooks run at most once, after the pre-hooks, and only for a request
\* the upstream has answered.
THEOREM HooksComeInPairs == Spec => []HooksBracket
<1>1. ASSUME ProxyInv PROVE HooksBracket
  <2> SUFFICES ASSUME NEW r \in Reqs, Hooked(r)
      PROVE  /\ Kinds(r) \in {<<>>, <<"pre">>, <<"pre", "post">>}
             /\ Proxied(r) =>
                  /\ upstream[r] # 0 => Kinds(r) # <<>>
                  /\ Kinds(r) = <<"pre", "post">> => upstream[r] # 0
                  /\ at[r] = "copying" => Kinds(r) = <<"pre", "post">>
             /\ req[r].route = "middleware" /\ sent[r] # 0
                  => wroteHeader[r] \/ stage[r] = "done"
    BY DEF HooksBracket
  <2>1. at[r] \in Places /\ PlaceOK(r) /\ TypeOK BY <1>1 DEF ProxyInv, TypeOK
  <2>2. /\ Ran(r, <<>>) => Kinds(r) = <<>>
        /\ Ran(r, Before(r)) => Kinds(r) = <<"pre">>
        /\ Ran(r, Both(r)) => Kinds(r) = <<"pre", "post">>
    BY KindsRan
  <2>3. /\ <<>> # <<"pre", "post">> /\ <<"pre">> # <<"pre", "post">>
        /\ <<>> # <<"pre">>
    <3>1. /\ Len(<<>>) = 0 /\ Len(<<"pre">>) = 1
          /\ Len(<<"pre", "post">>) = 2
      OBVIOUS
    <3>2. QED BY <3>1
  <2>4. CASE at[r] = "entry"
    <3>1. stage[r] = "idle" => sent[r] = 0
      BY <1>1 DEF ProxyInv, FiltersInv, SentByEndpoint
    <3>2. Untouched(r) /\ (Ran(r, <<>>) \/ Ran(r, Before(r)))
      BY <2>1, <2>4 DEF PlaceOK, AtEntry
    <3>3. Proxied(r) \/ req[r].route \in {"local", "none"} \/ sent[r] = 0
      BY <2>1, <2>4, <3>1 DEF PlaceOK, AtEntry, Silent, Thrown
    <3>4. req[r].route = "middleware" => sent[r] = 0
      BY <3>3 DEF Proxied
    <3>5. QED BY <2>2, <2>3, <2>4, <3>2, <3>4 DEF Untouched
  <2>5. CASE at[r] = "forward"
    BY <2>1, <2>2, <2>3, <2>5 DEF PlaceOK, AtForward, Untouched, Proxied
  <2>6. CASE at[r] = "roundTrip"
    BY <2>1, <2>2, <2>3, <2>6 DEF PlaceOK, AtRoundTrip, Proxied
  <2>7. CASE at[r] = "relay"
    BY <2>1, <2>2, <2>3, <2>7 DEF PlaceOK, AtRelay, Proxied
  <2>8. CASE at[r] = "copying"
    BY <2>1, <2>2, <2>3, <2>8 DEF PlaceOK, AtCopying, Proxied
  <2>9. CASE at[r] = "next"
    BY <2>1, <2>2, <2>3, <2>9 DEF PlaceOK, AtNext, Proxied, Thrown
  <2>10. QED BY <2>1, <2>4, <2>5, <2>6, <2>7, <2>8, <2>9 DEF Places
<1>2. QED BY <1>1, ProxyInvariance, PTL

\* A proxied client is told what the upstream answered, or 500 for a request
\* never forwarded, or 502.
THEOREM AnswersJustified == Spec => []AnswerJustified
<1>1. ASSUME ProxyInv PROVE AnswerJustified
  <2> SUFFICES ASSUME NEW r \in Reqs, Proxied(r), sent[r] # 0
      PROVE  \/ sent[r] = upstream[r]
             \/ sent[r] = 500 /\ upstream[r] = 0 /\ ~ req[r].parses
             \/ sent[r] = 502 /\ Kinds(r) # <<"pre", "post">>
    BY DEF AnswerJustified
  <2>1. at[r] \in Places /\ PlaceOK(r) BY <1>1 DEF ProxyInv, TypeOK
  <2>2. Ran(r, <<>>) \/ Ran(r, Before(r)) => Kinds(r) # <<"pre", "post">>
    BY NotBoth
  <2>3. CASE at[r] = "entry"
    <3>1. \/ Ran(r, <<>>) /\ stage[r] = "idle"
          \/ Ran(r, <<>>) /\ sent[r] = 502
      BY <2>1, <2>3 DEF PlaceOK, AtEntry, Silent, Answered, Thrown, Proxied
    <3>2. stage[r] # "idle"
      BY <1>1 DEF ProxyInv, FiltersInv, SentByEndpoint
    <3>3. QED BY <2>2, <3>1, <3>2
  <2>4. CASE at[r] = "forward"
    BY <2>1, <2>4 DEF PlaceOK, AtForward, Untouched, Silent, Answered
  <2>5. CASE at[r] = "roundTrip"
    BY <2>1, <2>2, <2>5 DEF PlaceOK, AtRoundTrip, Silent, Answered, Thrown
  <2>6. CASE at[r] = "relay"
    BY <2>1, <2>6 DEF PlaceOK, AtRelay, Silent
  <2>7. CASE at[r] = "copying"
    BY <2>1, <2>7 DEF PlaceOK, AtCopying
  <2>8. CASE at[r] = "next"
    BY <2>1, <2>8 DEF PlaceOK, AtNext, Proxied
  <2>9. QED BY <2>1, <2>3, <2>4, <2>5, <2>6, <2>7, <2>8 DEF Places
<1>2. QED BY <1>1, ProxyInvariance, PTL

\* Only where the audit filter reads bodies does the upstream take a broken
\* body for a whole one.
THEOREM BodiesForwarded == Spec => []ForwardedWhole
<1>1. ProxyInv => ForwardedWhole BY DEF ProxyInv
<1>2. QED BY <1>1, ProxyInvariance, PTL

=============================================================================

------------------------------ MODULE MCProxy ------------------------------
(***************************************************************************)
(* Requests and settings of the filters.                                   *)
(***************************************************************************)
EXTENDS Proxy

MCStatuses == {200, 404, 500, 502}

Asks(method, path, route) ==
  [method |-> method, path |-> path, route |-> route, body |-> "whole",
   parses |-> TRUE]

Pods == <<"api", "v1", "namespaces", "x", "pods">>
Widgets == <<"apis", "example.com", "v1", "widgets">>

\* A patch of a namespaced resource with a body that breaks off; a create; a
\* read on a path that only begins like one of the API and makes no URL; a
\* handler of this server, one in the middleware, and a path nobody serves.
MCMenu ==
  {[Asks("PATCH", Append(Pods, "x"), "proxy") EXCEPT !.body = "broken"],
   Asks("POST", <<"api", "v1", "nodes">>, "core"),
   [Asks("GET", <<"apidocs", "v1", "pods">>, "proxy") EXCEPT !.parses = FALSE],
   Asks("PUT", Append(Widgets, "x"), "local"),
   Asks("GET", Widgets, "middleware"),
   Asks("GET", <<"api", "v1">>, "none")}

MCAPIHeads == {"api", "apis", "apidocs"}

MCReplies == {200, 500}

Setup(chain, level, auditor, enabled, transport) ==
  [chain |-> chain, level |-> level, auditor |-> auditor, enabled |-> enabled,
   transport |-> transport]

\* The settings of main, which gives the audit filter no auditor; those of
\* another program, with an auditor and the filters the other way round; and
\* a server with two filters switched off and no transport.
MCConfigs ==
  {Setup(MainChain(FilterNames), "RequestResponse", FALSE, TRUE, TRUE),
   Setup(<<"metrics", "audit">>, "Metadata", TRUE, TRUE, TRUE),
   Setup(<<"logging", "audit", "metrics">>, "None", TRUE, FALSE, FALSE)}
=============================================================================

---------------------------- MODULE RequestInfo ----------------------------
(***************************************************************************)
(* What the filters and the proxy read off the path of a request.  A path  *)
(* is the non-empty sequence of its segments, as strings.Split leaves it.  *)
(* Each of the three filters has its own copy of the same function; the    *)
(* proxy has another one.  None of them knows of namespaces.               *)
(***************************************************************************)
EXTENDS Naturals, Sequences

\* Segment k of a path, "" past its end.
Segment(parts, k) == IF k \in DOMAIN parts THEN parts[k] ELSE ""

Nothing == [group |-> "", version |-> "", resource |-> "", name |-> "",
            subresource |-> ""]

\* The fields of a path whose version is segment v.
Fields(parts, group, v) ==
  [group |-> group, version |-> parts[v],
   resource |-> Segment(parts, v + 1), name |-> Segment(parts, v + 2),
   subresource |-> Segment(parts, v + 3)]

\* parseRequestPath of the audit filter.  The namespace it returns is never
\* set, and the only verbs are "list" and "get", whatever the method.
ParseRequestPath(parts) ==
  LET fields == CASE parts[1] = "api" /\ Len(parts) >= 2 ->
                       Fields(parts, "", 2)
                  [] parts[1] = "apis" /\ Len(parts) >= 3 ->
                       Fields(parts, parts[2], 3)
                  [] OTHER -> Nothing
      verb == IF fields.name = "" /\ fields.subresource = ""
              THEN "list" ELSE "get"
  IN  [object |-> fields, namespace |-> "", verb |-> verb]

\* Its copies in the metrics and in the logging filter.
ParseMetricsRequestPath(parts) == ParseRequestPath(parts)
ParseLoggingRequestPath(parts) == ParseRequestPath(parts)

\* methodToVerb
MethodToVerb(method, isList) ==
  CASE method = "GET" /\ isList -> "list"
    [] method = "POST" -> "create"
    [] method = "PUT" -> "update"
    [] method = "PATCH" -> "patch"
    [] method = "DELETE" -> "delete"
    [] OTHER -> "get"

\* parseGVRAndVerbFromPath of the proxy: a path too short to name a resource
\* gives no GVR at all, and a list.
ParseGVRAndVerb(parts, method) ==
  LET v == IF parts[1] = "api" THEN 2 ELSE 3
      known == parts[1] \in {"api", "apis"} /\ Len(parts) > v
  IN  [group |-> IF known /\ v = 3 THEN parts[2] ELSE "",
       version |-> IF known THEN parts[v] ELSE "",
       resource |-> IF known THEN parts[v + 1] ELSE "",
       verb |-> MethodToVerb(method, ~ known \/ Len(parts) < v + 2)]
=============================================================================

----------------------------- MODULE MCWrappers -----------------------------
(***************************************************************************)
(* Requests on pods and deployments behind their wrappers, and on services *)
(* without one.                                                            *)
(***************************************************************************)
EXTENDS Wrappers, MCResourceServer

WrappedTables == {<<RowA, RowA2>>, <<OtherA>>, <<DeadA>>}

Of(gvr, q) == [q EXCEPT !.gvr = gvr]

\* A deployment whose path gives it no namespace, as on the path of a
\* cluster-scoped resource.
WrappedMenu ==
  {Create("x", "a", "u3"), Update("x", "a", "2"),
   Delete("x", "a"), GetIt("x", "a"), DeleteAll("x", 0),
   [Update("x", "a", "2") EXCEPT !.decodes = FALSE],
   Of("deployments", Create("", "a", "u4")),
   Of("services", Update("x", "a", "3")),
   Of("services", Delete("x", "a")),
   ListIn("x")}

C(name, image) == [name |-> name, image |-> image]
MCContainers == {<<C("a", "x"), C("b", "x")>>, <<C("a", "x"), C("a", "y")>>}

\* For the finding.
StatusMenu == {GetIt("x", "a"), Update("x", "a", "2"), Create("x", "a", "u3")}
=============================================================================

-------------------------- MODULE MCResourceServer --------------------------
(***************************************************************************)
(* Values for the constants of ResourceServer: menus of requests and tables*)
(* they find, one pair for each question a run asks.                       *)
(***************************************************************************)
EXTENDS ResourceServer, TLC

MCSymmetry == Permutations(Reqs)

MCStrings == {"", "a", "b", "x", "y", "u1", "u2", "u3", "u4", "u5", "u9",
              "1", "2", "3", "pods", "services", "deployments", "default"}

Obj(name, ns, uid, version) ==
  [name |-> name, namespace |-> ns, uid |-> uid, resourceVersion |-> version]

\* A request on the path of a namespace of the resource "pods".
On(verb, ns, name, body) ==
  [verb |-> verb, gvr |-> "pods", namespace |-> ns, name |-> name,
   decodes |-> TRUE, body |-> body, resourceVersion |-> "", limit |-> 0]

Stored(i, gvr, obj, deleted) ==
  [id |-> i, gvr |-> gvr, namespace |-> obj.namespace, name |-> obj.name,
   uid |-> obj.uid, resourceVersion |-> obj.resourceVersion, raw |-> obj,
   deleted |-> deleted]

Create(ns, name, uid) == On("create", ns, "", Obj(name, "", uid, "1"))
Update(ns, name, version) == On("update", ns, name, Obj(name, ns, "u9", version))
Rename(ns, name, to) == On("update", ns, name, Obj(to, ns, "u9", "3"))
GetIt(ns, name) == On("get", ns, name, NoObject)
GetAt(ns, name, v) == [GetIt(ns, name) EXCEPT !.resourceVersion = v]
Delete(ns, name) == On("delete", ns, name, NoObject)
ListIn(ns) == On("list", ns, "", NoObject)
DeleteAll(ns, n) == [On("deletecollection", ns, "", NoObject) EXCEPT !.limit = n]

\* The tables requests find: none, one resource, two of one name in two
\* namespaces, one that was deleted, one of another resource.
RowA == Stored(1, "pods", Obj("a", "x", "u1", "1"), FALSE)
DeadA == [RowA EXCEPT !.deleted = TRUE]
RowA2 == Stored(2, "pods", Obj("a", "y", "u2", "2"), FALSE)
RowB2 == Stored(2, "pods", Obj("b", "x", "u2", "1"), FALSE)
Other2 == Stored(2, "services", Obj("a", "x", "u5", "1"), FALSE)
RowB1 == Stored(1, "pods", Obj("b", "x", "u5", "1"), FALSE)
OtherA == [Other2 EXCEPT !.id = 1]
RowB3 == Stored(3, "pods", Obj("b", "x", "u3", "1"), FALSE)
RenamedA == [RowA EXCEPT !.raw.name = "b"]

\* Single objects and collections: creates, reads, updates and deletes that
\* meet.  With Modulus 4, a limit of 2 is read as a negative one and 5 as 1.
RaceMenu ==
  {Create("x", "a", "u3"), Create("y", "a", "u4"),
   Update("x", "a", "2"), Rename("x", "a", "b"),
   GetAt("x", "a", "1"), GetIt("x", "b"), Delete("x", "a"),
   DeleteAll("x", 2), DeleteAll("x", 1)}
RaceTables ==
  {<<>>, <<RowA>>, <<DeadA, RowA2>>, <<OtherA, RowA2, RowB3>>,
   <<RowB1, RowA2>>, <<RenamedA, RowB2>>, <<RowA, RowA2, RowB3>>}

\* What fails: bodies, versions, statements and hooks, over every verb.
FaultMenu ==
  {[Create("x", "a", "u1") EXCEPT !.decodes = FALSE], Create("x", "a", "u1"),
   Create("x", "b", "u3"), [Update("x", "a", "2") EXCEPT !.decodes = FALSE],
   Update("x", "a", "2"), GetAt("x", "a", "2"), Delete("x", "a"),
   ListIn("x"), [ListIn("") EXCEPT !.decodes = FALSE, !.limit = 1],
   DeleteAll("x", 5)}
FaultTables == {<<>>, <<RowA, RowB2>>, <<RowA, RowA2>>, <<DeadA, Other2>>}

\* For the findings.
FindingTables == {<<RowA>>, <<DeadA, RowA2>>}
ListMenu == {ListIn("x"), Create("x", "a", "u3")}
DeleteMenu == {Delete("x", "a"), Update("x", "a", "2")}
NoRows == {<<>>}
GetMenu == {GetIt("x", "a"), Create("x", "a", "u3")}
UidlessMenu == {Create("x", "a", ""), Create("x", "b", "")}
=============================================================================

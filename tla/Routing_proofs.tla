--------------------------- MODULE Routing_proofs ---------------------------
(***************************************************************************)
(* Which route of pkg/router/router.go a path finds: the paths of the      *)
(* resources of a group lead to their own routes only, as long as their    *)
(* definitions keep apart.                                                 *)
(***************************************************************************)
EXTENDS Routing, FiniteSetTheorems, SequenceTheorems, TLAPS

-----------------------------------------------------------------------------
(***************************************************************************)
(* Paths.                                                                  *)
(***************************************************************************)

\* Paths of the same tokens are the same.
LEMMA SameTokens ==
  ASSUME NEW S, NEW s \in Seq(S), NEW t \in Seq(S), NEW n \in Nat,
         Len(s) = n, Len(t) = n,
         \A k \in 1..n : s[k] = t[k]
  PROVE  s = t
BY SeqEqual

\* Appending a token to a path.
LEMMA AppendedTuples ==
  /\ \A a, b : Append(<<a>>, b) = <<a, b>>
  /\ \A a, b, c : Append(<<a, b>>, c) = <<a, b, c>>
  /\ \A a, b, c, d : Append(<<a, b, c>>, d) = <<a, b, c, d>>
  /\ \A a, b, c, d, e : Append(<<a, b, c, d>>, e) = <<a, b, c, d, e>>
<1>1. ASSUME NEW a, NEW b
      PROVE  Append(<<a>>, b) = <<a, b>>
  <2> DEFINE S == {a, b}
             s == Append(<<a>>, b)
             t == <<a, b>>
  <2>1. /\ s \in Seq(S) /\ t \in Seq(S) /\ Len(s) = 2 /\ Len(t) = 2
        /\ \A k \in 1..2 : s[k] = t[k]
    OBVIOUS
  <2> HIDE DEF s, t
  <2>2. s = t BY <2>1, SameTokens
  <2>3. QED BY <2>2 DEF s, t
<1>2. ASSUME NEW a, NEW b, NEW c
      PROVE  Append(<<a, b>>, c) = <<a, b, c>>
  <2> DEFINE S == {a, b, c}
             s == Append(<<a, b>>, c)
             t == <<a, b, c>>
  <2>1. /\ s \in Seq(S) /\ t \in Seq(S) /\ Len(s) = 3 /\ Len(t) = 3
        /\ \A k \in 1..3 : s[k] = t[k]
    OBVIOUS
  <2> HIDE DEF s, t
  <2>2. s = t BY <2>1, SameTokens
  <2>3. QED BY <2>2 DEF s, t
<1>3. ASSUME NEW a, NEW b, NEW c, NEW d
      PROVE  Append(<<a, b, c>>, d) = <<a, b, c, d>>
  <2> DEFINE S == {a, b, c, d}
             s == Append(<<a, b, c>>, d)
             t == <<a, b, c, d>>
  <2>1. /\ s \in Seq(S) /\ t \in Seq(S) /\ Len(s) = 4 /\ Len(t) = 4
        /\ \A k \in 1..4 : s[k] = t[k]
    OBVIOUS
  <2> HIDE DEF s, t
  <2>2. s = t BY <2>1, SameTokens
  <2>3. QED BY <2>2 DEF s, t
<1>4. ASSUME NEW a, NEW b, NEW c, NEW d, NEW e
      PROVE  Append(<<a, b, c, d>>, e) = <<a, b, c, d, e>>
  <2> DEFINE S == {a, b, c, d, e}
             s == Append(<<a, b, c, d>>, e)
             t == <<a, b, c, d, e>>
  <2>1. /\ s \in Seq(S) /\ t \in Seq(S) /\ Len(s) = 5 /\ Len(t) = 5
        /\ \A k \in 1..5 : s[k] = t[k]
    OBVIOUS
  <2> HIDE DEF s, t
  <2>2. s = t BY <2>1, SameTokens
  <2>3. QED BY <2>2 DEF s, t
<1>5. QED BY <1>1, <1>2, <1>3, <1>4

\* Joining two paths.
LEMMA JoinedTuples ==
  /\ \A a, b, c : <<a>> \o <<b, c>> = <<a, b, c>>
  /\ \A a, b, c, d, e : <<a, b, c>> \o <<d, e>> = <<a, b, c, d, e>>
<1>1. ASSUME NEW a, NEW b, NEW c
      PROVE  <<a>> \o <<b, c>> = <<a, b, c>>
  <2> DEFINE S == {a, b, c}
             s == <<a>> \o <<b, c>>
             t == <<a, b, c>>
  <2>1. /\ s \in Seq(S) /\ t \in Seq(S) /\ Len(s) = 3 /\ Len(t) = 3
        /\ \A k \in 1..3 : s[k] = t[k]
    OBVIOUS
  <2> HIDE DEF s, t
  <2>2. s = t BY <2>1, SameTokens
  <2>3. QED BY <2>2 DEF s, t
<1>2. ASSUME NEW a, NEW b, NEW c, NEW d, NEW e
      PROVE  <<a, b, c>> \o <<d, e>> = <<a, b, c, d, e>>
  <2> DEFINE S == {a, b, c, d, e}
             s == <<a, b, c>> \o <<d, e>>
             t == <<a, b, c, d, e>>
  <2>1. /\ s \in Seq(S) /\ t \in Seq(S) /\ Len(s) = 5 /\ Len(t) = 5
        /\ \A k \in 1..5 : s[k] = t[k]
    OBVIOUS
  <2> HIDE DEF s, t
  <2>2. s = t BY <2>1, SameTokens
  <2>3. QED BY <2>2 DEF s, t
<1>3. QED BY <1>1, <1>2

\* The templates, spelled out.
LEMMA Templates ==
  ASSUME NEW i, NEW sub
  PROVE  /\ i.namespaced =>
              /\ BasePath(i) = <<"namespaces", Namespace, i.resource>>
              /\ ItemPath(i) = <<"namespaces", Namespace, i.resource, Name>>
              /\ SubresourcePath(i, sub)
                   = <<"namespaces", Namespace, i.resource, Name, sub>>
         /\ ~ i.namespaced =>
              /\ BasePath(i) = <<i.resource>>
              /\ ItemPath(i) = <<i.resource, Name>>
              /\ SubresourcePath(i, sub) = <<i.resource, Name, sub>>
<1>1. CASE i.namespaced
  <2>1. BasePath(i) = <<"namespaces", Namespace, i.resource>>
    BY <1>1 DEF BasePath
  <2>2. ItemPath(i) = <<"namespaces", Namespace, i.resource, Name>>
    BY <2>1, AppendedTuples DEF ItemPath
  <2>3. SubresourcePath(i, sub)
          = <<"namespaces", Namespace, i.resource, Name, sub>>
    BY <2>2, AppendedTuples DEF SubresourcePath
  <2>4. QED BY <1>1, <2>1, <2>2, <2>3
<1>2. CASE ~ i.namespaced
  <2>1. BasePath(i) = <<i.resource>> BY <1>2 DEF BasePath
  <2>2. ItemPath(i) = <<i.resource, Name>>
    BY <2>1, AppendedTuples DEF ItemPath
  <2>3. SubresourcePath(i, sub) = <<i.resource, Name, sub>>
    BY <2>2, AppendedTuples DEF SubresourcePath
  <2>4. QED BY <1>2, <2>1, <2>2, <2>3
<1>3. QED BY <1>1, <1>2

-----------------------------------------------------------------------------
(***************************************************************************)
(* Routes.                                                                 *)
(***************************************************************************)

\* The routes of the collection, of an object and of a subresource.
CollectionMethods ==
  {<<"list", "GET">>, <<"create", "POST">>, <<"deletecollection", "DELETE">>}
ItemMethods ==
  {<<"get", "GET">>, <<"update", "PUT">>, <<"patch", "PATCH">>,
   <<"delete", "DELETE">>}
ForBase(i, r) ==
  /\ r.path = BasePath(i) /\ r.resource = i.resource
  /\ r.handler \in i.verbs
  /\ \/ <<r.handler, r.method>> \in CollectionMethods
     \/ r.handler = "watch" /\ r.method = "GET" /\ i.namespaced
ForItem(i, r) ==
  /\ r.path = ItemPath(i) /\ r.resource = i.resource
  /\ r.handler \in i.verbs
  /\ <<r.handler, r.method>> \in ItemMethods
ForSub(i, s, r) ==
  /\ r.path = SubresourcePath(i, s.name) /\ r.resource = i.resource
  /\ \E m \in SubresourceMethods :
       /\ m[1] \in s.verbs
       /\ r.method = m[2] /\ r.handler = s.name \o "/" \o m[1]

\* There are no others.
LEMMA RoutesAre ==
  ASSUME NEW infos, NEW group, NEW r \in InstalledRoutes(infos, group)
  PROVE  \E i \in infos :
           /\ i.group = group
           /\ ForBase(i, r) \/ ForItem(i, r) \/ \E s \in i.subs : ForSub(i, s, r)
<1>1. PICK i \in infos : /\ i.group = group
                         /\ r \in VerbRoutes(i) \/ r \in SubresourceRoutes(i)
  BY DEF InstalledRoutes
<1>2. CASE r \in VerbRoutes(i)
  <2>1. \/ r = Route("GET", BasePath(i), "list", i) /\ "list" \in i.verbs
        \/ r = Route("POST", BasePath(i), "create", i) /\ "create" \in i.verbs
        \/ /\ r = Route("DELETE", BasePath(i), "deletecollection", i)
           /\ "deletecollection" \in i.verbs
        \/ r = Route("GET", ItemPath(i), "get", i) /\ "get" \in i.verbs
        \/ r = Route("PUT", ItemPath(i), "update", i) /\ "update" \in i.verbs
        \/ r = Route("PATCH", ItemPath(i), "patch", i) /\ "patch" \in i.verbs
        \/ r = Route("DELETE", ItemPath(i), "delete", i) /\ "delete" \in i.verbs
        \/ /\ r = Route("GET", BasePath(i), "watch", i)
           /\ "watch" \in i.verbs /\ i.namespaced
    BY <1>2 DEF VerbRoutes
  <2>2. ForBase(i, r) \/ ForItem(i, r) BY <2>1
    DEF Route, ForBase, ForItem, CollectionMethods, ItemMethods
  <2>3. QED BY <1>1, <2>2
<1>3. CASE r \in SubresourceRoutes(i)
  <2>1. PICK s \in i.subs, m \in SubresourceMethods :
          /\ m[1] \in s.verbs
          /\ r = Route(m[2], SubresourcePath(i, s.name),
                       s.name \o "/" \o m[1], i)
    BY <1>3 DEF SubresourceRoutes
  <2>2. ForSub(i, s, r) BY <2>1 DEF Route, ForSub
  <2>3. QED BY <1>1, <2>2
<1>4. QED BY <1>1, <1>2, <1>3

\* Those of the verbs a resource has are there.
LEMMA RoutesThere ==
  ASSUME NEW infos, NEW i \in infos
  PROVE  /\ \A m \in CollectionMethods :
              m[1] \in i.verbs =>
                Route(m[2], BasePath(i), m[1], i)
                  \in InstalledRoutes(infos, i.group)
         /\ \A m \in ItemMethods :
              m[1] \in i.verbs =>
                Route(m[2], ItemPath(i), m[1], i)
                  \in InstalledRoutes(infos, i.group)
         /\ \A s \in i.subs, m \in SubresourceMethods :
              m[1] \in s.verbs =>
                Route(m[2], SubresourcePath(i, s.name),
                      s.name \o "/" \o m[1], i)
                  \in InstalledRoutes(infos, i.group)
<1>1. /\ VerbRoutes(i) \subseteq InstalledRoutes(infos, i.group)
      /\ SubresourceRoutes(i) \subseteq InstalledRoutes(infos, i.group)
  BY DEF InstalledRoutes
<1>2. \A m \in CollectionMethods :
        m[1] \in i.verbs => Route(m[2], BasePath(i), m[1], i) \in VerbRoutes(i)
  BY DEF VerbRoutes, CollectionMethods
<1>3. \A m \in ItemMethods :
        m[1] \in i.verbs => Route(m[2], ItemPath(i), m[1], i) \in VerbRoutes(i)
  BY DEF VerbRoutes, ItemMethods
<1>4. \A s \in i.subs, m \in SubresourceMethods :
        m[1] \in s.verbs =>
          Route(m[2], SubresourcePath(i, s.name), s.name \o "/" \o m[1], i)
            \in SubresourceRoutes(i)
  BY DEF SubresourceRoutes
<1>5. QED BY <1>1, <1>2, <1>3, <1>4

-----------------------------------------------------------------------------
(***************************************************************************)
(* What a path leads to.                                                   *)
(***************************************************************************)

\* What definitions owe each other: no resource or subresource is named like
\* a path parameter, no namespaced resource has a list and a watch, whose
\* routes are the same but for their handlers, and no subresource of a
\* cluster-scoped "namespaces" is called like a namespaced resource.
Apart(infos) ==
  \A i \in infos :
    /\ i.namespaced \in BOOLEAN
    /\ i.resource \notin Parameters
    /\ \A s \in i.subs : s.name \notin Parameters
    /\ i.namespaced => ~ ({"list", "watch"} \subseteq i.verbs)
    /\ \A j \in infos : i.group = j.group =>
         /\ i.resource = j.resource => i = j
         /\ i.resource = "namespaces" /\ ~ i.namespaced /\ j.namespaced
              => \A s \in i.subs : s.name # j.resource

\* What the tokens of a path that matches say of the resource.
OfBase(i, t) ==
  /\ i.namespaced => Len(t) = 3 /\ t[1] = "namespaces" /\ t[3] = i.resource
  /\ ~ i.namespaced => Len(t) = 1 /\ t[1] = i.resource
OfItem(i, t) ==
  /\ i.namespaced => Len(t) = 4 /\ t[3] = i.resource
  /\ ~ i.namespaced => Len(t) = 2 /\ t[1] = i.resource
OfSub(i, name, t) ==
  /\ i.namespaced => Len(t) = 5 /\ t[3] = i.resource /\ t[5] = name
  /\ ~ i.namespaced => Len(t) = 3 /\ t[1] = i.resource /\ t[3] = name

LEMMA MatchSays ==
  ASSUME NEW i, i.resource \notin Parameters, NEW t
  PROVE  /\ Matches(BasePath(i), t) => OfBase(i, t)
         /\ Matches(ItemPath(i), t) => OfItem(i, t)
         /\ \A name : name \notin Parameters /\ Matches(SubresourcePath(i, name), t)
                      => OfSub(i, name, t)
<1>0. "namespaces" \notin Parameters BY DEF Parameters, Namespace, Name
<1>1. ASSUME Matches(BasePath(i), t) PROVE OfBase(i, t)
  <2>1. CASE i.namespaced
    <3>1. Matches(<<"namespaces", Namespace, i.resource>>, t)
      BY <1>1, <2>1, Templates
    <3>2. QED BY <2>1, <3>1, <1>0 DEF Matches, OfBase
  <2>2. CASE ~ i.namespaced
    <3>1. Matches(<<i.resource>>, t) BY <1>1, <2>2, Templates
    <3>2. QED BY <2>2, <3>1, <1>0 DEF Matches, OfBase
  <2>3. QED BY <2>1, <2>2
<1>2. ASSUME Matches(ItemPath(i), t) PROVE OfItem(i, t)
  <2>1. CASE i.namespaced
    <3>1. Matches(<<"namespaces", Namespace, i.resource, Name>>, t)
      BY <1>2, <2>1, Templates
    <3>2. QED BY <2>1, <3>1, <1>0 DEF Matches, OfItem
  <2>2. CASE ~ i.namespaced
    <3>1. Matches(<<i.resource, Name>>, t) BY <1>2, <2>2, Templates
    <3>2. QED BY <2>2, <3>1, <1>0 DEF Matches, OfItem
  <2>3. QED BY <2>1, <2>2
<1>3. ASSUME NEW name, name \notin Parameters,
             Matches(SubresourcePath(i, name), t)
      PROVE  OfSub(i, name, t)
  <2>1. CASE i.namespaced
    <3>1. Matches(<<"namespaces", Namespace, i.resource, Name, name>>, t)
      BY <1>3, <2>1, Templates
    <3>2. /\ Len(t) = 5 /\ (i.resource \in Parameters \/ i.resource = t[3])
          /\ name \in Parameters \/ name = t[5]
      BY <3>1 DEF Matches
    <3>3. QED BY <1>3, <2>1, <3>2 DEF OfSub
  <2>2. CASE ~ i.namespaced
    <3>1. Matches(<<i.resource, Name, name>>, t) BY <1>3, <2>2, Templates
    <3>2. /\ Len(t) = 3 /\ (i.resource \in Parameters \/ i.resource = t[1])
          /\ name \in Parameters \/ name = t[3]
      BY <3>1 DEF Matches
    <3>3. QED BY <1>3, <2>2, <3>2 DEF OfSub
  <2>3. QED BY <2>1, <2>2
<1>4. QED BY <1>1, <1>2, <1>3

\* A route that the path of a collection matches is one of that collection.
LEMMA OnlyItsCollection ==
  ASSUME NEW infos, Apart(infos), NEW i \in infos, NEW t,
         Matches(BasePath(i), t),
         NEW r \in InstalledRoutes(infos, i.group), Matches(r.path, t)
  PROVE  ForBase(i, r)
<1>1. PICK j \in infos :
        /\ j.group = i.group
        /\ ForBase(j, r) \/ ForItem(j, r) \/ \E s \in j.subs : ForSub(j, s, r)
  BY RoutesAre
<1>2. /\ i.resource \notin Parameters /\ j.resource \notin Parameters
      /\ \A s \in j.subs : s.name \notin Parameters
      /\ i.namespaced \in BOOLEAN /\ j.namespaced \in BOOLEAN
      /\ i.resource = j.resource => i = j
      /\ j.resource = "namespaces" /\ ~ j.namespaced /\ i.namespaced
           => \A s \in j.subs : s.name # i.resource
  BY <1>1 DEF Apart
<1>3. OfBase(i, t) BY <1>2, MatchSays
<1>4. CASE ForBase(j, r)
  <2>1. OfBase(j, t) BY <1>2, <1>4, MatchSays DEF ForBase
  <2>2. i = j BY <1>2, <1>3, <2>1 DEF OfBase
  <2>3. QED BY <1>4, <2>2
<1>5. CASE ForItem(j, r)
  <2>1. OfItem(j, t) BY <1>2, <1>5, MatchSays DEF ForItem
  <2>2. QED BY <1>2, <1>3, <2>1 DEF OfBase, OfItem
<1>6. ASSUME NEW s \in j.subs, ForSub(j, s, r) PROVE FALSE
  <2>1. OfSub(j, s.name, t) BY <1>2, <1>6, MatchSays DEF ForSub
  <2>2. QED BY <1>2, <1>3, <1>6, <2>1 DEF OfBase, OfSub
<1>7. QED BY <1>1, <1>4, <1>5, <1>6

\* The same of an object.
LEMMA OnlyItsObject ==
  ASSUME NEW infos, Apart(infos), NEW i \in infos, NEW t,
         Matches(ItemPath(i), t),
         NEW r \in InstalledRoutes(infos, i.group), Matches(r.path, t)
  PROVE  ForItem(i, r)
<1>1. PICK j \in infos :
        /\ j.group = i.group
        /\ ForBase(j, r) \/ ForItem(j, r) \/ \E s \in j.subs : ForSub(j, s, r)
  BY RoutesAre
<1>2. /\ i.resource \notin Parameters /\ j.resource \notin Parameters
      /\ \A s \in j.subs : s.name \notin Parameters
      /\ i.namespaced \in BOOLEAN /\ j.namespaced \in BOOLEAN
      /\ i.resource = j.resource => i = j
  BY <1>1 DEF Apart
<1>3. OfItem(i, t) BY <1>2, MatchSays
<1>4. CASE ForBase(j, r)
  <2>1. OfBase(j, t) BY <1>2, <1>4, MatchSays DEF ForBase
  <2>2. QED BY <1>2, <1>3, <2>1 DEF OfBase, OfItem
<1>5. CASE ForItem(j, r)
  <2>1. OfItem(j, t) BY <1>2, <1>5, MatchSays DEF ForItem
  <2>2. i = j BY <1>2, <1>3, <2>1 DEF OfItem
  <2>3. QED BY <1>5, <2>2
<1>6. ASSUME NEW s \in j.subs, ForSub(j, s, r) PROVE FALSE
  <2>1. OfSub(j, s.name, t) BY <1>2, <1>6, MatchSays DEF ForSub
  <2>2. QED BY <1>2, <1>3, <2>1 DEF OfItem, OfSub
<1>7. QED BY <1>1, <1>4, <1>5, <1>6

\* And of a subresource, unless a collection has its path.
LEMMA OnlyItsSubresource ==
  ASSUME NEW infos, Apart(infos), NEW i \in infos, NEW s \in i.subs, NEW t,
         Matches(SubresourcePath(i, s.name), t),
         NEW r \in InstalledRoutes(infos, i.group), Matches(r.path, t)
  PROVE  \E u \in i.subs : u.name = s.name /\ ForSub(i, u, r)
<1>1. PICK j \in infos :
        /\ j.group = i.group
        /\ ForBase(j, r) \/ ForItem(j, r) \/ \E u \in j.subs : ForSub(j, u, r)
  BY RoutesAre
<1>2. /\ i.resource \notin Parameters /\ j.resource \notin Parameters
      /\ s.name \notin Parameters
      /\ \A u \in j.subs : u.name \notin Parameters
      /\ i.namespaced \in BOOLEAN /\ j.namespaced \in BOOLEAN
      /\ i.resource = j.resource => i = j
      /\ i.resource = "namespaces" /\ ~ i.namespaced /\ j.namespaced
           => s.name # j.resource
  BY <1>1 DEF Apart
<1>3. OfSub(i, s.name, t) BY <1>2, MatchSays
<1>4. CASE ForBase(j, r)
  <2>1. OfBase(j, t) BY <1>2, <1>4, MatchSays DEF ForBase
  <2>2. QED BY <1>2, <1>3, <2>1 DEF OfBase, OfSub
<1>5. CASE ForItem(j, r)
  <2>1. OfItem(j, t) BY <1>2, <1>5, MatchSays DEF ForItem
  <2>2. QED BY <1>2, <1>3, <2>1 DEF OfItem, OfSub
<1>6. ASSUME NEW u \in j.subs, ForSub(j, u, r)
      PROVE  \E v \in i.subs : v.name = s.name /\ ForSub(i, v, r)
  <2>1. OfSub(j, u.name, t) BY <1>2, <1>6, MatchSays DEF ForSub
  <2>2. i = j /\ u.name = s.name BY <1>2, <1>3, <2>1 DEF OfSub
  <2>3. QED BY <1>6, <2>2
<1>7. QED BY <1>1, <1>4, <1>5, <1>6

\* If all the routes that match are of one path, the router finds one.
LEMMA Found ==
  ASSUME NEW routes, NEW method, NEW t, NEW path, NEW n \in Nat,
         DOMAIN path = 1..n, Matches(path, t),
         NEW r \in routes, r.method = method, r.path = path,
         \A s \in routes : Matches(s.path, t) => s.path = path
  PROVE  PathKnown(routes, t) /\ Candidates(routes, method, t) # {}
<1>1. PathKnown(routes, t) BY DEF PathKnown
<1>2. StaticTokens(path) \in Nat
  <2>1. IsFiniteSet(1..n) BY FS_Interval
  <2>2. {k \in DOMAIN path : path[k] \notin Parameters} \subseteq 1..n
    OBVIOUS
  <2>3. IsFiniteSet({k \in DOMAIN path : path[k] \notin Parameters})
    BY <2>1, <2>2, FS_Subset
  <2>4. QED BY <2>3, FS_CardinalityType DEF StaticTokens
<1>3. \A s \in routes : Matches(s.path, t) =>
        StaticTokens(s.path) <= StaticTokens(r.path)
  BY <1>2
<1>4. r \in Candidates(routes, method, t)
  BY <1>3 DEF Candidates
<1>5. QED BY <1>1, <1>4

=============================================================================

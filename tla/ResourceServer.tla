--------------------------- MODULE ResourceServer ---------------------------
(***************************************************************************)
(* The request handlers of pkg/server/handler.go over the DBStorage of     *)
(* pkg/storage/db_storage.go: what concurrent requests do to the shared    *)
(* table of resources and what they answer.                                *)
(*                                                                         *)
(* net/http serves every request in a goroutine of its own, so a request r *)
(* is a process; pc[r] names the call it makes next.  One action is one    *)
(* SQL statement, one round of hooks, or the code that runs between two of *)
(* them, with the early returns it contains.  Nothing in the code brackets *)
(* two statements in a transaction or a lock, so any other request may act *)
(* between them.                                                           *)
(*                                                                         *)
(* A statement may fail (the connection drops, the client goes away and    *)
(* its context is cancelled), and a write may be applied although an error *)
(* is reported.  MySQL reserves the word group, which the conditions of    *)
(* all lookups do not quote.  A round of hooks may return an error.  The process may    *)
(* exit at any time: Run returns without a Shutdown and abandons every     *)
(* request; the table persists and the next process continues with it.     *)
(***************************************************************************)
EXTENDS ResourceTable

CONSTANTS
  Reqs,     \* the requests that will be served
  Menu,     \* the contents a request may have
  Tables,   \* what the table may hold when the first request arrives
  Faults,   \* what goes wrong with statements: "refused", "unacknowledged",
            \* or, with every lookup, "reserved"
  Vetoes,   \* the hook rounds that may return an error
  Modulus   \* how many numbers an int64 tells apart: 2^64

VARIABLES
  table,    \* container_resources
  req,      \* req[r]: the request, as routed: its path, body and options
  pc,       \* pc[r]: where its handler is
  record,   \* record[r]: the local variable record of the storage call
  result,   \* result[r]: the object its handler holds or answers
  items,    \* items[r]: the rows its List read
  left,     \* left[r]: the rows of items DeleteCollection has yet to delete
  status,   \* status[r]: the status code answered, 0 before
  wrote,    \* history: wrote[r], the ids of the rows r has written
  vetoed    \* history: vetoed[r], the hook rounds of r that failed

handler == <<record, result, items, left>>
history == <<wrote, vetoed>>
vars == <<table, req, pc, handler, status, history>>

Verbs == {"create", "get", "list", "update", "delete", "deletecollection"}

\* namespace is "" on the routes of a cluster-scoped resource.  decodes says
\* whether the body parses; limit is the number in the body of a list or the
\* digits in the query of a deletecollection, and 0 where there is none.
Request == [verb: Verbs, gvr: Strings, namespace: Strings, name: Strings,
            decodes: BOOLEAN, body: Object, resourceVersion: Strings,
            limit: Nat]

PreHooks == {"preCreate", "preUpdate", "preDelete"}
PostHooks == {"postCreate", "postGet", "postList", "postUpdate", "postDelete"}
Statements == {"insert", "get", "list", "updateFirst", "save", "deleteFirst",
               "remove", "collection", "collectionRemove"}
PC == {"new", "done", "lost"} \cup PreHooks \cup PostHooks \cup Statements

\* What the columns of a table say of each other whenever no statement runs.
IdsAreIndices(t) == \A i \in DOMAIN t : t[i].id = i
UidsUnique(t) == \A i, j \in DOMAIN t : t[i].uid = t[j].uid => i = j
VersionsSynced(t) ==
  \A i \in DOMAIN t : t[i].resourceVersion = t[i].raw.resourceVersion
Consistent(t) == IdsAreIndices(t) /\ UidsUnique(t) /\ VersionsSynced(t)

\* The columns that say what a row is, as opposed to what it holds.
SameIdentity(a, b) ==
  /\ a.id = b.id /\ a.gvr = b.gvr /\ a.namespace = b.namespace
  /\ a.name = b.name /\ a.uid = b.uid

ASSUME MenuAssumption == Menu \subseteq Request
ASSUME TablesAssumption ==
  \A t \in Tables : t \in Seq(Row) /\ Consistent(t)
ASSUME FaultsAssumption ==
  Faults \subseteq {"refused", "unacknowledged", "reserved"}
ASSUME VetoesAssumption == Vetoes \subseteq PreHooks \cup PostHooks
ASSUME ModulusAssumption == Modulus \in Nat \ {0, 1}

NoObject == [name |-> "", namespace |-> "", uid |-> "", resourceVersion |-> ""]
NoRecord == [id |-> 0, gvr |-> "", namespace |-> "", name |-> "", uid |-> "",
             resourceVersion |-> "", raw |-> NoObject, deleted |-> FALSE]

-----------------------------------------------------------------------------
(***************************************************************************)
(* What a handler computes from its request.                               *)
(***************************************************************************)
InFlight(r) == pc[r] \notin {"new", "done", "lost"}

Undecodable(q) == q.verb \in {"create", "update"} /\ ~ q.decodes

\* The decoded body; SetNamespace overrides its namespace on namespaced paths.
Submitted(q) ==
  IF q.namespace # "" THEN [q.body EXCEPT !.namespace = q.namespace]
                      ELSE q.body

\* handleResourceDelete gets with empty GetOptions.
Version(q) == IF q.verb = "get" THEN q.resourceVersion ELSE ""

\* parseInt64: its sum wraps around, and the upper half of the residues are
\* the negative numbers, which List takes for no limit.
ParsedLimit(n) ==
  IF n % Modulus < Modulus \div 2 THEN n % Modulus ELSE 0

\* Mutant of Limit: the query of a deletecollection is not read.
LimitUnread(q) == IF q.verb = "list" /\ q.decodes THEN q.limit ELSE 0

\* A list whose body does not parse falls back to empty ListOptions.
Limit(q) ==
  CASE q.verb = "deletecollection" -> ParsedLimit(q.limit)
    [] q.verb # "deletecollection" /\ q.decodes -> q.limit
    [] q.verb # "deletecollection" /\ ~ q.decodes -> 0

\* The first call of each handler.
EntryPoint(q) ==
  CASE q.verb = "create" -> "preCreate"
    [] q.verb = "update" -> "preUpdate"
    [] q.verb \in {"get", "delete"} -> "get"
    [] q.verb \in {"list", "deletecollection"} -> "list"

\* Mutant of AfterHooks: the update handler forgets the storage call.
AfterHooksNoUpdate(round) ==
  CASE round = "preCreate" -> "insert"
    [] round = "preUpdate" -> "postUpdate"
    [] round = "preDelete" -> "deleteFirst"

\* What follows a round of pre-hooks that did not fail.
AfterHooks(round) ==
  CASE round = "preCreate" -> "insert"
    [] round = "preUpdate" -> "updateFirst"
    [] round = "preDelete" -> "deleteFirst"

\* Mutant of Success: a status no handler answers.
SuccessNoContent(q) == IF q.verb = "delete" THEN 204 ELSE 200

Success(q) == IF q.verb = "create" THEN 201 ELSE 200

\* The record Create builds; the table gives it its id.
NewRecord(q) ==
  LET obj == Submitted(q)
  IN  [id |-> 0, gvr |-> q.gvr, namespace |-> obj.namespace,
       name |-> obj.name, uid |-> obj.uid,
       resourceVersion |-> obj.resourceVersion, raw |-> obj,
       deleted |-> FALSE]

\* Mutants of Rewritten: the raw data or the version column is forgotten; the
\* name column follows the new object.
RewrittenNoData(row, obj) == [row EXCEPT !.resourceVersion = obj.resourceVersion]
RewrittenNoVersion(row, obj) == [row EXCEPT !.raw = obj]
RewrittenName(row, obj) ==
  [row EXCEPT !.raw = obj, !.resourceVersion = obj.resourceVersion,
              !.name = obj.name]

\* What Update makes of the record it read: the columns Namespace, Name and
\* UID keep what they were created with, whatever the new object says.
Rewritten(row, obj) ==
  [row EXCEPT !.raw = obj, !.resourceVersion = obj.resourceVersion]

\* What remains of the loop of DeleteCollection when the Delete of an item
\* failed: the error is skipped.  Its mutants stop there, or try again.
SkippedBreak(todo, item) == {}
SkippedRetry(todo, item) == todo
Skipped(todo, item) == todo \ {item}

\* Mutant of Candidates: the name is not part of the condition.
CandidatesAnyName(q) == OfResource(table, q.gvr)

\* The rows a Get, an Update or a Delete of request q may address.
Candidates(q) == Addressed(table, q.gvr, q.name)

\* The conditions begin with group = ?, a syntax error where group is a
\* reserved word.
ConditionParses == "reserved" \notin Faults

\* A lookup may return an error although there is what it looks for.
LookupRefused == "refused" \in Faults \/ ~ ConditionParses

-----------------------------------------------------------------------------
Goto(r, label) ==
  pc' = [pc EXCEPT ![r] = label] /\ UNCHANGED status

Reply(r, code) ==
  pc' = [pc EXCEPT ![r] = "done"] /\ status' = [status EXCEPT ![r] = code]

Written(r, id) == wrote' = [wrote EXCEPT ![r] = @ \cup {id}]

Init ==
  /\ table \in Tables
  /\ req \in [Reqs -> Menu]
  /\ pc = [r \in Reqs |-> "new"]
  /\ record = [r \in Reqs |-> NoRecord]
  /\ result = [r \in Reqs |-> NoObject]
  /\ items = [r \in Reqs |-> {}]
  /\ left = [r \in Reqs |-> {}]
  /\ status = [r \in Reqs |-> 0]
  /\ wrote = [r \in Reqs |-> {}]
  /\ vetoed = [r \in Reqs |-> {}]

\* The route's handler starts: a body that does not parse is answered 400.
Arrive(r) ==
  /\ pc[r] = "new"
  /\ \/ Undecodable(req[r]) /\ Reply(r, 400)
     \/ ~ Undecodable(req[r]) /\ Goto(r, EntryPoint(req[r]))
  /\ UNCHANGED <<table, req, handler, history>>

\* Mutant of HookFailed: the return after the error response of a pre-hook is
\* missing.
HookFailedNoReturn(r) ==
  /\ pc[r] \in Vetoes
  /\ vetoed' = [vetoed EXCEPT ![r] = @ \cup {pc[r]}]
  /\ status' = [status EXCEPT ![r] = 500]
  /\ pc' = [pc EXCEPT ![r] = IF @ \in PreHooks THEN AfterHooks(@) ELSE "done"]

\* A hook of the current round returned an error.
HookFailed(r) ==
  /\ pc[r] \in Vetoes
  /\ vetoed' = [vetoed EXCEPT ![r] = @ \cup {pc[r]}]
  /\ Reply(r, 500)

\* Execute...Hooks before the storage call: the first error ends the request.
RunPreHooks(r) ==
  /\ pc[r] \in PreHooks
  /\ \/ Goto(r, AfterHooks(pc[r])) /\ UNCHANGED vetoed
     \/ HookFailed(r)
  /\ UNCHANGED <<table, req, handler, wrote>>

\* Execute...Hooks after the storage call, then the response.
RunPostHooks(r) ==
  /\ pc[r] \in PostHooks
  /\ \/ Reply(r, Success(req[r])) /\ UNCHANGED vetoed
     \/ HookFailed(r)
  /\ UNCHANGED <<table, req, handler, wrote>>

\* DBStorage.Create.
Insert(r) ==
  LET row == NewRecord(req[r]) IN
  /\ pc[r] = "insert"
  /\ \/ /\ ~ UidTaken(table, row.uid)
        /\ table' = Inserted(table, row)
        /\ Written(r, Len(table) + 1)
        /\ \/ /\ Goto(r, "postCreate")
              /\ result' = [result EXCEPT ![r] = row.raw]
           \/ /\ "unacknowledged" \in Faults
              /\ Reply(r, 500)
              /\ UNCHANGED result
     \/ /\ UidTaken(table, row.uid) \/ "refused" \in Faults
        /\ Reply(r, 500)
        /\ UNCHANGED <<table, wrote, result>>
  /\ UNCHANGED <<req, record, items, left, vetoed>>

\* DBStorage.Get, for the get handler and for the one the delete handler
\* makes first; every error is answered 404.
Get(r) ==
  LET found == First(AtVersion(table, Candidates(req[r]), Version(req[r]))) IN
  /\ pc[r] = "get"
  /\ \/ ConditionParses /\ \E i \in found :
          /\ result' = [result EXCEPT ![r] = table[i].raw]
          /\ Goto(r, IF req[r].verb = "delete" THEN "preDelete" ELSE "postGet")
     \/ /\ found = {} \/ LookupRefused
        /\ Reply(r, 404)
        /\ UNCHANGED result
  /\ UNCHANGED <<table, req, record, items, left, history>>

\* DBStorage.List, for the list handler and for DeleteCollection, which goes
\* on to delete what was read.  Only a namespaced list runs the hooks.
List(r) ==
  /\ pc[r] = "list"
  /\ \/ /\ ConditionParses
        /\ \E page \in Pages(OfResource(table, req[r].gvr), Limit(req[r])) :
             LET rows == {table[i] : i \in page} IN
             /\ items' = [items EXCEPT ![r] = rows]
             /\ \/ /\ req[r].verb = "deletecollection"
                   /\ left' = [left EXCEPT ![r] = rows]
                   /\ Goto(r, "collection")
                \/ /\ req[r].verb = "list"
                   /\ UNCHANGED left
                   /\ IF req[r].namespace # "" THEN Goto(r, "postList")
                                               ELSE Reply(r, 200)
     \/ /\ LookupRefused
        /\ Reply(r, 500)
        /\ UNCHANGED <<items, left>>
  /\ UNCHANGED <<table, req, record, result, history>>

\* The SELECT of DBStorage.Update and the object it will save.  The handler
\* does not force a create: a missing row is an error, answered 500.
UpdateFirst(r) ==
  LET found == First(Candidates(req[r])) IN
  /\ pc[r] = "updateFirst"
  /\ \/ ConditionParses /\ \E i \in found :
          /\ record' = [record EXCEPT ![r] =
                          Rewritten(table[i], Submitted(req[r]))]
          /\ Goto(r, "save")
     \/ /\ found = {} \/ LookupRefused
        /\ Reply(r, 500)
        /\ UNCHANGED record
  /\ UNCHANGED <<table, req, result, items, left, history>>

\* The Save of DBStorage.Update.
Save(r) ==
  /\ pc[r] = "save"
  /\ \/ /\ table' = Saved(table, record[r])
        /\ Written(r, record[r].id)
        /\ \/ /\ Goto(r, "postUpdate")
              /\ result' = [result EXCEPT ![r] = record[r].raw]
           \/ /\ "unacknowledged" \in Faults
              /\ Reply(r, 500)
              /\ UNCHANGED result
     \/ /\ "refused" \in Faults
        /\ Reply(r, 500)
        /\ UNCHANGED <<table, wrote, result>>
  /\ UNCHANGED <<req, record, items, left, vetoed>>

\* The SELECT of DBStorage.Delete, repeated after the one of Get and the
\* hooks that saw what Get returned.
DeleteFirst(r) ==
  LET found == First(Candidates(req[r])) IN
  /\ pc[r] = "deleteFirst"
  /\ \/ ConditionParses /\ \E i \in found :
          /\ record' = [record EXCEPT ![r] = table[i]]
          /\ Goto(r, "remove")
     \/ /\ found = {} \/ LookupRefused
        /\ Reply(r, 500)
        /\ UNCHANGED record
  /\ UNCHANGED <<table, req, result, items, left, history>>

\* The DELETE of DBStorage.Delete; no row left to mark is no error.
Remove(r) ==
  /\ pc[r] = "remove"
  /\ \/ /\ table' = SoftDeleted(table, record[r].id)
        /\ Written(r, record[r].id)
        /\ \/ /\ Goto(r, "postDelete")
              /\ result' = [result EXCEPT ![r] = record[r].raw]
           \/ /\ "unacknowledged" \in Faults
              /\ Reply(r, 500)
              /\ UNCHANGED result
     \/ /\ "refused" \in Faults
        /\ Reply(r, 500)
        /\ UNCHANGED <<table, wrote, result>>
  /\ UNCHANGED <<req, record, items, left, vetoed>>

\* One turn of the loop of DBStorage.DeleteCollection: the SELECT of a Delete
\* by the name in the object that was listed.  The loop skips an error.
CollectionFirst(r) ==
  /\ pc[r] = "collection"
  /\ \E item \in left[r] :
       LET found == First(Addressed(table, req[r].gvr, item.raw.name)) IN
       \/ ConditionParses /\ \E i \in found :
            /\ left' = [left EXCEPT ![r] = @ \ {item}]
            /\ record' = [record EXCEPT ![r] = table[i]]
            /\ Goto(r, "collectionRemove")
       \/ /\ found = {} \/ LookupRefused
          /\ left' = [left EXCEPT ![r] = Skipped(@, item)]
          /\ UNCHANGED <<record, pc, status>>
  /\ UNCHANGED <<table, req, result, items, history>>

\* The DELETE of that turn, whose error is skipped as well.
CollectionRemove(r) ==
  /\ pc[r] = "collectionRemove"
  /\ \/ /\ table' = SoftDeleted(table, record[r].id)
        /\ Written(r, record[r].id)
     \/ /\ "refused" \in Faults
        /\ UNCHANGED <<table, wrote>>
  /\ Goto(r, "collection")
  /\ UNCHANGED <<req, handler, vetoed>>

\* The loop ends; the answer is the list, whatever became of its items.
CollectionEnd(r) ==
  /\ pc[r] = "collection"
  /\ left[r] = {}
  /\ Reply(r, 200)
  /\ UNCHANGED <<table, req, handler, history>>

\* The process ends, by a signal or because the listener failed, and with it
\* every request it was serving.
Exit ==
  /\ \E r \in Reqs : InFlight(r)
  /\ pc' = [r \in Reqs |-> IF InFlight(r) THEN "lost" ELSE pc[r]]
  /\ UNCHANGED <<table, req, handler, status, history>>

\* What the goroutine of a request does once it has started.
Serve(r) ==
  \/ RunPreHooks(r) \/ RunPostHooks(r)
  \/ Insert(r) \/ Get(r) \/ List(r)
  \/ UpdateFirst(r) \/ Save(r)
  \/ DeleteFirst(r) \/ Remove(r)
  \/ CollectionFirst(r) \/ CollectionRemove(r) \/ CollectionEnd(r)

Next ==
  \/ \E r \in Reqs : Arrive(r) \/ Serve(r)
  \/ Exit

Spec == Init /\ [][Next]_vars

-----------------------------------------------------------------------------
(***************************************************************************)
(* Invariants.                                                             *)
(***************************************************************************)

\* Types of the variables.
TypeOK ==
  /\ table \in Seq(Row)
  /\ req \in [Reqs -> Request]
  /\ pc \in [Reqs -> PC]
  /\ record \in [Reqs -> Row]
  /\ result \in [Reqs -> Object]
  /\ items \in [Reqs -> SUBSET Row]
  /\ left \in [Reqs -> SUBSET Row]
  /\ status \in [Reqs -> {0, 200, 201, 400, 404, 500}]
  /\ wrote \in [Reqs -> SUBSET Nat]
  /\ vetoed \in [Reqs -> SUBSET (PreHooks \cup PostHooks)]

\* Whatever requests do at the same time, primary keys stay those of the rows
\* they were given to, no two rows share a uid, and the resource_version
\* column says what the stored object says: Save writes back a whole record
\* that was read by an earlier statement.
StoreConsistent == Consistent(table)

\* Every row a request wrote is one it addressed: of its resource, and, for
\* an update or a delete, of its name, although the row was looked up by one
\* statement and is written by its key in a later one.
WritesAddressed ==
  \A r \in Reqs : \A i \in wrote[r] :
    /\ i \in DOMAIN table
    /\ table[i].gvr = req[r].gvr
    /\ req[r].verb \in {"update", "delete"} => table[i].name = req[r].name

\* A request that was answered 400 or 404, that a pre-hook vetoed, or that
\* only reads, has written nothing.
RejectedHasNoEffect ==
  \A r \in Reqs :
    \/ status[r] \in {400, 404}
    \/ vetoed[r] \cap PreHooks # {}
    \/ req[r].verb \in {"get", "list"}
    => wrote[r] = {}

\* A get that asks for a resource version is never answered with another one:
\* the filter is on a column, the answer is the stored object.
GetByVersionExact ==
  \A r \in Reqs :
    req[r].verb = "get" /\ status[r] = 200 /\ req[r].resourceVersion # ""
    => result[r].resourceVersion = req[r].resourceVersion

\* An acknowledged create or update is in the table: a row with the identity
\* it was created under, or the name that was updated, which holds the object
\* submitted unless another update has written that row.
AckedWritesPersist ==
  \A r \in Reqs :
    req[r].verb \in {"create", "update"} /\ status[r] \in {200, 201}
    => \E i \in wrote[r] :
         LET obj == Submitted(req[r]) IN
         /\ table[i].gvr = req[r].gvr
         /\ IF req[r].verb = "create"
            THEN /\ table[i].name = obj.name
                 /\ table[i].namespace = obj.namespace
                 /\ table[i].uid = obj.uid
            ELSE table[i].name = req[r].name
         /\ \/ table[i].raw = obj
            \/ \E u \in Reqs \ {r} : req[u].verb = "update" /\ i \in wrote[u]

\* A resource whose delete was acknowledged is gone unless an update wrote
\* its row.  Where no update wrote at all and no statement failed, an
\* acknowledged deletecollection without a limit leaves none of the rows it
\* listed, however creates, deletes and other collection deletes interleave
\* and whatever names the rows share, provided the listed objects still carry
\* the names of their rows.
AckedRemovalsHold ==
  \A r \in Reqs : status[r] = 200 =>
    /\ req[r].verb = "delete" =>
         \E i \in wrote[r] :
           \/ table[i].deleted
           \/ \E u \in Reqs : req[u].verb = "update" /\ i \in wrote[u]
    /\ /\ req[r].verb = "deletecollection"
       /\ Limit(req[r]) = 0 /\ Faults = {}
       /\ \A u \in Reqs : req[u].verb = "update" => wrote[u] = {}
       /\ \A row \in items[r] : row.raw.name = row.name
       => \A row \in items[r] : table[row.id].deleted

\* A collection delete with a limit that fits an int64 removes at most that
\* many rows, though it looks each of them up again by a name that other rows
\* may have by then.
LimitHonoured ==
  \A r \in Reqs :
    /\ req[r].verb = "deletecollection"
    /\ req[r].limit \in 1..(Modulus \div 2 - 1)
    => Cardinality(wrote[r]) <= req[r].limit

(***************************************************************************)
(* The inductive invariant: the properties above and what they rest on.    *)
(***************************************************************************)

\* Where the handler of each verb can be.
Stages(verb) ==
  {"new", "done", "lost"} \cup
  CASE verb = "create" -> {"preCreate", "insert", "postCreate"}
    [] verb = "get" -> {"get", "postGet"}
    [] verb = "list" -> {"list", "postList"}
    [] verb = "update" -> {"preUpdate", "updateFirst", "save", "postUpdate"}
    [] verb = "delete" ->
         {"get", "preDelete", "deleteFirst", "remove", "postDelete"}
    [] verb = "deletecollection" -> {"list", "collection", "collectionRemove"}

\* Between the SELECT and the write of an update or a delete, the record in
\* hand has the key and the identity of a row of the table, the one the
\* request addresses; its other columns may be out of date.
Held(r) ==
  LET row == record[r] IN
  /\ row.id \in DOMAIN table
  /\ SameIdentity(row, table[row.id])
  /\ row.gvr = req[r].gvr
  /\ row.resourceVersion = row.raw.resourceVersion
  /\ pc[r] \in {"save", "remove"} => row.name = req[r].name
HeldOK ==
  \A r \in Reqs : pc[r] \in {"save", "remove", "collectionRemove"} => Held(r)

\* Where a request has not come to its write.
Unwritten ==
  PreHooks \cup {"new", "insert", "get", "postGet", "list", "postList",
                 "updateFirst", "save", "deleteFirst", "remove"}

\* A request is where its verb leads, is answered when it is done, and has
\* written nothing before its write.
StagesOK ==
  \A r \in Reqs :
    /\ pc[r] \in Stages(req[r].verb)
    /\ pc[r] # "done" => status[r] = 0
    /\ vetoed[r] \cap PreHooks # {} => pc[r] = "done"
    /\ pc[r] \in Unwritten => wrote[r] = {}

\* What a get by version found keeps the version until it is answered.
VersionInHand ==
  \A r \in Reqs :
    /\ req[r].verb = "get" /\ req[r].resourceVersion # ""
    /\ pc[r] = "postGet" \/ status[r] = 200
    => result[r].resourceVersion = req[r].resourceVersion

\* What StagesOK and RejectedHasNoEffect say of one request.
Course(r) ==
  /\ pc[r] \in Stages(req[r].verb)
  /\ pc[r] # "done" => status[r] = 0
  /\ vetoed[r] \cap PreHooks # {} => pc[r] = "done"
  /\ pc[r] \in Unwritten => wrote[r] = {}
  /\ \/ status[r] \in {400, 404}
     \/ vetoed[r] \cap PreHooks # {}
     \/ req[r].verb \in {"get", "list"}
     => wrote[r] = {}

\* What holds of the table and the records in hand, whatever the course of
\* requests.
RowsOK == TypeOK /\ StoreConsistent /\ HeldOK

Inv ==
  /\ TypeOK
  /\ StoreConsistent
  /\ HeldOK
  /\ StagesOK
  /\ VersionInHand
  /\ WritesAddressed
  /\ RejectedHasNoEffect

(***************************************************************************)
(* Its extension to what requests have done to the rows they wrote.        *)
(***************************************************************************)

\* Another request, an update, has written row i.
Overwritten(r, i) ==
  \E u \in Reqs \ {r} : req[u].verb = "update" /\ i \in wrote[u]

\* A handler is past its storage call only after a write.
Performed ==
  \A r \in Reqs :
    /\ req[r].verb \in {"create", "update", "delete"}
    /\ \/ pc[r] \in {"postCreate", "postUpdate", "postDelete"}
       \/ status[r] \in {200, 201}
    => wrote[r] # {}

\* The rows of a create or an update hold what it submitted, under the
\* identity it was created with, unless another update has written them.  The
\* record an update is about to save holds it already, and is not deleted.
WritesHold ==
  /\ \A r \in Reqs : pc[r] = "save" =>
       record[r].raw = Submitted(req[r]) /\ ~ record[r].deleted
  /\ \A r \in Reqs : \A i \in wrote[r] :
       LET obj == Submitted(req[r]) IN
       /\ req[r].verb = "create" =>
            /\ table[i].name = obj.name
            /\ table[i].namespace = obj.namespace
            /\ table[i].uid = obj.uid
       /\ req[r].verb \in {"create", "update"} =>
            table[i].raw = obj \/ Overwritten(r, i)

\* The rows of a delete are gone, unless an update has written them.
RemovalsHold ==
  \A r \in Reqs : \A i \in wrote[r] :
    req[r].verb \in {"delete", "deletecollection"} =>
      table[i].deleted \/ Overwritten(r, i)

\* What a list read are rows of its resource, which keep their identity; a
\* collection delete has yet to delete some of them.
ItemsOK ==
  \A r \in Reqs :
    /\ IsFiniteSet(items[r])
    /\ pc[r] \in {"new", "list"} => items[r] = {}
    /\ left[r] \subseteq items[r]
    /\ \A a, b \in items[r] : a.id = b.id => a = b
    /\ \A row \in items[r] :
         /\ row.id \in DOMAIN table
         /\ SameIdentity(row, table[row.id])
         /\ row.gvr = req[r].gvr
    /\ req[r].verb = "deletecollection" /\ pc[r] = "done" => left[r] = {}

\* A collection delete that finds what it listed by the names it listed: it
\* has no limit, no statement fails, no update interferes.
Sweeping(r) ==
  /\ req[r].verb = "deletecollection" /\ Limit(req[r]) = 0
  /\ pc[r] \in {"collection", "collectionRemove"} \/ status[r] = 200
  /\ Faults = {}
  /\ \A u \in Reqs : req[u].verb = "update" => wrote[u] = {}
  /\ \A row \in items[r] : row.raw.name = row.name

\* The items of a name that are live, but for the one about to be deleted,
\* and those of them whose turn is still to come.
LiveItems(r, name) ==
  {row \in items[r] :
     /\ row.name = name /\ ~ table[row.id].deleted
     /\ ~ (pc[r] = "collectionRemove" /\ record[r].id = row.id)}
LeftItems(r, name) == {row \in left[r] : row.name = name}

\* It may delete another row than the item whose turn it is, and one that was
\* created later; but never a later one while an item of that name is live,
\* so there are always as many turns left as there are live items.
SweepOK ==
  \A r \in Reqs : Sweeping(r) =>
    /\ \A j \in OfResource(table, req[r].gvr) :
         \/ \E row \in items[r] : row.id = j
         \/ \A row \in items[r] : row.id < j
    /\ \A name \in Strings :
         Cardinality(LiveItems(r, name)) <= Cardinality(LeftItems(r, name))

\* A collection delete has a turn for each row it may still write.
TurnsOK ==
  \A r \in Reqs :
    /\ req[r].verb = "deletecollection"
    /\ req[r].limit \in 1..(Modulus \div 2 - 1)
    => /\ IsFiniteSet(wrote[r])
       /\ pc[r] # "collectionRemove" =>
            Cardinality(wrote[r]) + Cardinality(left[r]) <= req[r].limit
       /\ pc[r] = "collectionRemove" =>
            Cardinality(wrote[r]) + Cardinality(left[r]) < req[r].limit

AckInv ==
  /\ Inv
  /\ Performed
  /\ WritesHold
  /\ RemovalsHold
  /\ ItemsOK
  /\ SweepOK
  /\ TurnsOK

(***************************************************************************)
(* Action properties.                                                      *)
(***************************************************************************)

\* A row is never lost, and its resource, namespace, name and uid are for
\* ever those it was created with: an update writes all the columns of the
\* copy it read, possibly long before.
IdentityStep ==
  \A i \in DOMAIN table :
    i \in DOMAIN table' /\ SameIdentity(table'[i], table[i])
IdentityStable == [][IdentityStep]_vars

(***************************************************************************)
(* The promise.                                                            *)
(***************************************************************************)
AbstractRow(row) ==
  [gvr |-> row.gvr, namespace |-> row.namespace, name |-> row.name,
   uid |-> row.uid, raw |-> row.raw, live |-> ~ row.deleted]
AbstractTable(t) == [i \in DOMAIN t |-> AbstractRow(t[i])]
Aim(q) ==
  [verb |-> q.verb, gvr |-> q.gvr, name |-> q.name, object |-> Submitted(q)]
PhaseOf(place, code) ==
  CASE place = "new" -> "idle"
    [] place = "done" /\ code \in {200, 201} -> "ok"
    [] place = "lost" \/ (place = "done" /\ code \notin {200, 201}) -> "failed"
    [] OTHER -> "open"
Phase(r) == PhaseOf(pc[r], status[r])

Promise == INSTANCE RowStore WITH
  Aims <- {Aim(q) : q \in Menu},
  InitialRows <- {AbstractTable(t) : t \in Tables},
  rows <- AbstractTable(table),
  aim <- [r \in Reqs |-> Aim(req[r])],
  phase <- [r \in Reqs |-> Phase(r)],
  effects <- wrote

\* The handlers over the table keep what RowStore promises.
KeepsPromise == Promise!RSSpec

(***************************************************************************)
(* What documents say and the code does not do.                            *)
(***************************************************************************)

\* "List %s in a namespace" (pkg/router/router.go:117): a list on the path of
\* a namespace returns the objects of that namespace.
ListedInNamespace ==
  \A r \in Reqs :
    req[r].verb = "list" /\ status[r] = 200 /\ req[r].namespace # ""
    => \A row \in items[r] : row.raw.namespace = req[r].namespace

\* "Get retrieves a resource by name from the database."
\* (pkg/storage/db_storage.go:186), and the database is MySQL
\* (docs/ARCHITECTURE.md:785): unless the SELECT fails for another reason,
\* 404 means that no such object is stored.
StoredFound ==
  [][\A r \in Reqs :
       pc[r] = "get" /\ status'[r] = 404 /\ "refused" \notin Faults
       => AtVersion(table, Candidates(req[r]), Version(req[r])) = {}]_vars

\* "Delete removes a resource from the database"
\* (pkg/storage/db_storage.go:297): a removed row does not come back.
RemovedForGood ==
  [][\A i \in DOMAIN table : table[i].deleted => table'[i].deleted]_vars

\* "API 接口完全兼容 client-go 调用" (docs/ARCHITECTURE.md:10): a client that
\* leaves the uid to the server, as clients do, can create an object whose
\* name is not in use, unless a hook or the database fails.
FreeNameAccepted ==
  [][\A r \in Reqs :
       LET obj == Submitted(req[r]) IN
       /\ pc[r] = "insert" /\ status'[r] = 500
       /\ obj.uid = "" /\ Faults = {}
       => \E i \in Addressed(table, req[r].gvr, obj.name) :
            table[i].namespace = obj.namespace]_vars
=============================================================================

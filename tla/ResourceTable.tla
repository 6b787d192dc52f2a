--------------------------- MODULE ResourceTable ---------------------------
(***************************************************************************)
(* The SQL table container_resources that every DBStorage shares, and the  *)
(* statements gorm sends to it.  The database and gorm are libraries: what *)
(* a statement does is modelled from how pkg/storage/db_storage.go uses    *)
(* it.  A table is a sequence of rows; the auto-increment primary key of a *)
(* row is its index, because no row is ever physically removed: the model  *)
(* ResourceRecord has a gorm.DeletedAt column, so a DELETE only marks the  *)
(* row.  Each operator takes the table it works on as its first argument.  *)
(***************************************************************************)
EXTENDS Naturals, Sequences, FiniteSets

CONSTANT Strings  \* what names, namespaces, uids, versions and gvrs may be
ASSUME StringsAssumption == "" \in Strings

\* The part of a metav1.PartialObjectMetadata that is read back by the code:
\* everything else of a submitted object is payload.
Object == [name: Strings, namespace: Strings, uid: Strings,
           resourceVersion: Strings]

\* ResourceRecord.  raw is the RawData column, the object itself; the columns
\* Labels, Annotations and the timestamps are written with raw and never read.
Row == [id: Nat, gvr: Strings, namespace: Strings, name: Strings, uid: Strings,
        resourceVersion: Strings, raw: Object, deleted: BOOLEAN]

Live(t) == {i \in DOMAIN t : ~ t[i].deleted}

\* WHERE group AND version AND resource, on live rows.
OfResource(t, gvr) == {i \in Live(t) : t[i].gvr = gvr}

\* Mutant of Addressed: a lookup by name alone.
AddressedAnyResource(t, gvr, name) == {i \in Live(t) : t[i].name = name}

\* ... AND name = ?.  The namespace column is not part of any condition.
Addressed(t, gvr, name) == {i \in OfResource(t, gvr) : t[i].name = name}

\* ... AND resource_version = ?, added only when a version was asked for.
AtVersion(t, ids, version) ==
  IF version = "" THEN ids ELSE {i \in ids : t[i].resourceVersion = version}

\* ORDER BY id LIMIT 1: empty when no row matches (ErrRecordNotFound).
First(ids) == {i \in ids : \A j \in ids : i <= j}

\* LIMIT n with no ORDER BY: any n of the rows, all of them when n is zero.
Pages(ids, n) ==
  IF n = 0 \/ Cardinality(ids) <= n
  THEN {ids}
  ELSE {p \in SUBSET ids : Cardinality(p) = n}

\* Mutant of UidTaken: an index that covers live rows only.
UidTakenLive(t, uid) == \E i \in Live(t) : t[i].uid = uid

\* The unique index on the uid column also covers rows marked deleted and
\* objects that carry no uid.
UidTaken(t, uid) == \E i \in DOMAIN t : t[i].uid = uid

Inserted(t, row) == Append(t, [row EXCEPT !.id = Len(t) + 1])

\* gorm's Save writes every column of the record it is given, to the row with
\* that primary key: an UPDATE, and when the UPDATE finds the row marked
\* deleted an INSERT ... ON DUPLICATE KEY UPDATE that clears the mark.
Saved(t, row) == [t EXCEPT ![row.id] = row]

\* Setting deleted_at where it is null; no error when there is no such row.
SoftDeleted(t, id) == [t EXCEPT ![id].deleted = TRUE]
=============================================================================

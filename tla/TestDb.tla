-------------------------------- MODULE TestDb -------------------------------
(***************************************************************************)
(* The item and test repositories, kept twice: memorytestdb's maps of      *)
(* snapshots, and sqlitetestdb's rows of JSON documents queried through    *)
(* generated columns. Each call is served by both (as the conformance      *)
(* suite of ports/testdbtest does), so that what a caller could tell apart *)
(* is an invariant. The session half of the stores is in Execution.        *)
(***************************************************************************)
EXTENDS Items, Schema, SequencesExt

CONSTANTS
    ItemIds,    \* bank ids, in the order the stores list them
    TestIds

ASSUME IdAssumption == ItemIds \subseteq Nat \ {NoId}

VARIABLES
    items,      \* memorytestdb: id -> snapshot
    itemRows,   \* sqlitetestdb: id -> the document in the row
    tests,      \* memorytestdb: id -> test snapshot
    testRows    \* sqlitetestdb: id -> the document in the row

dbVars == <<items, itemRows, tests, testRows>>

Empty == [i \in {} |-> 0]

DbInit == items = Empty /\ itemRows = Empty /\ tests = Empty /\ testRows = Empty

Put(map, id, val) == [i \in DOMAIN map \cup {id} |-> IF i = id THEN val ELSE map[i]]

Drop(map, id) == [i \in DOMAIN map \ {id} |-> map[i]]

-----------------------------------------------------------------------------
(* Writes. The upserts and deletes of sqlite first: json.Marshal refuses a *)
(* number that is not finite, and nothing is written.                      *)

Marshals(snap) == Finite(snap.key.numeric) /\ Finite(snap.key.tolerance)

SaveItemRow(snap) == IF Marshals(snap) THEN Put(itemRows, snap.id, snap) ELSE itemRows

DeleteItemRow(id) == Drop(itemRows, id)

SaveTestRow(id, test) == Put(testRows, id, test)

DeleteTestRow(id) == Drop(testRows, id)

SaveItem(snap) ==
    /\ items' = Put(items, snap.id, snap)
    /\ itemRows' = SaveItemRow(snap)
    /\ UNCHANGED <<tests, testRows>>

DeleteItem(id) ==
    /\ items' = Drop(items, id)
    /\ itemRows' = DeleteItemRow(id)
    /\ UNCHANGED <<tests, testRows>>

SaveTest(id, test) ==
    /\ tests' = Put(tests, id, test)
    /\ testRows' = SaveTestRow(id, test)
    /\ UNCHANGED <<items, itemRows>>

DeleteTest(id) ==
    /\ tests' = Drop(tests, id)
    /\ testRows' = DeleteTestRow(id)
    /\ UNCHANGED <<items, itemRows>>

-----------------------------------------------------------------------------
(* Point reads. A row whose document names another id is an error, not a   *)
(* snapshot under the wrong key.                                           *)

Unknown  == [error |-> "unknown"]
BadStore == [error |-> "store"]

GetItem(id) == IF id \in DOMAIN items THEN items[id] ELSE Unknown

GetTest(id) == IF id \in DOMAIN tests THEN tests[id] ELSE Unknown

Unmarshal(id, doc) == IF doc.id = id THEN doc ELSE BadStore

GetItemRow(id) == IF id \in DOMAIN itemRows THEN Unmarshal(id, itemRows[id]) ELSE Unknown

UnmarshalTest(id, doc) == IF doc.id = id THEN doc ELSE BadStore

GetTestRow(id) == IF id \in DOMAIN testRows THEN UnmarshalTest(id, testRows[id]) ELSE Unknown

-----------------------------------------------------------------------------
(* Listing: sort.Slice by id over the matching map entries, and the SELECT *)
(* with one predicate per populated filter field, ORDER BY id.             *)

InOrder(S, before(_, _)) ==
    CHOOSE s \in SetToSeqs(S) : \A k, l \in DOMAIN s : k < l => before(s[k], s[l])

InIdOrder(ids) == InOrder(ids, <)

ListItems(f) ==
    LET ids == InIdOrder({i \in DOMAIN items : Matches(f, items[i])})
    IN  [k \in DOMAIN ids |-> items[ids[k]]]

(* The generated columns: a projection of the document. *)
Columns(doc) == [family |-> doc.family, test_type |-> doc.type, origin |-> doc.origin,
                 redistributable |-> doc.redist, difficulty_band |-> doc.band]

Where(f, col) ==
    /\ f.families # {} => col.family \in f.families
    /\ f.types # {} => col.test_type \in f.types
    /\ f.origins # {} => col.origin \in f.origins
    /\ f.redist # {} => col.redistributable \in f.redist
    /\ f.min > 0 => col.difficulty_band >= f.min
    /\ f.max > 0 => col.difficulty_band <= f.max

ListItemRows(f) ==
    LET ids == InIdOrder({i \in DOMAIN itemRows : Where(f, Columns(itemRows[i]))})
    IN  [k \in DOMAIN ids |-> GetItemRow(ids[k])]
=============================================================================

----------------------------- MODULE Composition -----------------------------
(***************************************************************************)
(* app/authoring's TestService over the bank: a request reads one section  *)
(* after the other, each a listing of its own, while items are saved and   *)
(* deleted by others, then builds the test and stores it. The database     *)
(* file is opened first (Schema). Listings are also what the collection    *)
(* endpoints cut pages from.                                               *)
(*                                                                         *)
(* An operator named ...Bug is a plausible slip in the one it precedes,    *)
(* used only to show which property notices.                               *)
(***************************************************************************)
EXTENDS TestDb, Testset

CONSTANTS
    Composers,      \* compose requests in flight at once
    ItemSpecs,      \* what the other writers hand to NewItem
    ComposeSpecs,   \* what a request asks for
    Filters,        \* filters of the listing endpoints
    Limits, Offsets,    \* page parameters of a query
    DefaultPageLimit, MaxPageLimit, MaxInt

(* What requests decode to: ids and numbers of their types, the rest as    *)
(* the rules of NewItem and NewTest find it.                               *)
ASSUME RequestAssumption ==
    /\ \A spec \in ItemSpecs :
          /\ {"id", "band", "format", "key"} \subseteq DOMAIN spec
          /\ spec.id \in ItemIds \cup {NoId} /\ spec.band \in Int
    /\ \A spec \in ComposeSpecs :
          /\ DOMAIN spec = {"id", "title", "policy", "timing", "sections"}
          /\ spec.sections \in Seq([family : STRING, timing : [total : Int, perItem : Int],
                                    min : Int, max : Int, count : Int])

(* No list in memory has a length near the largest int.                    *)
ASSUME PageAssumption ==
    /\ IsFiniteSet(ItemIds) /\ Limits \subseteq Int /\ Offsets \subseteq Int
    /\ DefaultPageLimit \in Nat \ {0} /\ MaxPageLimit \in Nat /\ DefaultPageLimit <= MaxPageLimit
    /\ MaxInt \in Nat /\ Cardinality(ItemIds) + MaxPageLimit <= MaxInt

VARIABLES
    compose,    \* [at, spec, sections] per request
    steady      \* observer: no item was saved or deleted since the request began

vars == <<schema, opener, items, itemRows, tests, testRows, compose, steady>>

Idle == [at |-> "idle"]

Init == SchemaInit /\ DbInit /\ compose = [r \in Composers |-> Idle] /\ steady = [r \in Composers |-> TRUE]

(* Bounds: the file is opened, and reopened, while its tables are empty;   *)
(* requests come when every process has it open.                           *)
Unused == items = Empty /\ tests = Empty /\ \A r \in Composers : compose[r] = Idle

Up == \A o \in Openers : opener[o].at = "open"

-----------------------------------------------------------------------------
(* The other writers: ingest, generate and author save what NewItem let    *)
(* through; the operator deletes.                                          *)
EditItems ==
    /\ \/ \E spec \in ItemSpecs : ValidItem(spec) /\ SaveItem(Snapshot(spec))
       \/ \E id \in DOMAIN items : DeleteItem(id)
    /\ steady' = [r \in Composers |-> compose[r] = Idle]
    /\ UNCHANGED <<schemaVars, compose>>

RemoveTest ==
    /\ \E id \in DOMAIN tests : DeleteTest(id)
    /\ UNCHANGED <<schemaVars, compose, steady>>

-----------------------------------------------------------------------------
(* Compose *)

Begin(r) ==
    /\ compose[r].at = "idle"
    /\ \E spec \in ComposeSpecs :
          compose' = [compose EXCEPT ![r] = [at |-> "filling", spec |-> spec, sections |-> <<>>]]
    /\ UNCHANGED <<schemaVars, dbVars, steady>>

(* The family and the difficulty bounds; the other fields stay empty.      *)
SectionFilter(ss) ==
    [families |-> {ss.family}, types |-> {}, origins |-> {}, redist |-> {},
     min |-> ss.min, max |-> ss.max]

Capped(seq, count) == IF count > 0 /\ Len(seq) > count THEN SubSeq(seq, 1, count) ELSE seq

(* A stable sort of the listing by band, capped. *)
Easiest(snaps, count) ==
    LET before(k, l) == snaps[k].band < snaps[l].band \/ (snaps[k].band = snaps[l].band /\ k < l)
        picked == Capped(InOrder(DOMAIN snaps, before), count)
    IN  [n \in DOMAIN picked |-> [item |-> snaps[picked[n]].id, band |-> snaps[picked[n]].band]]

(* The cap is applied to the listing, before it is sorted. *)
SelectRefsBug(ss) == Easiest(Capped(ListItems(SectionFilter(ss)), ss.count), ss.count)

SelectRefs(ss) == Easiest(ListItems(SectionFilter(ss)), ss.count)

(* Read the next section from the bank. *)
Fill(r) ==
    LET n  == Len(compose[r].sections) + 1
        ss == compose[r].spec.sections[n]
    IN  /\ compose[r].at = "filling" /\ n <= Len(compose[r].spec.sections)
        /\ compose' = [compose EXCEPT ![r].sections = Append(@,
              [family |-> ss.family, timing |-> ss.timing, refs |-> SelectRefs(ss)])]
        /\ UNCHANGED <<schemaVars, dbVars, steady>>

TestSpec(r) == [compose[r].spec EXCEPT !.sections = compose[r].sections]

Filled(r) == compose[r].at = "filling" /\ Len(compose[r].sections) = Len(compose[r].spec.sections)

(* All sections are read: NewTest accepts and the test is stored ...       *)
Store(r) ==
    /\ Filled(r) /\ ValidTest(TestSpec(r))
    /\ SaveTest(compose[r].spec.id, TestSnapshot(TestSpec(r)))
    /\ compose' = [compose EXCEPT ![r] = Idle]
    /\ steady' = [steady EXCEPT ![r] = TRUE]
    /\ UNCHANGED schemaVars

(* ... or it does not, or a store call fails, and nothing is.              *)
GiveUp(r) ==
    /\ compose[r].at = "filling"
    /\ compose' = [compose EXCEPT ![r] = Idle]
    /\ steady' = [steady EXCEPT ![r] = TRUE]
    /\ UNCHANGED <<schemaVars, dbVars>>

Next ==
    \/ Unused /\ SchemaNext /\ UNCHANGED <<dbVars, compose, steady>>
    \/ Up /\ EditItems
    \/ Up /\ RemoveTest
    \/ \E r \in Composers : Up /\ (Begin(r) \/ Fill(r) \/ Store(r) \/ GiveUp(r))

Spec == Init /\ [][Next]_vars

-----------------------------------------------------------------------------
(* Pages. intParam reads any int; paginate clamps before it adds.          *)

ApplyLimit(limit) ==
    IF limit <= 0 THEN DefaultPageLimit ELSE IF limit > MaxPageLimit THEN MaxPageLimit ELSE limit

(* Two's complement of a machine whose largest int is MaxInt.              *)
Wrap(n) == IF n > MaxInt THEN n - 2 * (MaxInt + 1) ELSE n

(* all[from:to], which panics outside the slice. *)
Slice(all, from, to) ==
    IF 0 <= from /\ from <= to /\ to <= Len(all) THEN SubSeq(all, from + 1, to) ELSE <<"panic">>

(* The offset is clamped to the end of the page, once that is known. *)
PageBug(all, limit, offset) ==
    LET from == IF offset < 0 THEN 0 ELSE offset
        end  == Wrap(from + ApplyLimit(limit))
        to   == IF end < Len(all) THEN end ELSE Len(all)
    IN  Slice(all, IF from > to THEN to ELSE from, to)

Page(all, limit, offset) ==
    LET from == IF offset < 0 THEN 0 ELSE IF offset > Len(all) THEN Len(all) ELSE offset
        end  == Wrap(from + ApplyLimit(limit))
    IN  Slice(all, from, IF end < Len(all) THEN end ELSE Len(all))

-----------------------------------------------------------------------------
(* Nothing a caller can ask distinguishes the two stores, whatever was     *)
(* saved and deleted in whatever order: "any divergence between this SQL   *)
(* and Matches fails the build", and every valid item can be persisted by  *)
(* both (validateOpenNumeric).                                             *)
StoresAgree ==
    /\ \A id \in ItemIds : GetItem(id) = GetItemRow(id)
    /\ \A id \in TestIds : GetTest(id) = GetTestRow(id)
    /\ \A f \in Filters : ListItems(f) = ListItemRows(f)

Places(secs) == UNION {{<<s, k>> : k \in DOMAIN secs[s].refs} : s \in DOMAIN secs}

(* However the bank moves between the reads of two sections, a stored test *)
(* is a plan domain/session can run: no item twice, no empty section,      *)
(* fixed tests that never get easier within a section, adaptive sections   *)
(* with room to move, families exactly those of its sections.              *)
StoredTestIsAPlan ==
    \A id \in DOMAIN tests : LET secs == tests[id].sections IN
        /\ secs # <<>>
        /\ \A s \in DOMAIN secs : LET refs == secs[s].refs IN
              /\ refs # <<>>
              /\ tests[id].policy = "fixed-increasing" =>
                    \A k \in 2..Len(refs) : refs[k - 1].band <= refs[k].band
              /\ tests[id].policy = "adaptive" => \E k, l \in DOMAIN refs : refs[k].band # refs[l].band
        /\ Cardinality({secs[p[1]].refs[p[2]].item : p \in Places(secs)}) = Cardinality(Places(secs))
        /\ \A f \in Families : f \in tests[id].families <=> \E s \in DOMAIN secs : secs[s].family = f

(* A test composed while the bank stood still holds, section by section,   *)
(* as many matching items as the bank has up to the cap, and none that was *)
(* left out is easier than one taken.                                      *)
TakesTheEasiest ==
    [][ \A r \in Composers : Store(r) /\ steady[r] =>
          LET spec == compose[r].spec IN \A s \in DOMAIN spec.sections :
            LET ss    == spec.sections[s]
                refs  == tests'[spec.id].sections[s].refs
                taken == {refs[k].item : k \in DOMAIN refs}
                match == {i \in DOMAIN items : /\ items[i].family = ss.family
                                               /\ items[i].band >= ss.min
                                               /\ ss.max <= 0 \/ items[i].band <= ss.max}
            IN  /\ taken \subseteq match
                /\ taken = match \/ Cardinality(taken) = ss.count
                /\ \A i \in taken, j \in match \ taken : items[i].band <= items[j].band
                /\ \A k \in DOMAIN refs : refs[k].band = items[refs[k].item].band
      ]_vars

(* Asking for one page after the other, from the first, walks the listing  *)
(* once and in order, whatever limit was asked for; any other offset, at   *)
(* the width of an int too, gets a window of the listing and no error.     *)
PagesCover ==
    \A f \in Filters, limit \in Limits :
        LET all == ListItems(f) step == ApplyLimit(limit) IN
        /\ \A n \in 1..(Len(all) \div step + 1) :
              LET page == Page(all, limit, (n - 1) * step) IN
              /\ DOMAIN page = {k \in 1..step : (n - 1) * step + k <= Len(all)}
              /\ \A k \in DOMAIN page : page[k] = all[(n - 1) * step + k]
        /\ \A offset \in Offsets :
              IF offset < Len(all) /\ all # <<>>
              THEN Page(all, limit, offset) # <<>>
              ELSE Page(all, limit, offset) = <<>>
=============================================================================

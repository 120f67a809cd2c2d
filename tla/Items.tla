-------------------------------- MODULE Items --------------------------------
(***************************************************************************)
(* domain/item and the taxonomy of domain/shared: what NewItem lets into   *)
(* the bank and what a filter selects from it. Pure; text is a name, "" is *)
(* Go's zero string, and a number is written as it prints, so that the     *)
(* floats JSON cannot carry ("nan", "inf") have a place.                   *)
(*                                                                         *)
(* An operator named ...Bug is a plausible slip in the one it precedes,    *)
(* used only to show which property notices.                               *)
(***************************************************************************)
EXTENDS Integers, Sequences, FiniteSets, TLC

CONSTANT NoId    \* the empty item id

TypesOf == [logical   |-> {"A1", "A2", "A3", "A4", "A5"},
            numerical |-> {"B1", "B2", "B3", "B4", "B5"},
            verbal    |-> {"C1", "C2", "C3", "C4"},
            spatial   |-> {"D1", "D2", "D3"},
            speed     |-> {"E1", "E2"}]

Families  == DOMAIN TypesOf
TestTypes == UNION {TypesOf[f] : f \in Families}

Family(type) == CHOOSE f \in Families : type \in TypesOf[f]

(* The families a set of codes covers; unknown codes cover none.           *)
DeriveFamilies(codes) == {Family(c) : c \in codes \cap TestTypes}

Origins         == {"fetched", "generated", "authored"}
Redistributable == {"yes", "conditional", "no"}
Formats         == {"multiple-choice", "open-numeric", "true-false-cannotsay"}
Verdicts        == {"true", "false", "cannot-say"}
MediaKinds      == {"image", "svg", "grid", "figure"}
MinOptions      == 4
MaxOptions      == 6

-----------------------------------------------------------------------------
(* A MediaRef is empty, a data URI with the bytes in it, the content       *)
(* reference of stored bytes, or a URL elsewhere.                          *)
NoMedia       == <<"", "">>
DataUri(d)    == <<"data", d>>
BlobRef(d)    == <<"blob", d>>
OutsideUrl(d) == <<"url", d>>

(* A stimulus part or an option: text, media or both, and a media kind     *)
(* exactly when there is something for it to describe.                     *)
WellFormed(part) ==
    /\ part.text # "" \/ part.ref # NoMedia
    /\ IF part.ref = NoMedia THEN part.kind = "" ELSE part.kind \in MediaKinds

ValidCommon(spec) ==
    /\ spec.id # NoId
    /\ spec.source # ""
    /\ spec.origin \in Origins
    /\ spec.redist \in Redistributable
    /\ spec.type \in TestTypes
    /\ spec.format \in Formats
    /\ spec.band >= 1
    /\ spec.stimulus # <<>>
    /\ \A k \in DOMAIN spec.stimulus : WellFormed(spec.stimulus[k])

(* A key sets only the fields of its format.                               *)
BlankKey == [option |-> "", numeric |-> "0", tolerance |-> "0", verdict |-> ""]

ValidMultipleChoice(spec) ==
    LET opts == spec.options
    IN  /\ Len(opts) \in MinOptions..MaxOptions
        /\ spec.key = [BlankKey EXCEPT !.option = spec.key.option]
        /\ \A k \in DOMAIN opts : opts[k].id # "" /\ WellFormed(opts[k])
        /\ \A k, l \in DOMAIN opts : opts[k].id = opts[l].id => k = l
        /\ \E k \in DOMAIN opts : opts[k].id = spec.key.option

Finite(number) == number \notin {"nan", "inf"}

(* The finiteness of the key is left to the store. *)
ValidOpenNumericBug(spec) ==
    spec.options = <<>> /\ spec.key.option = "" /\ spec.key.verdict = "" /\ spec.key.tolerance # "-1"

ValidOpenNumeric(spec) ==
    /\ spec.options = <<>>
    /\ spec.key.option = "" /\ spec.key.verdict = ""
    /\ Finite(spec.key.numeric)
    /\ Finite(spec.key.tolerance) /\ spec.key.tolerance # "-1"

ValidTrueFalse(spec) ==
    /\ spec.options = <<>>
    /\ spec.key = [BlankKey EXCEPT !.verdict = spec.key.verdict]
    /\ spec.key.verdict \in Verdicts

ValidAnswer(spec) ==
    \/ spec.format = "multiple-choice" /\ ValidMultipleChoice(spec)
    \/ spec.format = "open-numeric" /\ ValidOpenNumeric(spec)
    \/ spec.format = "true-false-cannotsay" /\ ValidTrueFalse(spec)

ValidItem(spec) == ValidCommon(spec) /\ ValidAnswer(spec)

(* NewItem's aggregate, as its snapshot: the family is derived, never given. *)
Snapshot(spec) ==
    [x \in DOMAIN spec \cup {"family"} |-> IF x = "family" THEN Family(spec.type) ELSE spec[x]]

-----------------------------------------------------------------------------
(* ItemFilter: empty sets and zero bounds do not narrow.                   *)

Narrows(vals, val) == vals = {} \/ val \in vals

Matches(f, snap) ==
    /\ Narrows(f.families, snap.family)
    /\ Narrows(f.types, snap.type)
    /\ Narrows(f.origins, snap.origin)
    /\ Narrows(f.redist, snap.redist)
    /\ f.min > 0 => snap.band >= f.min
    /\ f.max > 0 => snap.band <= f.max
=============================================================================

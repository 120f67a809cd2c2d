------------------------------- MODULE Testset -------------------------------
(***************************************************************************)
(* domain/testset: what NewTest accepts as a runnable test. Pure. A        *)
(* section is an ordered list of references [item, band] copied from the   *)
(* bank when the test was composed; "" is a missing id or title.           *)
(*                                                                         *)
(* An operator named ...Bug is a plausible slip in the one it precedes,    *)
(* used only to show which property notices.                               *)
(***************************************************************************)
EXTENDS Items

Policies == {"fixed-increasing", "adaptive"}

(* 0 is unlimited; a per-item cap beyond the total could never bind.       *)
ValidTiming(timing) ==
    /\ timing.total >= 0 /\ timing.perItem >= 0
    /\ timing.total # 0 => timing.perItem <= timing.total

BandsOf(refs) == {refs[k].band : k \in DOMAIN refs}

NonDecreasing(refs) == \A k, l \in DOMAIN refs : k < l => refs[k].band <= refs[l].band

ValidSection(policy, sec) ==
    /\ sec.family \in Families
    /\ ValidTiming(sec.timing)
    /\ sec.refs # <<>>
    /\ \A k \in DOMAIN sec.refs : sec.refs[k].item # NoId /\ sec.refs[k].band >= 1
    /\ policy = "fixed-increasing" => NonDecreasing(sec.refs)
    /\ policy = "adaptive" => Cardinality(BandsOf(sec.refs)) >= 2

(* Duplicates are looked for within each section only. *)
NoDuplicatesBug(sections) ==
    \A s \in DOMAIN sections : \A k, l \in DOMAIN sections[s].refs :
        sections[s].refs[k].item = sections[s].refs[l].item => k = l

(* An item is placed once in the whole test. *)
NoDuplicates(sections) ==
    \A s, t \in DOMAIN sections : \A k \in DOMAIN sections[s].refs, l \in DOMAIN sections[t].refs :
        sections[s].refs[k].item = sections[t].refs[l].item => s = t /\ k = l

ValidTest(spec) ==
    /\ spec.id # "" /\ spec.title # ""
    /\ spec.policy \in Policies
    /\ ValidTiming(spec.timing)
    /\ spec.sections # <<>>
    /\ \A s \in DOMAIN spec.sections : ValidSection(spec.policy, spec.sections[s])
    /\ NoDuplicates(spec.sections)

SectionFamilies(sections) == {sections[s].family : s \in DOMAIN sections}

(* NewTest's aggregate as its snapshot: families derived, never given.     *)
TestSnapshot(spec) ==
    [x \in DOMAIN spec \cup {"families"} |->
        IF x = "families" THEN SectionFamilies(spec.sections) ELSE spec[x]]
=============================================================================

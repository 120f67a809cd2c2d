-------------------------------- MODULE Blobs --------------------------------
(***************************************************************************)
(* What a blob store promises (ports.BlobStore, and all there is to        *)
(* memoryblob): a map from content references to content. A reference      *)
(* names one content, so a Put adds at most one entry, and none is ever    *)
(* changed or removed.                                                     *)
(***************************************************************************)
CONSTANT Refs       \* content references

VARIABLE stored     \* reference -> "whole", the bytes that were put

Init == stored = [r \in {} |-> "whole"]

Put(ref) == stored' = [r \in DOMAIN stored \cup {ref} |-> "whole"]

Next == \E ref \in Refs : Put(ref)

Spec == Init /\ [][Next]_stored
=============================================================================

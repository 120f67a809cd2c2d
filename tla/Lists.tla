-------------------------------- MODULE Lists --------------------------------
(***************************************************************************)
(* The loops over a slice that several components have: one that keeps     *)
(* some of its elements, and one that adds up what it finds. Pure, and     *)
(* written so that what they compute can be proved for every slice.        *)
(***************************************************************************)
EXTENDS Integers, Sequences, FiniteSets

(* The n-th of some places. *)
Place(places, n) == CHOOSE k \in places : Cardinality({l \in places : l <= k}) = n

(* The elements of seq at some of its places, in the order they have.      *)
Picked(seq, places) == [n \in 1..Cardinality(places) |-> seq[Place(places, n)]]

(* The sum of the first n numbers of seq, for each n.                      *)
Sums(seq) ==
    LET upto[n \in 0..Len(seq)] == IF n = 0 THEN 0 ELSE upto[n - 1] + seq[n]
    IN  upto

Total(seq) == Sums(seq)[Len(seq)]

(* The same of fractions <<numerator, denominator>>.                       *)
Added(x, y) == <<x[1] * y[2] + y[1] * x[2], x[2] * y[2]>>

FractionSums(seq) ==
    LET upto[n \in 0..Len(seq)] == IF n = 0 THEN <<0, 1>> ELSE Added(upto[n - 1], seq[n])
    IN  upto

FractionTotal(seq) == FractionSums(seq)[Len(seq)]
=============================================================================

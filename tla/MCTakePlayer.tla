---------------------------- MODULE MCTakePlayer ----------------------------
(* A test of two sections in one browser tab.                              *)
EXTENDS TakePlayer

MCSections == << <<"a">>, <<"b">> >>

MCBand == [i \in {"a", "b"} |-> 1]
=============================================================================

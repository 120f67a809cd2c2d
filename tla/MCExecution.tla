---------------------------- MODULE MCExecution ----------------------------
(* Two concurrent requests of one attempt at a plan of two items. *)
EXTENDS Execution, TLC

MCSections == << <<"a", "b">> >>

MCBand == [i \in {"a", "b"} |-> 1]

HandlerSymmetry == Permutations(Handlers)
=============================================================================

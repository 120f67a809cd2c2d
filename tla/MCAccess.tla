------------------------------- MODULE MCAccess ------------------------------
(* Two instances on one home, two takers, one test, two attempts; enough   *)
(* secrets for two first starts that overlap and for one more.             *)
EXTENDS Access, TLC

CONSTANTS k1, k2, k3, k4, a1, a2, t1, t2, i1, i2

(* No file at all, one of a version that had no secrets yet, one whose     *)
(* secrets are there and whose other fields are not, an open one, and an  *)
(* open one with an operator token and no secret.                          *)
MCFirstFiles ==
  {Absent,
   [mode |-> "", op |-> NoSecret, secret |-> NoSecret, rest |-> FALSE],
   [mode |-> "token", op |-> k1, secret |-> k2, rest |-> FALSE],
   [mode |-> "none", op |-> NoSecret, secret |-> NoSecret, rest |-> TRUE],
   [mode |-> "none", op |-> k1, secret |-> NoSecret, rest |-> TRUE]}

(* Nothing asked, one second, too long for a duration, and so long that it *)
(* comes round to one second again.                                        *)
MCAsked == {0, 1, 5, 9}

Symmetry == Permutations(Takers) \cup Permutations(Attempts) \cup Permutations(Instances)
              \cup Permutations({k3, k4})
=============================================================================

----------------------------- MODULE MCScoring -----------------------------
(* One adaptive, timed attempt, a section to climb and then a single item, *)
(* scored while the bank is edited.                                        *)
EXTENDS Scoring

MCSections == << <<"a", "b", "c", "d">>, <<"e">> >>

(* A repeated band, bands out of order and a gap (no item of band 3).      *)
MCBand == [i \in {"a", "b", "c", "d", "e"} |->
              CASE i = "a" -> 2 [] i = "b" -> 1 [] i = "c" -> 4
                [] i = "d" -> 1 [] i = "e" -> 2]

Fields(option, numeric, verdict) == [option |-> option, numeric |-> numeric, verdict |-> verdict]

MCAnswers == {Fields("p", 0, ""), Fields("", 4, "true")}

Choice(id) == [format |-> "multiple-choice", key |-> Fields(id, 0, ""), tolerance |-> 0]
Number(n, tolerance) == [format |-> "open-numeric", key |-> Fields("", n, ""), tolerance |-> tolerance]
Claim == [format |-> "true-false-cannotsay", key |-> Fields("", 0, "true"), tolerance |-> 0]

MCContents == [a |-> <<Choice("p"), Choice("q")>>, b |-> <<Number(0, 0), Number(5, 1)>>,
               c |-> <<Claim, Number(4, 0)>>, d |-> <<Choice("p")>>, e |-> <<Number(5, 1)>>]

MCNorm == [mean |-> 3, sd |-> 1]
=============================================================================

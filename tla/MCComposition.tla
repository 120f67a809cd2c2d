---------------------------- MODULE MCComposition ----------------------------
EXTENDS Composition

Text(t) == [text |-> t, kind |-> "", ref |-> NoMedia]

Item(id, type, band) ==
    [id |-> id, source |-> "s", origin |-> "authored", redist |-> "yes", type |-> type, band |-> band,
     stimulus |-> <<Text("stem")>>, format |-> "true-false-cannotsay", options |-> <<>>,
     key |-> [BlankKey EXCEPT !.verdict = "true"]]

Numeric(id, num, tol) ==
    [Item(id, "B1", 1) EXCEPT !.format = "open-numeric", !.key = [BlankKey EXCEPT !.numeric = num, !.tolerance = tol]]

Choice(id, n, key) ==
    [Item(id, "A1", 2) EXCEPT !.format = "multiple-choice", !.key = [BlankKey EXCEPT !.option = key],
        !.options = [k \in 1..n |-> Text("o") @@ [id |-> SubSeq(<<"a", "b", "c", "d">>, k, k)[1]]]]

MCItemSpecs ==
    {Item(1, "A1", 1), Item(1, "A1", 2), Item(1, "A1", 0), Item(2, "A1", 1), Item(2, "A9", 1),
     Item(3, "A1", 2), Item(3, "B1", 2)}
        \cup {Numeric(1, "7", "0"), Numeric(1, "nan", "0"), Numeric(1, "7", "inf")}
        \cup {Choice(2, 4, "a"), Choice(2, 4, "z"), Choice(2, 3, "a")}

NoLimit == [total |-> 0, perItem |-> 0]

Sec(family, max, count) ==
    [family |-> family, timing |-> NoLimit, min |-> 0, max |-> max, count |-> count]

Test(policy, secs) ==
    [id |-> "t", title |-> "test", policy |-> policy, timing |-> NoLimit, sections |-> secs]

MCComposeSpecs ==
    {Test("fixed-increasing", <<Sec("logical", 0, 2)>>),
     Test("fixed-increasing", <<Sec("logical", 1, 0), Sec("logical", 0, 1)>>),
     Test("fixed-increasing", <<Sec("logical", 0, 1), Sec("numerical", 0, 0)>>),
     Test("adaptive", <<Sec("logical", 0, 0)>>)}

Filter(families, types, origins, min, max) ==
    [families |-> families, types |-> types, origins |-> origins, redist |-> {}, min |-> min, max |-> max]

MCOffsets == {-3, 2, MaxInt}

MCFilters ==
    {Filter({}, {}, {}, 0, 0), Filter({}, {"A1", "A9"}, {}, 2, 0),
     Filter({"logical"}, {}, {"authored"}, 0, 1)}
=============================================================================

--------------------------- MODULE MCCatalogSync ---------------------------
(* Catalogues of three sources that share one, drop one and reword one.    *)
EXTENDS CatalogSync, TLC

MCCatalogs == { 1 :> "x" @@ 2 :> "x" @@ 3 :> NoSource,
                1 :> "y" @@ 2 :> NoSource @@ 3 :> "y",
                1 :> "x" @@ 2 :> "y" @@ 3 :> "y" }

RequestSymmetry == Permutations(Requests)
=============================================================================

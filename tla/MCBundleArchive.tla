-------------------------- MODULE MCBundleArchive --------------------------
(* Small instances of BundleArchive. *)
EXTENDS BundleArchive, TLC

CONSTANTS i1, i2, plain1, plain2, escaped1, d1, d2

\* The name of i1 has a second spelling that quote never gives.
MCQuote == i1 :> plain1 @@ i2 :> plain2
MCUnquote == plain1 :> i1 @@ escaped1 :> i1 @@ plain2 :> i2

Histories == {<<>>, i1 :> <<>>, i1 :> <<d1, d2>>, (i1 :> <<d1, d2>>) @@ (i2 :> <<d2>>)}

MCBundles ==
  {[manifest |-> d1, objects |-> o, history |-> h, keys |-> k] :
     o \in {<<>>, i1 :> d1}, h \in Histories, k \in {<<>>, i1 :> d2}}

MCContents == {<<d2>>, <<Null>>, <<d1, Blank, d2>>, <<Garbage>>}
=============================================================================

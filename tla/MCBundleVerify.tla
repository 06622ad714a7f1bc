--------------------------- MODULE MCBundleVerify ---------------------------
(***************************************************************************)
(* A small instance of BundleVerify: the producer and one other actor, and *)
(* histories of two objects.                                               *)
(***************************************************************************)
EXTENDS BundleVerify, TLC

CONSTANTS prod, fay, k0, k1, o1, o2

Embedded(uri, key) == [uri |-> uri, key |-> key]

\* Each actor has a bare id of its own.
OwnTails == prod :> k0 @@ fay :> k1

\* No key, the producer's, all, and a record that holds no usable key.
SomeKeyDicts ==
  {<<>>, <<Embedded(prod, prod)>>, <<Embedded(prod, prod), Embedded(fay, fay)>>,
   <<Embedded(fay, NoKey)>>}

\* An outsider's key under the producer's name.
SomeForgedKeyDicts == {<<Embedded(prod, Outsider)>>}

ObjectSymmetry == Permutations(Objects)
=============================================================================

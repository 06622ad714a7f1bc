--------------------------- MODULE MCClientCalls ---------------------------
EXTENDS ClientCalls, TLC

CONSTANTS t1, t2, o1, o2

MCOperations == t1 :> {"create", "meta"} @@ t2 :> {"batch_push"}

\* Objects are interchangeable in the model and in what it implements.
Symmetry == Permutations({o1, o2})
=============================================================================

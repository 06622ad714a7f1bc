---------------------------- MODULE MCChainWalk ----------------------------
(* A small instance of ChainWalk: an honest and a dishonest actor, and lists *)
(* longer than what has been signed.  Objects and bodies are interchangeable. *)
EXTENDS ChainWalk, TLC

ObjectAndBodySymmetry == Permutations(Objects) \cup Permutations(Bodies)
=============================================================================

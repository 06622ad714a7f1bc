--------------------------- MODULE MCTopologyRead ---------------------------
(* Small instances of TopologyRead: two objects and chains of four events, so  *)
(* that pages of one and two entries can be stitched, mixed and lost.          *)
EXTENDS TopologyRead, TLC

ObjectSymmetry == Permutations(Objects)
=============================================================================

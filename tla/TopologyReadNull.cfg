SPECIFICATION Spec
CONSTANTS
  Objects = {o1, o2}
  o1 = o1
  o2 = o2
  Genesis = Genesis
  NoHash = NoHash
  Defects = {"null_hash"}
  MaxEvents = 2
INVARIANTS
  StitchedIsLinked
SYMMETRY ObjectSymmetry
CHECK_DEADLOCK FALSE

SPECIFICATION Spec
CONSTANTS
  Objects = {o1, o2}
  o1 = o1
  o2 = o2
  Genesis = Genesis
  NoHash = NoHash
  Defects = {"gap", "extra_field"}
  MaxEvents = 4
INVARIANTS
  TypeOK
  StitchedIsPrefix
  StitchedIsLinked
  SoundReadsSucceed
SYMMETRY ObjectSymmetry
CHECK_DEADLOCK FALSE

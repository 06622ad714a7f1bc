SPECIFICATION Spec
CONSTANTS
  NoKey = NoKey
  NoSignature = NoSignature
  Objects = {o1, o2}
  Actors = {alice, mallory}
  Honest = {alice}
  Bodies = {b1, b2}
  MaxSigned = 2
  MaxWalked = 3
INVARIANTS
  IndInv
  HonestSignatureFixesHistory
  HistoriesVerify
SYMMETRY ObjectAndBodySymmetry
CHECK_DEADLOCK FALSE

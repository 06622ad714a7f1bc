SPECIFICATION Spec
CONSTANTS
  NoKey = NoKey
  NoSignature = NoSignature
  Absent = Absent
  Outsider = Outsider
  prod = prod
  fay = fay
  k0 = k0
  k1 = k1
  o1 = o1
  o2 = o2
  Objects = {o1, o2}
  Actors = {prod, fay}
  Bodies = {b1}
  Producer = prod
  Tails = {k0, k1}
  TailOf <- OwnTails
  KeyDicts <- SomeKeyDicts
  ForgedKeyDicts <- SomeForgedKeyDicts
  MaxEvents = 2
INVARIANTS
  TypeOK
  TrustedHistoriesAreTheProducers
  ForeignEventsCarryEmbeddedKeys
  SoundBundlesVerify
SYMMETRY ObjectSymmetry
CHECK_DEADLOCK FALSE

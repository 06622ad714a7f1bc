SPECIFICATION Spec
CONSTANTS
  Tasks = {t1, t2}
  Urls = {u1}
  Documents <- OneDocument
  Anchors <- NoAnchors
  MaxAges <- RaceMaxAges
  t1 = t1
  t2 = t2
  u1 = u1
  NoAnchor = NoAnchor
  NoMaxAge = NoMaxAge
  NoWindow = NoWindow
  Overflow = Overflow
  NoEntry = NoEntry
  DEFAULT_TTL_SECONDS = 1
  MAX_TTL_SECONDS = 2
  MaxTime = 3
  MaxPublications = 2
INVARIANTS
  StalenessBounded
  IndInv
PROPERTIES
  RegressionOnlyByOverlap
  ImplementsDirectory

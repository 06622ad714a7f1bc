SPECIFICATION Spec
CONSTANTS
  Tasks = {t1, t2}
  Urls = {u1}
  Documents <- KeyDocuments
  Anchors <- TwoAnchors
  MaxAges <- NoHeader
  t1 = t1
  t2 = t2
  u1 = u1
  NoAnchor = NoAnchor
  NoMaxAge = NoMaxAge
  NoWindow = NoWindow
  Overflow = Overflow
  NoEntry = NoEntry
  DEFAULT_TTL_SECONDS = 2
  MAX_TTL_SECONDS = 3
  MaxTime = 1
  MaxPublications = 2
INVARIANTS
  TypeOK
  KeyUsable

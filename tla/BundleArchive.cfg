SPECIFICATION Spec
CONSTANTS
  Ids = {i1, i2}
  Names = {plain1, plain2, escaped1}
  Quote <- MCQuote
  Unquote <- MCUnquote
  Documents = {d1, d2}
  Null = Null
  Blank = Blank
  Garbage = Garbage
  Absent = Absent
  Bundles <- MCBundles
  Contents <- MCContents
  MaxMembers = 5
  MaxAlien = 1
  i1 = i1
  i2 = i2
  plain1 = plain1
  plain2 = plain2
  escaped1 = escaped1
  d1 = d1
  d2 = d2
INVARIANTS
  TypeOK
  RoundTrip
  LossOnlyRemoves
  LastMemberCounts
  IndInv
CHECK_DEADLOCK FALSE

SPECIFICATION Spec
CONSTANTS
  Answers <- MCAnswers
  ChunkSizes = {1, 2}
  MAX_RESPONSE_BYTES = 3
  timeout_seconds = 2
  MaxReads = 3
  MaxElapsed <- ElapsedBound
CHECK_DEADLOCK FALSE
INVARIANTS
  TypeOK
  ConnectsOnlyWhenVetted
  BodyCapped
  DurationBounded
PROPERTIES
  EndsUnlessFedForEver

\* Up to 13 records in batches of three, so that the last one may be full or
\* not, and the ends may meet after a left or a right batch; a plan without
\* reductions between two that have some and share the cache.
CONSTANTS
  Counts <- MCCounts
  HALFBATCH = 3
  Plans = 3
  Reducing = {1, 3}
SPECIFICATION Spec
INVARIANTS PairsOfProbed VerifiesThePair
PROPERTIES JoinEnds
CHECK_DEADLOCK FALSE

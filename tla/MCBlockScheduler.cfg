\* Nineteen records in batches of two: halves of 10 and 9, and sides that are
\* odd, shorter than a batch or not a whole number of batches at every depth.
CONSTANTS
  N = 19
  ALIGNMENT = 2
SPECIFICATION FairSpec
INVARIANTS PlanIsExact DiagonalDescent BlocksAligned
PROPERTIES ImplementsOffer EventuallyAllDone
CHECK_DEADLOCK FALSE

\* Counters is 2^7 and 2^3 in the code; with 2 it wraps for three equal tokens.
CONSTANTS
  a1 = a1
  a2 = a2
  Instances = {a1, a2}
  Settings <- AllSettings
  Originals <- AllOriginals
  Alphabet = {1, 2}
  MaxEdits = 3
  MaxLength = 6
  QGramLengths = {1, 2}
  Counters = 2

SPECIFICATION MCSpec

INVARIANTS
  FindsExactly
  QgramsSurvive
  TreesSurvive
  DistanceIsEdits
  BandDecides
  JaroSurvives

\* An edited string that has had its edits stops.
CHECK_DEADLOCK FALSE

\* The length of the q-grams that the program always uses.
CONSTANTS
  a1 = a1
  a2 = a2
  Instances = {a1, a2}
  Settings <- AllSettings
  Originals <- AllOriginals
  Alphabet = {1, 2}
  MaxEdits = 1
  MaxLength = 5
  QGramLengths = {3}
  Counters = 128

SPECIFICATION MCSpec

INVARIANTS
  QgramsSurvive

CHECK_DEADLOCK FALSE

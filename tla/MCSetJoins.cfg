CONSTANTS
  a1 = a1
  a2 = a2
  s1 = s1
  s2 = s2
  Instances = {a1, a2}
  SharedStates = {s1, s2}
  MaxToken = 9
  Settings <- AllSettings

SPECIFICATION MCSpec

INVARIANTS
  FindsOnlySimilar
  FindsAllSimilar
  LosesOnlyLonger
  BudgetIsCovered
  GroupsAgree
  IndexIsRebuild

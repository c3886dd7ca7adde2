SPECIFICATION Spec
CONSTANTS
  NoKey = NoKey
  c1 = c1
  c2 = c2
  c3 = c3
  Keys <- ThreeKeys
  Handled <- TwoHandled
  Answers <- TwoAnswers
  Capacity = 3
  Window = 2
  TimerModulus = 6
INVARIANTS TypeOK RemembersUntilFull RemembersLast CachesResult
SYMMETRY Symmetry

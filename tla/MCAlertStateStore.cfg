CONSTANTS
  av = av
  inv1 = inv1
  inv2 = inv2
  mp1 = mp1
  mp2 = mp2
  setup = setup
  symbol = symbol
  bull = bull
  bear = bear
  None = None
  Alert <- MCAlert
  Subject <- MCSubject
  Setup <- MCSetup
  Pattern <- MCPattern
  SubjectOf <- MCSubjectOf
  CodeOf <- MCCodeOf
  PatternOf <- MCPatternOf
  Runner = {r1, r2}
  MaxAttempts = 2
  MaxLosses = 1
SPECIFICATION Spec
INVARIANT TypeOK
INVARIANT CacheIsReplay
INVARIANT DecisionsJustified
INVARIANT ContentionNeedsProgress
PROPERTY ImplementsAlertLog
SYMMETRY MCSymmetry

SPECIFICATION Spec
CONSTANTS
  Login = {l1, l2}
  Call = {c1, c2}
  Tab = {t1, t2}
  NoTab = NoTab
  Threshold = 2
  LockTime = 1
  Horizon = 2
  MaxFails = 3
  MaxErrors = 1
  MaxToken = 2
INVARIANT TypeOK
INVARIANT CounterExact
INVARIANT DeactivatedHasNoTokens
PROPERTY RotatedIsRefused
PROPERTY LockLiftedByStale
 
SYMMETRY Symmetric

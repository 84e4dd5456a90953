SPECIFICATION Spec
CONSTANTS
  Worker = {w1}
  Slots = 2
  Minutes = 3
  Lookback = 2
  Never = Never
  FirstSchedule = 1
  Horizon = 29
  MaxRun = 3
  Troubles = {"late", "failure", "restart", "forward", "back", "update"}
  MaxTrouble = 1
CHECK_DEADLOCK FALSE
INVARIANT TypeOK
INVARIANT OncePerMinute
INVARIANT NoDateLost

SPECIFICATION Spec
CONSTANTS
  Server = {s1, s2}
  MonthLength = 2
  Horizon = 3
  MaxCrashes = 1
  MaxSetbacks = 1
INVARIANTS TypeOK NoSecondTwice NothingLost MonthIsNotOvercharged
CHECK_DEADLOCK FALSE

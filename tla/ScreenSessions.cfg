SPECIFICATION ScreenSpec
CONSTANTS
  Watchers = {control, still}
  Shots = {still}
  Waiting = 1
  MaxSessions = 2
  Nothing = Nothing
  Rates = 3
  Settle = 1
  Retry = 2
  MaxRetry = 4
  Windows = 10
INVARIANTS SessionEndsCleanly PaceIsSteady
PROPERTIES StoppedHelpersEnd

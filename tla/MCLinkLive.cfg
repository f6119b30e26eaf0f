SPECIFICATION FairSpec
CONSTANTS
  Goal = {g1}
  NoGoal = NoGoal
  Replacing = {}
  Concurrent = 1
  MaxConn = 3
PROPERTIES
  EveryGoalEnds
CHECK_DEADLOCK FALSE

SPECIFICATION Spec
CONSTANTS
  Goal = {g1, g2}
  NoGoal = NoGoal
  Replacing = {g1, g2}
  Concurrent = 1
  MaxConn = 2
INVARIANTS
  TypeOK
  MovingIsAwaited
  EndIsTrue
SYMMETRY Symmetry
CHECK_DEADLOCK FALSE

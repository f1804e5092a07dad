CONSTANTS
  MaxStderr = 0
  MaxResident = 2
  MayEscape = TRUE
SPECIFICATION Spec
INVARIANTS TypeOK AcceptedIsWhole GroupIsGone BalloonNeverPasses LoopKillsOwnGroup
PROPERTIES CallReturns DrainsEnd
CHECK_DEADLOCK FALSE

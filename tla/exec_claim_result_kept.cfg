SPECIFICATION Spec
CONSTANTS
  e1 = e1
  e2 = e2
  e3 = e3
  Exec = {e1}
  NoExec = NoExec
  Key <- OwnPlans
  BadExit = FALSE
  MaxSpawns = 2
  MaxCrashes = 1
  MaxFaults = 0
PROPERTIES CompletedResultKept

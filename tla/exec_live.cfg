SPECIFICATION FairSpec
CONSTANTS
  e1 = e1
  e2 = e2
  e3 = e3
  Exec = {e1, e2, e3}
  NoExec = NoExec
  Key <- SharedPlan
  BadExit = TRUE
  MaxSpawns = 2
  MaxCrashes = 1
  MaxFaults = 0
INVARIANTS OneRunner
PROPERTIES ImplementsLifecycle Progress

SPECIFICATION Spec
CONSTANTS
  e1 = e1
  e2 = e2
  e3 = e3
  Exec = {e1, e2}
  NoExec = NoExec
  Key <- OwnPlans
  BadExit = TRUE
  MaxSpawns = 2
  MaxCrashes = 1
  MaxFaults = 1
INVARIANTS TypeOK NeverForgotten SpawnedOnce ReportTrue
PROPERTIES RecordsRespected

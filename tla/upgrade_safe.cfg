SPECIFICATION Spec
CONSTANTS
  w1 = w1
  w2 = w2
  Work = {w1, w2}
  NoWork = NoWork
  Torn = Torn
  NBins = 2
  Installed <- BareInstalled
  PkgVersion <- Forward
  PkgShape <- FullThenBare
  Target <- NoTarget
  Downgrade <- OnlyForward
  Broken = {}
  Units = TRUE
  MaxLaunches = 3
  MaxCrashes = 1
  MaxWipes = 0
  MaxDeaths = 1
  MaxLost = 0
  MaxFaults = 1
\* agentd stays down when a version that does not come up is left installed
CHECK_DEADLOCK FALSE
INVARIANTS TypeOK OneUpgrader VerdictIsTrue
PROPERTIES EndsWhole

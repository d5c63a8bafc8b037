SPECIFICATION DeploySpec
CONSTANTS
  w1 = w1
  w2 = w2
  Work = {w1}
  NoWork = NoWork
  Torn = Torn
  NBins = 2
  Installed <- OldInstalled
  PkgVersion <- Forward
  PkgShape <- AllFull
  Target <- NoTarget
  Downgrade <- OnlyForward
  Broken = {}
  Units = TRUE
  MaxLaunches = 4
  MaxCrashes = 1
  MaxWipes = 2
  MaxDeaths = 0
  MaxLost = 1
  MaxFaults = 0
  v1 = v1
  v2 = v2
  None = None
  Specs = {v1, v2}
  Odd = {}
  Retries = 1
  Burst = 3
  MaxCalls = 2
  MaxUpsets = 1
  MaxHands = 1
INVARIANTS UninstallStops OneUpgrader
PROPERTIES InstallTakes UpgradeSettles
\* the operator need not run another command
CHECK_DEADLOCK FALSE

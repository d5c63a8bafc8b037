SPECIFICATION Spec
CONSTANTS
  c1 = c1
  c2 = c2
  l1 = l1
  l2 = l2
  none = none
  Remote <- McRemote
  Local <- McLocal
  Nobody = none
  HistoryLimit = 2
  Scenarios <- McScenarios
INVARIANTS ControlSafe
PROPERTIES CommandSettled LocalAnswered TerminalFollows
CHECK_DEADLOCK FALSE

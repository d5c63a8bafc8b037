SPECIFICATION Spec
CONSTANTS
  a1 = a1
  a2 = a2
  t1 = t1
  t2 = t2
  none = none
  local = local
  Agents <- McAgents
  NoAgent = none
  LocalAgent = local
  Tokens <- McTokens
  NoToken = none
  ConfigToken = t1
  ConfigIds <- McConfigIds
  MaxAttempts = 2
  MaxEnrolls = 1
  MaxEvents = 2
  MaxFaults = 2
INVARIANTS IdentityKept
PROPERTIES DaemonComesUp DueIsRenewed
CHECK_DEADLOCK FALSE

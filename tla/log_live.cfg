SPECIFICATION FairSpec
CONSTANTS
  Inode = {1, 2, 3}
  Chains <- TwoChains
  Order <- TwoOrder
  Kinds = {"single", "family"}
  Glob = {"a", "b"}
  Startup = "tail"
  Banner = TRUE
  Multiline = FALSE
  Cont = {}
  Noise = {2}
  MaxRecord = 2
  MaxLines = 1
  Room = 0
  MaxTracked = 3
  Quiet <- Batch
  Still <- Batch
  MaxWritten = 2
  MaxTurns = 1
  MaxOutages = 1
  MaxOther = 0
  MaxCrashes = 0
PROPERTY LineReceived

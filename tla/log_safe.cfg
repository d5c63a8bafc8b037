SPECIFICATION Spec
CONSTANTS
  Inode = {1, 2, 3}
  Chains <- OneChain
  Order <- OneOrder
  Kinds = {"single", "family"}
  Glob = {"b"}
  Startup = "head"
  Banner = FALSE
  Multiline = TRUE
  Cont = {2}
  Noise = {}
  MaxRecord = 2
  MaxLines = 2
  Room = 1
  MaxTracked = 3
  Quiet <- Reading
  Still <- Renaming
  MaxWritten = 3
  MaxTurns = 1
  MaxOutages = 1
  MaxOther = 1
  MaxCrashes = 1
INVARIANTS LinesKept OneFramePerNumber

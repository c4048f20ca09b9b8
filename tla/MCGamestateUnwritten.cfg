\* a vanilla or R1Q2 baseline that cannot be expressed
CONSTANTS
  Streamed = FALSE
  EnableDeflate = FALSE
  NumConfigstrings = 0
  NumBaselines = 1
  StringLens = {1}
  BaselineSizes = {8}
  BaselineMax = 12
  Unwritable = {1}
  PacketSize = 48
  MsgSizes = {}
  MaxMsgs = 0
  MaxLevels = 1
  MaxReconnects = 0
SPECIFICATION Spec
INVARIANT SuccessIsWritten
CHECK_DEADLOCK FALSE

\* R1Q2 (zpackets) and vanilla (none): one message per element
CONSTANTS
  Streamed = FALSE
  EnableDeflate = TRUE
  NumConfigstrings = 2
  NumBaselines = 2
  StringLens = {1, 20}
  BaselineSizes = {8}
  BaselineMax = 9
  Unwritable = {}
  PacketSize = 48
  MsgSizes = {}
  MaxMsgs = 0
  MaxLevels = 2
  MaxReconnects = 0
SPECIFICATION Spec
INVARIANT IInv
CHECK_DEADLOCK FALSE

\* two gamestates on a connection, a client that reconnects at any time, and a baseline
\* that Q2PRO without extensions may be unable to express
CONSTANTS
  Streamed = TRUE
  EnableDeflate = TRUE
  NumConfigstrings = 1
  NumBaselines = 1
  StringLens = {1, 20}
  BaselineSizes = {8}
  BaselineMax = 12
  Unwritable = {2}
  PacketSize = 48
  MsgSizes = {10}
  MaxMsgs = 1
  MaxLevels = 2
  MaxReconnects = 1
SPECIFICATION Spec
INVARIANTS
  InOrderOnce
  SuccessIsComplete
  DeflateEnded
PROPERTIES
  PosFollowsWire
  TransferSpec
CHECK_DEADLOCK FALSE

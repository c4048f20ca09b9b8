\* Q2PRO/Q2rePRO streams cut into packets, with and without zpackets, and a baseline
\* that Q2PRO without extensions may be unable to express; every element fits into an empty packet
CONSTANTS
  Streamed = TRUE
  EnableDeflate = TRUE
  NumConfigstrings = 2
  NumBaselines = 2
  StringLens = {1, 20}
  BaselineSizes = {8}
  BaselineMax = 12
  Unwritable = {4}
  PacketSize = 48
  MsgSizes = {10}
  MaxMsgs = 1
  MaxLevels = 1
  MaxReconnects = 0
SPECIFICATION FairSpec
INVARIANTS
  IInv
  NeverConfused
  SuccessIsWritten
PROPERTIES
  EventuallyWritten
  EventuallyComplete
CHECK_DEADLOCK FALSE

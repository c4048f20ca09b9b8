\* Q2PRO: one deflate stream for all messages, files deflated already, and plain ones
CONSTANTS
  Protocol = "q2pro"
  EnableDeflate = TRUE
  RawSupported = TRUE
  CompressModes = {"auto", "raw", "never"}
  TotalSizes = {0, 40, 60}
  PacketRooms = {4, 28, 48}
  Ratios = {1, 2}
  MaxInt16 = 32767
  SizeModulus = 1000000
  MayRetry = FALSE
  MaxDownloads = 2
  MaxWire = 3
SPECIFICATION Spec
INVARIANTS
  FileIntact
  CompleteIsWhole
  CompleteIsReported
  OverForBoth
  AlwaysInflates
  ProgressIsExact
  IInv
PROPERTIES
  TransferSpec
CHECK_DEADLOCK FALSE

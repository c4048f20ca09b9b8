\* a message that holds more than INT16_MAX bytes when inflated;
\* a file deflated already is refused
CONSTANTS
  Protocol = "q2pro"
  EnableDeflate = TRUE
  RawSupported = FALSE
  CompressModes = {"auto", "raw"}
  TotalSizes = {0, 40, 60}
  PacketRooms = {48}
  Ratios = {1, 3}
  MaxInt16 = 31
  SizeModulus = 1000000
  MayRetry = FALSE
  MaxDownloads = 2
  MaxWire = 3
SPECIFICATION Spec
INVARIANT SizeIsLength
CHECK_DEADLOCK FALSE

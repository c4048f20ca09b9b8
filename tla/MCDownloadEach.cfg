\* R1Q2: every message a deflate stream of its own, short messages are plain; every
\* packet has room for a plain message, or for more than the header and the margin;
\* the application may ask for data again after an error
CONSTANTS
  Protocol = "r1q2"
  EnableDeflate = TRUE
  RawSupported = TRUE
  CompressModes = {"auto"}
  TotalSizes = {0, 30}
  PacketRooms = {6, 28, 48}
  Ratios = {1, 2}
  MaxInt16 = 32767
  SizeModulus = 1000000
  MayRetry = TRUE
  MaxDownloads = 2
  MaxWire = 3
SPECIFICATION FairSpec
INVARIANTS
  DeflateTracked
  FitsPacket
PROPERTIES
  EndedOnce
  DownloadsEnd
CHECK_DEADLOCK FALSE

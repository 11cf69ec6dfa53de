SPECIFICATION SuiteSpec
CONSTANTS
  UriChars = {"a", "%", "1", "/", ".", ":", "?", "#", "@", "[", "!"}
  MaxGrow = 4
  HexBase = 4
  MaxParams = 2
  MaxQuery = 4
  MaxHeaders = 2
  MaxText = 4
  Sizes = {1, 2}
  PeekSizes = {1, 2}
  MaxSend = 2
  MaxAddresses = 2
  Limits = {8, 12, 44}
  ByteMod = 4
  PortMod = 4
  Capacity = 3
  Objects = {"s", "t", "l"}
  MaxFd = 2
  MaxOpened = 3
  MaxInterfaces = 3
  MaxReported = 2
  MaxQueries = 2
  Streams <- PeerStreams
  Unlimited = 4
  InetTexts <- ParsedTexts
  Paths <- ParsedPaths
  Answers <- NameAnswers
  Addresses <- HostAddresses
INVARIANTS
   ReadsAreExact HandlesAccounted
PROPERTIES ConnectIsClean CallReturns
CHECK_DEADLOCK FALSE

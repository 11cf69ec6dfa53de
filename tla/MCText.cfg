SPECIFICATION SuiteSpec
CONSTANTS
  Char = {"a", "sp", "cr", "lf"}
  MaxFull = 5
  MaxDelim = 2
  WordSize = 8
  MaxLen = 19
  MaxDiffer = 2
  Base = 4
  Limit = 32
  MaxBytes = 3
  MaxPut = 2
  HexBase = 3
  MaxInput = 4
  ShellChar = {"a", "n", "x", "0", "7", "bel", "nl", "bs", "dq", "'", "sp"}
  MaxChars = 5
  NumberBits = 5
  NumberChar = {"sp", "-", "+", "0", "1", "7", "f", "x", "z"}
  MaxText = 4
  MaxShift = 3
  IntBits = 7
  LongBits = 8
  Flags = {"-", "+", "sp", "#", "0"}
  MaxFlags = 2
  Specifiers = {"d", "u", "x", "s", "v", "z"}
  MaxPlain = 2
  ScanChar = {"sp", "-", "0", "1", "7", "a", "x", "%"}
  MaxScan = 4
  MaxArgs = 2
  MaxSize = 6
  Years = {1900, 2000, 2001}
  StartDays = {1, 14, 28, 29, 30, 31}
  Added = {1, 30, 366}
  MaxCalls = 1
  MaxKey = 40
  BlockSize = 4
  PieceSizes = {0, 1, 2, 3, 5, 8, 13, 31}
  MaxMessage = 40
  MaxData = 4
  DivisorBits = 6
  segment_size = 4
INVARIANTS  EncodingsComeBack FormatsAgree DigestsAreWhole ArithmeticIsExact
CHECK_DEADLOCK FALSE

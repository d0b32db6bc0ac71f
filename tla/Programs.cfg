CONSTANTS
  w1 = w1
  w2 = w2
  w3 = w3
  w4 = w4
  Word <- MCWord
  NoWord = NoWord
  Hash <- MCHash
  INITIAL_SIZE = 3
  MULTIPLIER = 2
  MaxRead = 6
  NaN = NaN
  Skipped = Skipped
  Idle = Idle
  Char <- MCChar
  Argv <- MCArgv
  Font <- MCFont
  Banner <- MCBanner
  Art <- MCArt
  Addresses = 2
  TEXT_SIZE = 6
  CMD_SIZE = 18
  EOCDR_SZ = 3
  CFH_SZ = 3
  LFH_SZ = 2
  W = 64
  MAX_COMMENT = 8
  Member <- MCMember
  Members = 2
  Prefix <- MCPrefix
  Value <- MCValue
  Comment <- MCComment
  Number <- MCNumber
  MaxRows = 4
  Data <- MCData
SPECIFICATION ProgramsSpec
INVARIANTS ProgramsTypeOK WordsReported GivesBack FigletAnswer
INVARIANTS ZipIntactListed ZipStaysInFile DbStatsRight ListRight
PROPERTY ProgramEnds
CHECK_DEADLOCK FALSE

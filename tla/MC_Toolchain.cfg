SPECIFICATION ToolchainSpec
CONSTANTS
  XBITS = 8
  U8 = 2
  U16 = 4
  U32 = 16
  U64 = 256
  BitAnd <- MCAnd
  BitOr <- MCOr
  BitXor <- MCXor
  LongMax = 2147483646
  Files <- MCFiles
  Commands <- MCCommands
  Capacity = 4
  Objects <- MCObjects
  NoObject = NoObject
INVARIANTS
  LoaderTypeOK
  RunsExactlyTheProgramFiles
  EmulatesWhatIsWritten
  SeparatedLinesNeverAssert
  FreeLinesFreesTheCopy
  StringifyFits
  OnlyTrailingNewlineUnexplained
  ConvertedObjectsLoad
  TransfersReachTheirTargets
  ReservedDataIsMemory
  ConvertedBinariesConform
  OnlyConvertedCodeRuns
PROPERTY
  LoadingEnds
  EveryTurnCounts
CHECK_DEADLOCK FALSE

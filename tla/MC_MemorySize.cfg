SPECIFICATION ToolchainSpec
CONSTANTS
  XBITS = 8
  U8 = 2
  U16 = 4
  U32 = 16
  U64 = 256
  BitAnd <- MCAnd
  BitOr <- MCOr
  BitXor <- MCXor
  LongMax = 2147483646
  Files <- ShortFile
  Commands <- Quiet
  Capacity = 4
  Objects <- OneObject
  NoObject = NoObject
INVARIANT
  MemoryEndsAtUpperAddress
CHECK_DEADLOCK FALSE

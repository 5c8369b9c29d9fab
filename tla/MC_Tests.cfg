SPECIFICATION FairSpec
CONSTANTS
  XBITS = 16
  U8 = 4
  U16 = 16
  U32 = 256
  U64 = 65536
  BitAnd <- MCAnd
  BitOr <- MCOr
  BitXor <- MCXor
  NumRegs = 32
  SyscallReg = 17
  UpperShift = 12
  BlockSize = 64
  MaxAccesses = 30
  Inputs <- MCInputs
  HostMemory <- MCHostMemory
INVARIANT
  StatisticsAsExpected
PROPERTY
  TestsExit
CHECK_DEADLOCK FALSE

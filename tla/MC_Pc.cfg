SPECIFICATION FairSpec
CONSTANTS
  XBITS = 16
  U8 = 4
  U16 = 16
  U32 = 256
  U64 = 65536
  BitAnd <- MCAnd
  BitOr <- MCOr
  BitXor <- MCXor
  NumRegs = 4
  SyscallReg = 3
  UpperShift = 2
  BlockSize = 64
  MaxAccesses = 3
  Inputs <- BeyondInt
  HostMemory <- MCHostMemory
INVARIANT
  RangeCheckSeesThePc
CHECK_DEADLOCK FALSE

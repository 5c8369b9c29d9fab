SPECIFICATION FairSpec
CONSTANTS
  XBITS = 16
  U8 = 4
  U16 = 16
  U32 = 256
  U64 = 65536
  BitAnd <- MCAnd
  BitOr <- MCOr
  BitXor <- MCXor
  NumRegs = 4
  SyscallReg = 3
  UpperShift = 4
  BlockSize = 64
  MaxAccesses = 8
  Inputs <- LostSigns
  HostMemory <- MCHostMemory
PROPERTY
  ImplementsISA
CHECK_DEADLOCK FALSE

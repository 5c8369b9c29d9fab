---------------------------- MODULE HandlerLemmas ----------------------------
(***************************************************************************)
(* Lemmas about the operators the three handlers are built from: every     *)
(* value they compute is an integer, every value they keep is a word, the  *)
(* bounds check of loads and stores protects the RAM, and each handler     *)
(* keeps the type of everything it touches.                                *)
(***************************************************************************)
EXTENDS Memory, ControlFlow, WordAssumptions, CacheLemmas, TLAPS

\* The integer types have positive sizes (types.h).
LEMMA Sizes ==
  /\ U8 \in Nat \ {0} /\ U16 \in Nat \ {0} /\ U32 \in Nat \ {0} /\ U64 \in Nat \ {0}
  /\ U64 >= 2
  /\ XBITS \in Nat \ {0}
<1>1. U8 \in Nat \ {0} /\ XBITS \in Nat \ {0}
  BY WidthAssumption
<1>2. U16 \in Nat \ {0}
  BY <1>1, WidthAssumption
<1>3. U32 \in Nat \ {0}
  BY <1>2, WidthAssumption
<1>4. U64 \in Nat \ {0}
  BY <1>3, WidthAssumption
<1>5. 2 ^ 0 \in 1 .. U64 - 1
  BY <1>1, WidthAssumption
<1>6. U64 >= 2
  BY <1>4, <1>5
<1> QED
  BY <1>1, <1>2, <1>3, <1>4, <1>6

\* Whatever integer is converted to a u64_t, the result is a word.
LEMMA WrapIsWord == ASSUME NEW v \in Int PROVE Wrap(v) \in Word
BY Sizes DEF Wrap, Word

\* A cast to a signed type yields an integer.
LEMMA SignedIsInt ==
  ASSUME NEW v \in Int, NEW n \in Nat \ {0} PROVE Signed(v, n) \in Int
<1>1. v % n \in Int
  OBVIOUS
<1> QED
  BY <1>1 DEF Signed

\* Masked shift amounts select a power of two within a word: no shift of the
\* handlers is by the width of its type or more.
LEMMA ShiftIsPower ==
  ASSUME NEW v \in Int
  PROVE  2 ^ Shamt64(v) \in 1 .. U64 - 1 /\ 2 ^ Shamt32(v) \in 1 .. U64 - 1
<1>1. Shamt64(v) \in 0 .. XBITS - 1
  BY Sizes DEF Shamt64
<1>2. Shamt32(v) \in 0 .. XBITS - 1
  <2>1. XBITS \div 2 \in 1 .. XBITS - 1
    BY Sizes, WidthAssumption
  <2> QED
    BY <2>1, Sizes DEF Shamt32
<1> QED
  BY <1>1, <1>2, WidthAssumption

\* Division by a power of two, as the right shifts and the bytes of a store
\* use it, yields an integer.
LEMMA QuotientIsInt ==
  ASSUME NEW v \in Int, NEW d \in 1 .. U64 - 1 PROVE v \div d \in Int
BY Sizes

\* Every register instruction computes an integer from its two operands.
LEMMA AluIsInt ==
  ASSUME NEW op \in ComputeInsts, NEW a \in Word, NEW b \in Int
  PROVE  Alu(op, a, b) \in Int
<1> DEFINE p == 2 ^ Shamt64(b)
           q == 2 ^ Shamt32(b)
           w == Signed(a, U32)
           x == Signed(b, U32)
<1>1. a \in Int /\ Wrap(b) \in Word /\ Word \subseteq Int
  BY WrapIsWord, Sizes DEF Word
<1>2. p \in 1 .. U64 - 1 /\ q \in 1 .. U64 - 1 /\ p \in Int /\ q \in Int
  BY ShiftIsPower, Sizes
<1>3. w \in Int /\ x \in Int /\ Signed(a, U64) \in Int
  BY <1>1, SignedIsInt, Sizes
<1>4. Signed(w + x, U32) \in Int /\ Signed(w - x, U32) \in Int /\ Signed(w * q, U32) \in Int
  <2>1. w + x \in Int /\ w - x \in Int /\ w * q \in Int
    BY <1>2, <1>3
  <2> QED
    BY <2>1, SignedIsInt, Sizes
<1>5. a \div p \in Int /\ Signed(a, U64) \div p \in Int /\ w \div q \in Int
  BY <1>1, <1>2, <1>3, QuotientIsInt
<1>6. (a % U32) \div q \in Int
  <2>1. a % U32 \in Int
    BY <1>1, Sizes
  <2> QED
    BY <2>1, <1>2, QuotientIsInt
<1>7. BitAnd(a, Wrap(b)) \in Int /\ BitOr(a, Wrap(b)) \in Int /\ BitXor(a, Wrap(b)) \in Int
  BY <1>1, BitwiseAssumption
<1>8. b * 2 ^ UpperShift \in Int
  BY RegisterAssumption, WidthAssumption, Sizes
<1>9. a + b \in Int /\ a - b \in Int /\ a * p \in Int
  BY <1>1, <1>2
<1> HIDE DEF p, q, w, x
<1> QED
  BY <1>3, <1>4, <1>5, <1>6, <1>7, <1>8, <1>9
  DEF Alu, ComputeInsts, RRRInsts, RRIInsts, p, q, w, x

-----------------------------------------------------------------------------
\* registers_getreg, registers_getpc: what is read is a word.
LEMMA ReadsAreWords ==
  ASSUME RegistersTypeOK, NEW n \in Nat
  PROVE  GetReg(n) \in Word /\ GetPc \in Word /\ GetPc \in Nat
<1>1. GetReg(n) \in Word
  BY Sizes, RegisterAssumption DEF GetReg, RegistersTypeOK, Word
<1>2. GetPc \in Word
  BY Sizes DEF GetPc, RegistersTypeOK, Word
<1> QED
  BY <1>1, <1>2 DEF Word

\* registers_setreg, registers_setpc: whatever integer is passed, the
\* registers stay words and x0 stays zero.
LEMMA WritesKeepWords ==
  ASSUME RegistersTypeOK, NEW n \in Nat, NEW v \in Int
  PROVE  /\ SetReg(n, v) => regs' \in [0 .. NumRegs - 1 -> Word] /\ regs'[0] = 0
         /\ SetPc(v) => pc' \in Word
BY WrapIsWord, RegisterAssumption DEF SetReg, SetPc, RegistersTypeOK

\* The steps every handler ends with keep the type of what it hands back.
LEMMA Endings ==
  ASSUME RegistersTypeOK, cfg' = cfg
  PROVE  /\ \A x \in Exception : Raise(x) => RegistersTypeOK'
         /\ \A x \in {0, 1} : Leave(x) => RegistersTypeOK'
         /\ Advance => /\ pc' \in Word
                       /\ ret' = 0 /\ e' = e
<1>1. ASSUME NEW x \in Exception, Raise(x) PROVE RegistersTypeOK'
  <2>1. x # NoException
    BY DEF Exception, NoException
  <2>2. regs' = regs /\ pc' = pc /\ ret' = -1 /\ e' = x
    BY <1>1 DEF Raise
  <2> QED
    BY <2>1, <2>2 DEF RegistersTypeOK
<1>2. ASSUME NEW x \in {0, 1}, Leave(x) PROVE RegistersTypeOK'
  <2>1. regs' = regs /\ pc' = pc /\ ret' = x /\ e' = e
    BY <1>2 DEF Leave
  <2> QED
    BY <2>1 DEF RegistersTypeOK
<1>3. ASSUME Advance PROVE pc' \in Word /\ ret' = 0 /\ e' = e
  <2>1. GetPc + 4 \in Int
    BY Sizes DEF GetPc, RegistersTypeOK, Word
  <2>2. SetPc(GetPc + 4) /\ ret' = 0 /\ e' = e
    BY <1>3 DEF Advance
  <2>3. pc' \in Word
    BY <2>1, <2>2, WrapIsWord DEF SetPc
  <2> QED
    BY <2>2, <2>3
<1> QED
  BY <1>1, <1>2, <1>3

\* processor_emulate_regops keeps the type of the registers.
LEMMA RegOpsKeepsType ==
  ASSUME RegistersTypeOK, NEW i \in Instruction, RegOps(i)
  PROVE  RegistersTypeOK'
<1>0. cfg' = cfg
  BY DEF RegOps
<1>1. i.rd \in Nat /\ i.rs1 \in Nat /\ i.rs2 \in Nat /\ i.imm \in Int
  BY DEF Instruction
<1>2. CASE RegOpsCompute(i)
  <2>1. GetReg(i.rs1) \in Word /\ SecondOperand(i) \in Int
    BY <1>1, ReadsAreWords, Sizes DEF SecondOperand, Word
  <2>2. Alu(i.inst_no, GetReg(i.rs1), SecondOperand(i)) \in Int
    BY <1>2, <2>1, AluIsInt DEF RegOpsCompute
  <2>3. regs' \in [0 .. NumRegs - 1 -> Word] /\ regs'[0] = 0
    BY <1>1, <1>2, <2>2, WritesKeepWords DEF RegOpsCompute
  <2>4. pc' \in Word /\ ret' = 0 /\ e' = e
    BY <1>0, <1>2, Endings DEF RegOpsCompute
  <2> QED
    BY <1>0, <2>3, <2>4 DEF RegistersTypeOK
<1>3. CASE RegOpsPrintState(i)
  <2>1. GetPc + 4 \in Int
    BY ReadsAreWords, <1>1
  <2>2. pc' \in Word
    BY <1>3, <2>1, WrapIsWord DEF RegOpsPrintState, SetPc
  <2> QED
    BY <1>0, <1>3, <2>2 DEF RegOpsPrintState, RegistersTypeOK
<1>4. CASE RegOpsBadPc \/ RegOpsExit(i) \/ RegOpsUnknownSyscall(i) \/ RegOpsOther(i)
  BY <1>0, <1>4, Endings
  DEF RegOpsBadPc, RegOpsExit, RegOpsUnknownSyscall, RegOpsOther, Exception
<1> QED
  BY <1>2, <1>3, <1>4 DEF RegOps

\* A refused pc needs no instruction at all (registers.c:138-141).
LEMMA BadPcKeepsType ==
  ASSUME RegistersTypeOK, RegOpsBadPc, cfg' = cfg PROVE RegistersTypeOK'
BY Endings DEF RegOpsBadPc, Exception

\* processor_emulate_cntlflowops keeps the type of the registers.
LEMMA ControlFlowOpsKeepsType ==
  ASSUME RegistersTypeOK, NEW i \in Instruction, ControlFlowOps(i)
  PROVE  RegistersTypeOK'
<1>0. cfg' = cfg
  BY DEF ControlFlowOps
<1>1. /\ i.rd \in Nat /\ i.rs1 \in Nat /\ i.rs2 \in Nat /\ i.imm \in Int
      /\ GetPc \in Nat /\ GetReg(i.rs1) \in Int
  BY ReadsAreWords, Sizes DEF Instruction, Word
<1>2. GetPc + 4 \in Int /\ GetPc + i.imm \in Int
  BY <1>1
<1>3. CASE ControlOther(i)
  BY <1>0, <1>3, Endings DEF ControlOther
<1>4. CASE ControlSet(i)
  <2>1. PICK v \in {0, 1} : SetReg(i.rd, v)
    BY <1>4 DEF ControlSet
  <2>2. regs' \in [0 .. NumRegs - 1 -> Word] /\ regs'[0] = 0
    BY <1>1, <2>1, WritesKeepWords
  <2> QED
    BY <1>0, <1>4, <2>2, Endings DEF ControlSet, RegistersTypeOK
<1>5. CASE ControlBranch(i)
  <2>1. PICK v \in Int : SetPc(v)
    BY <1>2, <1>5 DEF ControlBranch
  <2>2. pc' \in Word
    BY <2>1, WrapIsWord DEF SetPc
  <2> QED
    BY <1>0, <1>5, <2>2 DEF ControlBranch, RegistersTypeOK
<1>6. CASE ControlJump(i)
  <2>1. JumpTarget(i) \in Int
    <3>1. Wrap(GetReg(i.rs1) + i.imm) \in Int
      BY <1>1, WrapIsWord, Sizes DEF Word
    <3> QED
      BY <1>2, <3>1 DEF JumpTarget
  <2>2. pc' \in Word
    BY <1>6, <2>1, WrapIsWord DEF ControlJump, SetPc
  <2>3. regs' \in [0 .. NumRegs - 1 -> Word] /\ regs'[0] = 0
    BY <1>1, <1>2, <1>6, WritesKeepWords DEF ControlJump
  <2> QED
    BY <1>0, <1>6, <2>2, <2>3 DEF ControlJump, RegistersTypeOK
<1>7. CASE ControlAuipc(i)
  <2>1. GetPc + i.imm * 2 ^ UpperShift \in Int
    BY <1>1, RegisterAssumption, WidthAssumption, Sizes
  <2>2. regs' \in [0 .. NumRegs - 1 -> Word] /\ regs'[0] = 0
    BY <1>1, <1>7, <2>1, WritesKeepWords DEF ControlAuipc
  <2> QED
    BY <1>0, <1>7, <2>2, Endings DEF ControlAuipc, RegistersTypeOK
<1> QED
  BY <1>3, <1>4, <1>5, <1>6, <1>7 DEF ControlFlowOps

-----------------------------------------------------------------------------
\* The effective address of a load or store is a word, and the cache files it
\* under a block number.
LEMMA AddressIsWord ==
  ASSUME RegistersTypeOK, NEW i \in Instruction
  PROVE  EffectiveAddr(i) \in Word /\ BlockOf(EffectiveAddr(i)) \in Nat
<1>1. GetReg(i.rs1) + i.imm \in Int
  BY ReadsAreWords, Sizes DEF Instruction, Word
<1>2. EffectiveAddr(i) \in Word
  BY <1>1, WrapIsWord DEF EffectiveAddr
<1>3. EffectiveAddr(i) \in Nat
  BY <1>2, Sizes DEF Word
<1>4. BlockOf(EffectiveAddr(i)) \in Nat
  BY <1>3, CacheAssumption DEF BlockOf
<1> QED
  BY <1>2, <1>4

\* The access sizes of the switch at the head of the handler.
LEMMA AccessSizes == \A op \in MemInsts : AccessSize(op) \in 1 .. 8
BY DEF MemInsts, StoreInsts, LoadInsts, AccessSize

\* An access the bounds check lets through lies in the RAM, first and last
\* byte, although both sums of the check may overflow (memory.c:145-170).
LEMMA AccessInRam ==
  ASSUME RegistersTypeOK, MemoryTypeOK, mem_ok,
         NEW addr \in Word, NEW n \in 1 .. 8, ValidAccess(addr, n)
  PROVE  RamIndex(addr) \in Nat /\ RamIndex(addr) + n <= size
<1> DEFINE lower == cfg.instr_upper
           bytes == cfg.memory_sz
<1>1. lower \in Nat /\ bytes \in Nat /\ size = bytes /\ addr \in Nat /\ U64 \in Nat
  BY Sizes DEF RegistersTypeOK, Configuration, MemoryTypeOK, Word
<1>2. addr + n < U64 /\ addr >= lower
  BY DEF ValidAccess, MinValidAddr
<1>3. addr + n <= lower + bytes
  <2>1. CASE lower + bytes >= U64
    BY <2>1, <1>1, <1>2
  <2>2. CASE ~(lower + bytes >= U64)
    BY <2>2 DEF ValidAccess, MaxValidAddr
  <2> QED
    BY <2>1, <2>2
<1> QED
  BY <1>1, <1>2, <1>3 DEF RamIndex, MinValidAddr

\* A load of bytes that are in the RAM reads an integer, however wide.
LEMMA LoadedIsInt ==
  ASSUME MemoryTypeOK, NEW op \in LoadInsts, NEW k \in Nat, size \in Nat,
         k + AccessSize(op) <= size
  PROVE  LoadedValue(op, k) \in Int
<1>1. \A j \in Nat : j < size => ram[j] \in Int
  BY Sizes DEF MemoryTypeOK
<1>2. ASSUME NEW j \in Nat, j + 2 <= size PROVE Read2(j) \in Int
  <2>1. ram[j] \in Int /\ ram[j + 1] \in Int
    BY <1>1, <1>2
  <2> QED
    BY <2>1, Sizes DEF Read2, Read1
<1>3. ASSUME NEW j \in Nat, j + 4 <= size PROVE Read4(j) \in Int
  <2>1. Read2(j) \in Int /\ Read2(j + 2) \in Int
    BY <1>2, <1>3
  <2> QED
    BY <2>1, Sizes DEF Read4
<1>4. ASSUME NEW j \in Nat, j + 8 <= size PROVE Read8(j) \in Int
  <2>1. Read4(j) \in Int /\ Read4(j + 4) \in Int
    BY <1>3, <1>4
  <2> QED
    BY <2>1, Sizes DEF Read8
<1>5. CASE op \in {"LB", "LBU"}
  <2>1. Read1(k) \in Int
    BY <1>1, <1>5 DEF Read1, AccessSize
  <2> QED
    BY <2>1, <1>5, SignedIsInt, Sizes DEF LoadedValue
<1>6. CASE op \in {"LH", "LHU"}
  <2>1. Read2(k) \in Int
    BY <1>2, <1>6 DEF AccessSize
  <2> QED
    BY <2>1, <1>6, SignedIsInt, Sizes DEF LoadedValue
<1>7. CASE op \in {"LW", "LWU"}
  <2>1. Read4(k) \in Int
    BY <1>3, <1>7 DEF AccessSize
  <2> QED
    BY <2>1, <1>7, SignedIsInt, Sizes DEF LoadedValue
<1>8. CASE op = "LD"
  <2>1. Read8(k) \in Int
    BY <1>4, <1>8 DEF AccessSize
  <2> QED
    BY <2>1, <1>8 DEF LoadedValue
<1> QED
  BY <1>5, <1>6, <1>7, <1>8 DEF LoadInsts

\* A store writes bytes, and only bytes the RAM has.
LEMMA WrittenIsRam ==
  ASSUME MemoryTypeOK, NEW op \in StoreInsts, NEW k \in Nat, NEW v \in Int
  PROVE  Written(op, k, v) \in [0 .. size - 1 -> 0 .. U8 - 1]
<1>1. AccessSize(op) \in 1 .. 8
  BY AccessSizes DEF MemInsts
<1>2. ASSUME NEW j \in Int, j \in k .. k + AccessSize(op) - 1
      PROVE  ByteOf(v, j - k) \in 0 .. U8 - 1
  <2>1. j - k \in 0 .. 7
    BY <1>1, <1>2
  <2>2. U8 ^ (j - k) \in 1 .. U64 - 1
    BY <2>1, WidthAssumption
  <2>3. v \div U8 ^ (j - k) \in Int
    BY <2>2, QuotientIsInt
  <2> QED
    BY <2>3, Sizes DEF ByteOf
<1>3. DOMAIN ram = 0 .. size - 1 /\ \A j \in DOMAIN ram : ram[j] \in 0 .. U8 - 1
  BY DEF MemoryTypeOK
<1>4. DOMAIN ram \subseteq Int
  BY <1>3 DEF MemoryTypeOK
<1> QED
  BY <1>2, <1>3, <1>4 DEF Written

-----------------------------------------------------------------------------
\* processor_emulate_memops keeps the types of the registers and of the RAM
\* and the invariant of the cache, whichever of its returns it takes.
LEMMA MemOpsKeepsType ==
  ASSUME RegistersTypeOK, MemoryTypeOK, CacheInv,
         NEW i \in Instruction, MemOps(i)
  PROVE  RegistersTypeOK' /\ MemoryTypeOK' /\ CacheInv'
<1>0. cfg' = cfg /\ mem_ok' = mem_ok /\ size' = size
  BY DEF MemOps
<1>1. /\ i.rd \in Nat
      /\ EffectiveAddr(i) \in Word
      /\ BlockOf(EffectiveAddr(i)) \in Nat
      /\ GetReg(i.rd) \in Int
  BY AddressIsWord, ReadsAreWords, Sizes DEF Instruction, Word
<1>2. ASSUME UNCHANGED cacheVars PROVE CacheInv'
  BY <1>2 DEF CacheInv, cacheVars, CacheTypeOK, TagsInOwnSet, SetOf
<1>3. ASSUME ram' = ram PROVE MemoryTypeOK'
  BY <1>0, <1>3 DEF MemoryTypeOK
<1>4. CASE MemOpsNoMemory \/ MemOpsOther(i) \/ MemOpsRefused(i)
  <2>1. RegistersTypeOK'
    BY <1>0, <1>4, Endings DEF MemOpsNoMemory, MemOpsOther, MemOpsRefused, Exception
  <2> QED
    BY <2>1, <1>2, <1>3, <1>4 DEF MemOpsNoMemory, MemOpsOther, MemOpsRefused
<1>5. ASSUME MemOpsAllowed(i), i.inst_no \in MemInsts
      PROVE  /\ CacheInv'
             /\ size \in Nat
             /\ RamIndex(EffectiveAddr(i)) \in Nat
             /\ RamIndex(EffectiveAddr(i)) + AccessSize(i.inst_no) <= size
  <2>1. CacheInv'
    BY <1>1, <1>5, AccessKeepsInv DEF MemOpsAllowed
  <2>2. AccessSize(i.inst_no) \in 1 .. 8
    BY <1>5, AccessSizes
  <2>3. mem_ok /\ ValidAccess(EffectiveAddr(i), AccessSize(i.inst_no))
    BY <1>5 DEF MemOpsAllowed
  <2>4. size \in Nat
    BY <2>3, Sizes DEF MemoryTypeOK, RegistersTypeOK, Configuration, Word
  <2> QED
    BY <2>1, <2>2, <2>3, <2>4, <1>1, AccessInRam
<1>6. CASE MemOpsStore(i)
  <2>1. /\ i.inst_no \in StoreInsts /\ MemOpsAllowed(i) /\ Advance
        /\ ram' = Written(i.inst_no, RamIndex(EffectiveAddr(i)), GetReg(i.rd))
        /\ regs' = regs
    BY <1>6 DEF MemOpsStore
  <2>2. CacheInv' /\ RamIndex(EffectiveAddr(i)) \in Nat
    BY <1>5, <2>1 DEF MemInsts
  <2>3. MemoryTypeOK'
    BY <1>0, <1>1, <2>1, <2>2, WrittenIsRam DEF MemoryTypeOK
  <2>4. RegistersTypeOK'
    BY <1>0, <2>1, Endings DEF RegistersTypeOK
  <2> QED
    BY <2>2, <2>3, <2>4
<1>7. CASE MemOpsLoad(i)
  <2>1. /\ i.inst_no \in LoadInsts /\ MemOpsAllowed(i) /\ Advance
        /\ SetReg(i.rd, LoadedValue(i.inst_no, RamIndex(EffectiveAddr(i))))
        /\ ram' = ram
    BY <1>7 DEF MemOpsLoad
  <2>2. /\ CacheInv' /\ size \in Nat
        /\ RamIndex(EffectiveAddr(i)) \in Nat
        /\ RamIndex(EffectiveAddr(i)) + AccessSize(i.inst_no) <= size
    BY <1>5, <2>1 DEF MemInsts
  <2>3. LoadedValue(i.inst_no, RamIndex(EffectiveAddr(i))) \in Int
    BY <2>1, <2>2, LoadedIsInt
  <2>4. RegistersTypeOK'
    BY <1>0, <1>1, <2>1, <2>3, WritesKeepWords, Endings DEF RegistersTypeOK
  <2> QED
    BY <1>3, <2>1, <2>2, <2>4
<1> QED
  BY <1>4, <1>6, <1>7 DEF MemOps
=============================================================================

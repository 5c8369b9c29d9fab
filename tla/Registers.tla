------------------------------ MODULE Registers ------------------------------
(***************************************************************************)
(* registers.c: the register file, the program counter and the handler of  *)
(* the instructions that only touch registers, processor_emulate_regops.   *)
(*                                                                         *)
(* The three handlers share the variables of this module: the processor's  *)
(* configuration, the registers, and what a handler hands back to the loop *)
(* (its return value and, through the pointer it is given, an exception).  *)
(***************************************************************************)
EXTENDS Instructions

CONSTANTS
  NumRegs,      \* number of registers (32)
  SyscallReg,   \* the register holding the system call number (17)
  UpperShift    \* shift of an upper immediate (12)

ASSUME RegisterAssumption ==
  /\ NumRegs \in Nat \ {0}
  /\ SyscallReg \in 0 .. NumRegs - 1
  /\ UpperShift \in 0 .. XBITS - 1

VARIABLES
  cfg,    \* struct configuration: the header and the print flags
  regs,   \* rs->regs
  pc,     \* rs->pc, a 64-bit word
  ret,    \* return value of the last handler called
  e       \* the loop's enum exception e, written by the handlers

SyscallPrint == 23
LinuxExit    == 93   \* bug: the number of another ABI
SyscallExit  == 2

\* registers_getreg, registers_setreg, registers_getpc, registers_setpc.  The
\* value is converted to the 64-bit parameter; registers_getpc returns an
\* unsigned int.
SetRegOrZero(n, v) == regs' = [regs EXCEPT ![n] = Wrap(v)]   \* bug: x0 is written
GetReg(n) == IF n < NumRegs THEN regs[n] ELSE 0
SetReg(n, v) == regs' = IF n \in 1 .. NumRegs - 1
                        THEN [regs EXCEPT ![n] = Wrap(v)] ELSE regs
GetPc    == pc % U32
SetPc(v) == pc' = Wrap(v)

RegistersInit(entry) ==
  /\ regs = [n \in 0 .. NumRegs - 1 |-> 0]
  /\ pc = entry

\* A handler that executed its instruction, left it to another handler, or
\* refuses it with an exception.
Raise(exception) == ret' = -1 /\ e' = exception /\ UNCHANGED <<regs, pc>>
Leave(value)     == ret' = value /\ UNCHANGED <<regs, pc, e>>
AdvanceHalf      == ret' = 0 /\ SetPc(GetPc + 2) /\ UNCHANGED e   \* bug: as if compressed
Advance          == ret' = 0 /\ SetPc(GetPc + 4) /\ UNCHANGED e

-----------------------------------------------------------------------------
\* The result of a register instruction on a first operand a, a u64_t, and a
\* second operand b, a u64_t or a long; registers_setreg converts it.
Alu(op, a, b) ==
  CASE op \in {"ADD", "ADDI"}     -> a + b
    [] op = "SUB"                 -> a - b
    [] op \in {"OR", "ORI"}       -> BitOr(a, Wrap(b))
    [] op \in {"AND", "ANDI"}     -> BitAnd(a, Wrap(b))
    [] op \in {"XOR", "XORI"}     -> BitXor(a, Wrap(b))
    [] op \in {"SLL", "SLLI"}     -> a * 2 ^ Shamt64(b)
    [] op \in {"SRL", "SRLI"}     -> a \div 2 ^ Shamt64(b)
    [] op \in {"SRA", "SRAI"}     -> Signed(a, U64) \div 2 ^ Shamt64(b)
    [] op \in {"ADDW", "ADDIW"}   -> Signed(Signed(a, U32) + Signed(b, U32), U32)
    [] op = "SUBW"                -> Signed(Signed(a, U32) - Signed(b, U32), U32)
    [] op \in {"SLLW", "SLLIW"}   -> Signed(Signed(a, U32) * 2 ^ Shamt32(b), U32)
    [] op \in {"SRLW", "SRLIW"}   -> (a % U32) \div 2 ^ Shamt32(b)
    [] op \in {"SRAW", "SRAIW"}   -> Signed(a, U32) \div 2 ^ Shamt32(b)
    [] op = "LUI"                 -> b * 2 ^ UpperShift

SecondOperand(i) == IF i.inst_no \in RRRInsts THEN GetReg(i.rs2) ELSE i.imm

PcInClosedRange == cfg.instr_lower <= GetPc /\ GetPc <= cfg.instr_upper   \* bug
PcInRange == cfg.instr_lower <= GetPc /\ GetPc < cfg.instr_upper

\* Bug: a pc outside the program is raised as an unknown system call.
RegOpsBadPcAsSyscall == ~PcInRange /\ Raise("UNKNOWN_SYSCALL")
RegOpsBadPc == ~PcInRange /\ Raise("INSTRUCTION")

RegOpsCompute(i) ==
  /\ PcInRange
  /\ i.inst_no \in ComputeInsts
  /\ SetReg(i.rd, Alu(i.inst_no, GetReg(i.rs1), SecondOperand(i)))
  /\ Advance

\* System call 23 prints every register and goes on; it returns 1.
RegOpsPrintState(i) ==
  /\ PcInRange
  /\ i.inst_no = "ECALL" /\ GetReg(SyscallReg) = SyscallPrint
  /\ SetPc(GetPc + 4)
  /\ ret' = 1
  /\ UNCHANGED <<regs, e>>

RegOpsExit(i) ==
  /\ PcInRange
  /\ i.inst_no = "ECALL" /\ GetReg(SyscallReg) = SyscallExit
  /\ Raise("EXIT")

RegOpsUnknownSyscall(i) ==
  /\ PcInRange
  /\ i.inst_no = "ECALL" /\ GetReg(SyscallReg) \notin {SyscallPrint, SyscallExit}
  /\ Raise("UNKNOWN_SYSCALL")

RegOpsOther(i) ==
  /\ PcInRange
  /\ i.inst_no \notin ComputeInsts \cup {"ECALL"}
  /\ Leave(1)

\* processor_emulate_regops(p, i, &e)
RegOps(i) ==
  /\ \/ RegOpsBadPc
     \/ RegOpsCompute(i)
     \/ RegOpsPrintState(i)
     \/ RegOpsExit(i)
     \/ RegOpsUnknownSyscall(i)
     \/ RegOpsOther(i)
  /\ UNCHANGED cfg

-----------------------------------------------------------------------------
\* Registers and pc are words whatever the instructions compute, x0 is zero
\* whichever handler writes it, and a handler that returns -1 has said why.
RegistersTypeOK ==
  /\ cfg \in Configuration
  /\ regs \in [0 .. NumRegs - 1 -> Word] /\ regs[0] = 0
  /\ pc \in Word
  /\ ret \in {-1, 0, 1}
  /\ e \in Exception \cup {NoException}
  /\ ret = -1 => e # NoException
=============================================================================

----------------------- MODULE ProcessorImplementsISA -----------------------
(***************************************************************************)
(* The loop of processor_emulate as an implementation of the ISA.  The     *)
(* registers and the pc are the ISA's own; a byte of memory is the byte of *)
(* the RAM behind its address, which starts where the instructions end;    *)
(* the ISA halts when a handler raises the exception.                      *)
(***************************************************************************)
EXTENDS Processor

Bytes == [a \in cfg.instr_upper .. cfg.instr_upper + size - 1 |-> ram[a - cfg.instr_upper]]
Cause == IF stage \in {"report", "stopped"} THEN e ELSE NoException

Machine == INSTANCE ISA WITH
  mem      <- Bytes,
  present  <- mem_ok,
  cached   <- cache_ok,
  accesses <- num_cache_accesses,
  cause    <- Cause

\* Each instruction takes effect exactly once, in one handler, and completely:
\* no handler adds to or repeats what another has done, the pc moves once, an
\* exception leaves registers, pc, memory and cache counters as the
\* instructions before it left them, and the result is the one RV64I gives
\* (processor_emulate and the three handlers together).
ImplementsISA == Machine!Spec

-----------------------------------------------------------------------------
\* Where the emulator and RV64I are known to agree; each conjunct excludes one
\* of the differences.
\*
\* The right shifts of the upper half of a word leave its sign bit where it
\* becomes the sign of an int only when they shift by nothing, and the emulator
\* then forgets to extend it (registers.c:256-267).
KeepsSign(op, a, b) == op \in {"SRLW", "SRLIW"} => 2 * (a % U32) < U32 \/ Shamt32(b) # 0

\* Every instruction has an encoding.
ProgramConforms ==
  \A k \in DOMAIN instructions : Encodable(instructions[k], NumRegs, UpperShift)

\* The memory ends below the last address, where the bounds check saturates.
HeaderConforms == cfg.instr_upper + cfg.memory_sz < U64

\* The pc fits the unsigned int it is read as, and is not between instructions.
PcConforms == pc < U32 /\ (PcInRange => (pc - cfg.instr_lower) % 4 = 0)

ShiftConforms ==
  stage = "regops" /\ PcInRange /\ InArray =>
    KeepsSign(Inst.inst_no, GetReg(Inst.rs1), SecondOperand(Inst))

Conforms == ProgramConforms /\ HeaderConforms /\ PcConforms /\ ShiftConforms

\* Inputs that conform whatever they compute.
StaticallyConforms == StaticInput(cfg, instructions, NumRegs, UpperShift)

\* On these the loop keeps what its headers say of the pc, which it does not in
\* general: the pc that is tested is the pc, and the instruction that is executed
\* is the one at that address, whichever handlers the instructions before it
\* went through (registers.h:57-63, processor.h:101 and processor.c:21-25).
ConformingPcIsKept ==
  StaticallyConforms => RangeCheckSeesThePc /\ ExecutesTheInstructionAtPc
=============================================================================

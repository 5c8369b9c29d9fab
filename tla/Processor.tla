------------------------------ MODULE Processor ------------------------------
(***************************************************************************)
(* processor.c: the loop of processor_emulate over the three handlers, and *)
(* the printing functions of utilities.c that keep state or report.        *)
(*                                                                         *)
(* One pass of the loop is a run of actions, one per call the loop makes:  *)
(* Fetch, then the handlers in order until one refuses the instruction,    *)
(* then either the report of the exception and the end, or the printing of *)
(* the state and the next pass.                                            *)
(***************************************************************************)
EXTENDS Memory, ControlFlow, Conformance, Sequences

CONSTANTS
  Inputs,       \* what main has parsed: a configuration and a program
  HostMemory    \* outcomes of memory_alloc: a subset of BOOLEAN

ASSUME InputAssumption ==
  /\ \A input \in Inputs :
       input.cfg \in Configuration /\ input.program \in Seq(Instruction)
  /\ HostMemory \subseteq BOOLEAN

VARIABLES
  instructions,   \* p->instrs: num_instructions is the length
  stage,          \* where the loop is
  offset,         \* index of the instruction this pass executes
  reports,        \* exceptions printed so far, oldest first
  prev_rs         \* the static prev_rs of processor_registers_print

processorVars ==
  <<cfg, regs, pc, ret, e, memVars, cacheVars,
    instructions, stage, offset, reports, prev_rs>>

Stages == {"fetch", "regops", "memops", "cntlflowops", "print",
           "report", "stopped", "undefined"}

\* main: the processor is built from the parsed program and its header.  The
\* loop's e is uninitialised until a handler writes it.
Init ==
  /\ \E input \in Inputs : cfg = input.cfg /\ instructions = input.program
  /\ RegistersInit(cfg.entry_address)
  /\ \E ok \in HostMemory : MemoryInit(cfg.memory_sz, ok)
  /\ CacheInit(cfg.cache_sets, TRUE)
  /\ ret = 0 /\ e = NoException
  /\ stage = "fetch" /\ offset = 0 /\ reports = <<>>
  /\ prev_rs = [n \in 0 .. NumRegs - 1 |-> 0]

Inst == instructions[offset + 1]
InArray == offset < Len(instructions)

\* A pc outside the program is reported but the pass goes on.  The pointer to
\* the instruction is then outside the array; printing through it may print
\* anything, call exit or crash.
Fetch ==
  /\ stage = "fetch"
  /\ reports' = IF PcInRange THEN reports ELSE Append(reports, "INSTRUCTION")
  /\ offset' = Wrap(GetPc - cfg.instr_lower) \div 4
  /\ stage' \in {"regops"} \cup
       IF cfg.print_instrs /\ offset' >= Len(instructions)
       THEN {"undefined"} ELSE {}
  /\ UNCHANGED <<cfg, regs, pc, ret, e, memVars, cacheVars, instructions, prev_rs>>

\* A header that spans more than the program it heads lets the register
\* handler decode whatever follows the array.
DecodeBeyondArray ==
  /\ stage = "regops"
  /\ PcInRange /\ ~InArray
  /\ stage' = "undefined"
  /\ UNCHANGED <<cfg, regs, pc, ret, e, memVars, cacheVars,
                 instructions, offset, reports, prev_rs>>

\* Each handler is called only if the one before it did not return -1.
After(next) == stage' = IF ret' < 0 THEN "report" ELSE next

CallRegOps ==
  /\ stage = "regops"
  /\ PcInRange => InArray
  /\ RegOps(Inst)
  /\ After("memops")
  /\ UNCHANGED <<memVars, cacheVars, instructions, offset, reports, prev_rs>>

CallMemOps ==
  /\ stage = "memops"
  /\ MemOps(Inst)
  /\ After("cntlflowops")
  /\ UNCHANGED <<instructions, offset, reports, prev_rs>>

CallControlFlowOps ==
  /\ stage = "cntlflowops"
  /\ ControlFlowOps(Inst)
  /\ After("print")
  /\ UNCHANGED <<memVars, cacheVars, instructions, offset, reports, prev_rs>>

\* processor_print_exception, after which processor_emulate returns.
Report ==
  /\ stage = "report"
  /\ reports' = Append(reports, e)
  /\ stage' = "stopped"
  /\ UNCHANGED <<cfg, regs, pc, ret, e, memVars, cacheVars,
                 instructions, offset, prev_rs>>

\* processor_registers_print shows the lowest-numbered register that differs
\* from the copy it keeps, updates that one entry of the copy, and returns.
ChangedButLast == {n \in 0 .. NumRegs - 2 : regs[n] # prev_rs[n]}   \* bug: i < 31
Changed == {n \in 0 .. NumRegs - 1 : regs[n] # prev_rs[n]}
RegistersPrint ==
  prev_rs' = [n \in 0 .. NumRegs - 1 |->
                IF n \in Changed /\ \A m \in Changed : n <= m
                THEN regs[n] ELSE prev_rs[n]]

PrintState ==
  /\ stage = "print"
  /\ IF cfg.print_regs THEN RegistersPrint ELSE prev_rs' = prev_rs
  /\ stage' = "fetch"
  /\ UNCHANGED <<cfg, regs, pc, ret, e, memVars, cacheVars,
                 instructions, offset, reports>>

Next ==
  \/ Fetch
  \/ DecodeBeyondArray
  \/ CallRegOps
  \/ CallMemOps
  \/ CallControlFlowOps
  \/ Report
  \/ PrintState

Spec     == Init /\ [][Next]_processorVars
FairSpec == Spec /\ WF_processorVars(Next)

-----------------------------------------------------------------------------
\* Every variable keeps the type of its C counterpart: registers and the pc
\* are 64-bit words whatever the instructions compute, x0 is zero whichever
\* handler writes it, and an exception is reported only if some handler has
\* written e, so that the loop never prints its uninitialised local.
TypeOK ==
  /\ RegistersTypeOK
  /\ MemoryTypeOK
  /\ CacheTypeOK
  /\ instructions \in Seq(Instruction)
  /\ stage \in Stages
  /\ stage = "report" => ret = -1
  /\ offset \in Nat
  /\ reports \in Seq(Exception)
  /\ prev_rs \in [0 .. NumRegs - 1 -> Word]

\* The header announces no more instructions than the program has.
HonestHeader == Honest(cfg, instructions)

\* With an honest header no handler is ever given anything but an instruction
\* of the program: although the loop goes on after reporting a pc outside the
\* program, and computes a pointer from it, the register handler repeats the
\* test before it looks (processor.c:21-25, registers.c:138-141).
DecodesOnlyTheProgram ==
  /\ HonestHeader /\ stage = "regops" /\ PcInRange => InArray
  /\ stage \in {"memops", "cntlflowops", "print"} => InArray

\* The assertion after the bounds check and the pointer arithmetic below it:
\* whatever base, offset and header a program comes with, sums that overflow
\* included, the bytes of an access the check lets through lie in the
\* allocated RAM (memory.c:144-170, ram_index and mem_ptr).
AcceptedAccessStaysInRam ==
  stage = "memops" /\ Inst.inst_no \in MemInsts /\ mem_ok /\ size > 0 =>
    LET n == AccessSize(Inst.inst_no)
        k == RamIndex(EffectiveAddr(Inst))
    IN ValidAccess(EffectiveAddr(Inst), n) => k .. k + n - 1 \subseteq DOMAIN ram

\* What processor_registers_print remembers is the register file of the last
\* pass: although it stops at the first register that changed, no change is
\* ever left out or shown a pass late, because no pass changes two registers
\* whichever handlers it goes through (utilities.c:310-322).
PrintShowsEveryChange ==
  cfg.print_regs /\ stage = "fetch" => prev_rs = regs

\* processor.h:57-61: when an exception is thrown, the emulator prints out an
\* error and exits the program.
OneReportPerException == Len(reports) <= 1

\* What is reported is the exception that ended the run, once, or twice if the pc
\* had left the program: the loop and the register handler both test the pc, and
\* nothing comes between them (processor.c:21-30, registers.c:138-141).
ReportsTheException ==
  stage = "stopped" =>
    \/ reports = <<e>>
    \/ e = "INSTRUCTION" /\ ~PcInRange /\ reports = <<e, e>>

\* registers.h:61-62 promises that registers_getpc will simply return the
\* program counter, so the range check made with its result decides about the
\* pc itself: what it accepts is an address of the program.
RangeCheckSeesThePc ==
  PcInRange => cfg.instr_lower <= pc /\ pc < cfg.instr_upper

\* instructions.h:119 gives every instruction an address, and processor.h:101
\* speaks of "the instruction at the pc": what a handler is given for a pc is
\* the instruction with that address.
ExecutesTheInstructionAtPc ==
  stage = "regops" /\ PcInRange => cfg.instr_lower + 4 * offset = GetPc

\* Every branch and jump of the program goes forward, by whole instructions
\* and to addresses an unsigned int can hold.
ForwardOnly ==
  \A k \in DOMAIN instructions :
    LET i == instructions[k] IN
    /\ i.inst_no # "JALR"
    /\ i.inst_no \in BranchInsts \cup {"JAL"} =>
         i.imm > 0 /\ cfg.instr_upper + i.imm < U32
    /\ cfg.instr_upper + 4 < U32

\* A program without backward transfers ends: each pass moves the pc on until
\* an exit, an exception or the end of the program stops the loop
\* (processor_emulate's while (1) has no other way out).
ForwardProgramsStop == ForwardOnly ~> stage \in {"stopped", "undefined"}

\* The instruction of this pass has not been executed.
Pending ==
  \/ stage = "regops"
  \/ stage = "memops" /\ Inst.inst_no \in MemInsts \cup ControlInsts
  \/ stage = "cntlflowops" /\ Inst.inst_no \in ControlInsts

\* How far a forward program is from its end: the addresses ahead of the pc,
\* and the calls up to the next one that moves it.
CallsFrom(s, pending) ==
  CASE s \in {"stopped", "undefined"} -> 0
    [] s = "report"      -> 1
    [] s = "cntlflowops" -> IF pending THEN 2 ELSE 7
    [] s = "memops"      -> IF pending THEN 3 ELSE 8
    [] s = "regops"      -> 4
    [] s = "fetch"       -> 5
    [] s = "print"       -> 6
StepsLeft == 9 * (U32 - GetPc) + CallsFrom(stage, Pending)

\* Each call brings such a program closer to its end, whichever handlers it goes
\* through and whatever they compute: every pass either raises an exception or
\* moves the pc on, by exactly one of the handlers.
EveryCallCounts == [][ForwardOnly => StepsLeft' \in 0 .. StepsLeft - 1]_processorVars
=============================================================================

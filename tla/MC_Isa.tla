------------------------------- MODULE MC_Isa -------------------------------
(***************************************************************************)
(* Programs that put every instruction through the loop on corner operands *)
(* and end in a system call, for the comparison with the ISA.  Bytes have  *)
(* two bits, words 16, an int 8: byte, halfword, word and doubleword keep  *)
(* their proportions.  Left out are the operands on which the emulator is  *)
(* known to differ from RV64I (a negative upper immediate, SRLW and SRLIW  *)
(* of a negative int by nothing): the run upper_immediate shows those.     *)
(***************************************************************************)
EXTENDS ProcessorImplementsISA, Bitwise

MCAnd(a, b) == a & b
MCOr(a, b)  == a | b
MCXor(a, b) == a ^^ b

\* Zero, shift amounts around both widths, and both sides of every sign bit.
Corners == {0, 1, 7, 8, 17, 127, 128, 255, -1, -128, -32768, 32767}

Run(program, memory_sz) ==
  [cfg |-> [instr_lower |-> 0, instr_upper |-> 4 * Len(program), entry_address |-> 0,
            memory_sz |-> memory_sz, cache_sets |-> 2,
            print_instrs |-> FALSE, print_regs |-> TRUE],
   program |-> program]

Set1(v) == RRI("ADDI", 1, 0, v)
Set2(v) == RRI("ADDI", 2, 0, v)

SignLost(op, a, b) == op \in {"SRLW", "SRLIW"} /\ a % U32 >= 128 /\ b % 8 = 0

\* The destination is a fresh register, one of the operands, or x0.
OnRegisters ==
  {Run(<<Set1(a), Set2(b), RRR(op, d, 1, 2), Ecall>>, 0) :
     <<op, d, a, b>> \in {t \in (RRRInsts \cup {"SLT", "SLTU"}) \X {0, 2, 3} \X Corners \X Corners :
                            /\ ~SignLost(t[1], t[3], t[4])
                            /\ t[2] = 3 \/ t[3] = 127}}

OnImmediates ==
  {Run(<<Set1(a), RRI(op, 3, 1, b), Ecall>>, 0) :
     <<op, a, b>> \in {t \in (RRIInsts \cup {"SLTI", "SLTIU"}) \X Corners \X Corners :
                         ~SignLost(t[1], t[2], t[3])}}

Uppers == {Run(<<Set1(1), RI(op, 2, n), Ecall>>, 0) :
             <<op, n>> \in {"LUI", "AUIPC"} \X {0, 1, 7}}

Branches ==
  {Run(<<Set1(a), Set2(b), RRI(op, 1, 2, 8), Ecall, Set1(5), Ecall>>, 0) :
     <<op, a, b>> \in BranchInsts \X Corners \X Corners}

\* A call and a return through the register that is linked again, a jump to an
\* odd address, a counted loop, a jump out of the program, the end without a
\* system call, and the three kinds of system call.
Jumps ==
  {Run(p, 0) : p \in
    {<<RI("JAL", 1, 8), Ecall, ROR("JALR", 1, 0, 1)>>,
     <<Set1(9), ROR("JALR", 0, 0, 1), Ecall>>,
     <<Set1(3), RRI("ADDI", 1, 1, -1), RRI("BNE", 1, 0, -4)>>,
     <<RI("JAL", 2, 100), Ecall>>,
     <<Set1(1)>>,
     <<RRI("ADDI", 3, 0, 23), Ecall, RRI("ADDI", 3, 0, 2), Ecall>>,
     <<RRI("ADDI", 3, 0, 1), Ecall>>}}

\* Ten bytes of memory from address 24: a store that overlaps an earlier one
\* and a load that overlaps both, across every edge.
Memories ==
  {Run(<<Set1(v), ROR("SD", 1, 24, 0), Set2(6939), ROR(st, 2, o, 0), ROR(ld, 3, p, 0), Ecall>>, 10) :
     <<v, st, o, ld, p>> \in {12345, -12346} \X StoreInsts \X {23, 24, 25, 28, 31, 33}
                              \X LoadInsts \X {23, 24, 26, 27, 30, 33}}

MCInputs == OnRegisters \cup OnImmediates \cup Uppers \cup Branches \cup Jumps \cup Memories

\* The operands left out above: their results should be negative ints.
LostSigns ==
  {Run(p, 0) : p \in
    {<<RI("LUI", 1, 8), Ecall>>,
     <<Set1(1), RI("AUIPC", 2, 8), Ecall>>,
     <<Set1(-1), RRI("SRLIW", 2, 1, 0), Ecall>>}}

MCHostMemory == BOOLEAN
=============================================================================

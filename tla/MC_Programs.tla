----------------------------- MODULE MC_Programs -----------------------------
(***************************************************************************)
(* Every program of at most three instructions over a palette chosen for   *)
(* what it does to the loop: loops, exits, unknown and printing system     *)
(* calls, falling off the end, computed jumps to nowhere, accesses inside  *)
(* and outside the memory.  Bytes have two bits, so a word has 16 and an   *)
(* unsigned int 8: a pc is below 256.                                      *)
(***************************************************************************)
EXTENDS Processor, Bitwise

MCAnd(a, b) == a & b
MCOr(a, b)  == a | b
MCXor(a, b) == a ^^ b

Palette ==
  {RRI("ADDI", 3, 0, 2), RRI("ADDI", 3, 0, 23), RRI("ADDI", 1, 3, -1), Ecall,
   RRI("BNE", 3, 0, 8), RRI("BEQ", 1, 0, -4), RRI("BGE", 3, 2, 8),
   RI("JAL", 1, 4), RI("JAL", 0, -4), ROR("JALR", 1, 1, 3),
   ROR("SH", 3, 13, 0), ROR("SH", 1, -3, 0), ROR("LD", 1, 12, 0), ROR("LBU", 0, 13, 0),
   ROR("LB", 2, 11, 1),
   RRI("SLTIU", 2, 3, -1), RRR("SUB", 2, 0, 3)}

MCPrograms == UNION {[1 .. n -> Palette] : n \in 1 .. 3}

Header(lower, upper, memory_sz, sets) ==
  [instr_lower |-> lower, instr_upper |-> upper, entry_address |-> lower,
   memory_sz |-> memory_sz, cache_sets |-> sets,
   print_instrs |-> TRUE, print_regs |-> TRUE]

\* An ordinary header, one without memory, cache or tracing, one whose program
\* does not start at 0, and one whose memory runs over the end of the
\* addresses.
MCConfigurations ==
  {Header(0, 12, 8, 1),
   [Header(0, 12, 0, 0) EXCEPT !.print_instrs = FALSE, !.print_regs = FALSE],
   Header(4, 8, 9, 2),
   Header(0, 65530, 16, 1)}

MCInputs == [cfg : MCConfigurations, program : MCPrograms]
MCHostMemory == BOOLEAN

\* A jump to the middle of an instruction.
BetweenInstructions ==
  {[cfg |-> Header(0, 8, 8, 1), program |-> <<ROR("JALR", 1, 2, 0), Ecall>>]}

\* A jump to an address one past the largest unsigned int.
BeyondInt ==
  {[cfg |-> Header(0, 8, 8, 1),
    program |-> <<RRI("ADDI", 1, 0, 256), ROR("JALR", 0, 0, 1)>>]}
=============================================================================

----------------------------- MODULE Conformance -----------------------------
(***************************************************************************)
(* What main may give the emulator, as predicates of a configuration and a *)
(* program.  The emulator is known to do right by an input of this kind,   *)
(* and the converter to produce one from a binary of this kind; the module *)
(* is what the two sides share.                                            *)
(***************************************************************************)
EXTENDS Instructions, Sequences

\* The header announces no more instructions than the program has.
Honest(c, prog) == c.instr_upper <= c.instr_lower + 4 * Len(prog)

\* An upper immediate is an int; the parser's long is shifted without the sign
\* of the int being extended (registers.c:279, control_flow.c:163).
UpperFits(imm, shift) ==
  -(U32 \div 2) <= imm * 2 ^ shift /\ imm * 2 ^ shift < U32 \div 2

\* An instruction that has an encoding: its registers exist and its upper
\* immediate fits.
Encodable(i, registers, shift) ==
  /\ i.rd < registers /\ i.rs1 < registers /\ i.rs2 < registers
  /\ i.inst_no \in {"LUI", "AUIPC"} => UpperFits(i.imm, shift)

\* An instruction whose text tells where it goes and by how much it shifts.
Static(i) ==
  /\ i.inst_no \notin {"JALR", "SRLW"}
  /\ i.inst_no = "SRLIW" => Shamt32(i.imm) # 0

\* An input on which the emulator and RV64I agree whatever it computes: the
\* memory ends below the last address, transfers are by whole instructions to
\* addresses an unsigned int can hold, none is computed, and no SRLW decides at
\* run time by how much it shifts.
StaticInput(c, prog, registers, shift) ==
  /\ c.instr_upper + c.memory_sz < U64
  /\ c.instr_upper + 4 <= U32
  /\ c.entry_address < U32 /\ (c.entry_address - c.instr_lower) % 4 = 0
  /\ \A k \in DOMAIN prog :
       /\ Encodable(prog[k], registers, shift)
       /\ Static(prog[k])
       /\ prog[k].inst_no \in BranchInsts \cup {"JAL"} =>
            /\ prog[k].imm % 4 = 0
            /\ c.instr_lower + 4 * (k - 1) + prog[k].imm \in 0 .. U32 - 1
=============================================================================

---------------------------- MODULE Instructions ----------------------------
(***************************************************************************)
(* The decoded program: instructions.h and the imeta table of utilities.c. *)
(*                                                                         *)
(* An instruction is a record [inst_no, rd, rs1, rs2, imm].  The union of  *)
(* the four formats is flattened by position: rd is the first register of  *)
(* the union (rrr.rd, rri.rd, ri.rd and ror.r2, the data or destination    *)
(* register of a load or store), rs1 the second (rrr.rs1, rri.rs1 and      *)
(* ror.r1, the base), imm the long (imm or offset).  A branch "beq a,b,o"  *)
(* is parsed as rri, so its two operands are in rd and rs1.                *)
(***************************************************************************)
EXTENDS MachineWords

RRRInsts == {"ADD", "SUB", "OR", "AND", "XOR", "SLL", "SRL", "SRA",
             "ADDW", "SUBW", "SLLW", "SRLW", "SRAW"}
RRIInsts == {"ADDI", "ORI", "ANDI", "XORI", "SLLI", "SRLI", "SRAI",
             "ADDIW", "SLLIW", "SRLIW", "SRAIW"}
SetInsts    == {"SLT", "SLTU", "SLTI", "SLTIU"}
StoreInsts  == {"SB", "SH", "SW", "SD"}
LoadInsts   == {"LB", "LH", "LW", "LD", "LBU", "LHU", "LWU"}
BranchInsts == {"BEQ", "BNE", "BLT", "BGE", "BLTU", "BGEU"}

\* The instructions each of the three handlers recognises (its switch).
ComputeInsts == RRRInsts \cup RRIInsts \cup {"LUI"}
MemInsts     == StoreInsts \cup LoadInsts
ControlInsts == SetInsts \cup BranchInsts \cup {"JAL", "JALR", "AUIPC"}

InstNo == ComputeInsts \cup MemInsts \cup ControlInsts \cup {"ECALL"}

Instruction ==
  [inst_no : InstNo, rd : Nat, rs1 : Nat, rs2 : Nat, imm : Int]

\* access_size of a load or store, in bytes.
AccessSize(op) ==
  CASE op \in {"SB", "LB", "LBU"} -> 1
    [] op \in {"SH", "LH", "LHU"} -> 2
    [] op \in {"SW", "LW", "LWU"} -> 4
    [] op \in {"SD", "LD"}        -> 8

\* struct configuration: the header, the cache and what to print.
Configuration ==
  [instr_lower : Word, instr_upper : Word, entry_address : Word,
   memory_sz : Word, cache_sets : Nat,
   print_instrs : BOOLEAN, print_regs : BOOLEAN]

\* enum exception, and the value of the emulator's local e before any
\* handler has written it.
Exception   == {"INSTRUCTION", "MEMORY", "EXIT", "UNKNOWN_SYSCALL"}
NoException == "unset"

\* Shorthand for programs: one constructor per format.
RRR(op, d, a, b) == [inst_no |-> op, rd |-> d, rs1 |-> a, rs2 |-> b, imm |-> 0]
RRI(op, d, a, n) == [inst_no |-> op, rd |-> d, rs1 |-> a, rs2 |-> 0, imm |-> n]
RI(op, d, n)     == [inst_no |-> op, rd |-> d, rs1 |-> 0, rs2 |-> 0, imm |-> n]
ROR(op, d, n, b) == [inst_no |-> op, rd |-> d, rs1 |-> b, rs2 |-> 0, imm |-> n]
Ecall == [inst_no |-> "ECALL", rd |-> 0, rs1 |-> 0, rs2 |-> 0, imm |-> 0]
=============================================================================

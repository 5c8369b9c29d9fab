----------------------------- MODULE ControlFlow -----------------------------
(***************************************************************************)
(* control_flow.c: the handler of branches, jumps, conditional sets and    *)
(* AUIPC, processor_emulate_cntlflowops.                                   *)
(***************************************************************************)
EXTENDS Registers

\* The comparison of a branch or a conditional set: signed, or on unsigned
\* words (an immediate converted to u64_t).
Condition(op, a, b) ==
  CASE op = "BEQ"                     -> a = b
    [] op = "BNE"                     -> a # b
    [] op \in {"BLT", "SLT", "SLTI"}  -> Signed(a, U64) < Signed(b, U64)
    [] op = "BGE"                     -> Signed(a, U64) >= Signed(b, U64)
    [] op \in {"BLTU", "SLTU", "SLTIU"} -> a < Wrap(b)
    [] op = "BGEU"                    -> a >= b

ControlOther(i) == i.inst_no \notin ControlInsts /\ Leave(0)

ControlSet(i) ==
  /\ i.inst_no \in SetInsts
  /\ LET b == IF i.inst_no \in {"SLT", "SLTU"} THEN GetReg(i.rs2) ELSE i.imm
     IN SetReg(i.rd, IF Condition(i.inst_no, GetReg(i.rs1), b) THEN 1 ELSE 0)
  /\ Advance

ControlBranch(i) ==
  /\ i.inst_no \in BranchInsts
  /\ SetPc(IF Condition(i.inst_no, GetReg(i.rd), GetReg(i.rs1))
           THEN GetPc + i.imm ELSE GetPc + 4)
  /\ ret' = 0
  /\ UNCHANGED <<regs, e>>

\* The link is written after the base of a JALR has been read, so that a
\* register can be both; the target of a JALR loses its lowest bit.
JumpTarget(i) ==
  IF i.inst_no = "JAL" THEN GetPc + i.imm
  ELSE LET target == Wrap(GetReg(i.rs1) + i.imm) IN target - (target % 2)

\* Bug: the link is written before the base is read.
ControlJumpLinkFirst(i) ==
  /\ i.inst_no \in {"JAL", "JALR"}
  /\ SetReg(i.rd, GetPc + 4)
  /\ SetPc(IF i.inst_no = "JALR" /\ i.rd = i.rs1 /\ i.rd # 0
           THEN GetPc + 4 + i.imm ELSE JumpTarget(i))
  /\ ret' = 0
  /\ UNCHANGED e

ControlJump(i) ==
  /\ i.inst_no \in {"JAL", "JALR"}
  /\ SetReg(i.rd, GetPc + 4)
  /\ SetPc(JumpTarget(i))
  /\ ret' = 0
  /\ UNCHANGED e

ControlAuipc(i) ==
  /\ i.inst_no = "AUIPC"
  /\ SetReg(i.rd, GetPc + i.imm * 2 ^ UpperShift)
  /\ Advance

\* processor_emulate_cntlflowops(p, i, &e)
ControlFlowOps(i) ==
  /\ \/ ControlOther(i)
     \/ ControlSet(i)
     \/ ControlBranch(i)
     \/ ControlJump(i)
     \/ ControlAuipc(i)
  /\ UNCHANGED cfg
=============================================================================

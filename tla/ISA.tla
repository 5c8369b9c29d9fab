--------------------------------- MODULE ISA ---------------------------------
(***************************************************************************)
(* The machine the emulator promises to be (README.md: RV64I): one step    *)
(* per instruction, registers and a pc of full width, a memory addressed   *)
(* by address, and a halt that leaves everything else as the last complete *)
(* instruction left it.  There are no handlers, no return codes and no     *)
(* array index here.  Values are words; a signed quantity is a word read   *)
(* through Sext or compared with its sign bit flipped.                     *)
(***************************************************************************)
EXTENDS Instructions, Sequences

CONSTANTS NumRegs, SyscallReg, UpperShift, MaxAccesses

VARIABLES
  cfg,            \* the program's header
  instructions,   \* the program
  regs, pc,
  mem,            \* memory: a function from its addresses to bytes
  present,        \* the host gave the machine its memory
  cached,         \* accesses are counted
  accesses,       \* loads and stores completed
  cause           \* why the machine halted, or NoException

vars == <<cfg, instructions, regs, pc, mem, present, cached, accesses, cause>>

Half(n) == n \div 2

\* The word whose low bits are those of v in a type of n values, the rest
\* copies of its sign bit.
Sext(v, n) == LET u == v % n IN IF u < Half(n) THEN u ELSE u + (U64 - n)

Flip(a) == (a + Half(U64)) % U64
SignedLess(a, b) == Flip(a) < Flip(b)

\* Shifting a negative word right copies its sign: complement, shift, complement.
Sra(a, s) == IF a < Half(U64) THEN a \div 2 ^ s
             ELSE (U64 - 1) - ((U64 - 1 - a) \div 2 ^ s)

\* b is the second register or the immediate as a word.
Computed(op, a, b) ==
  LET s  == b % XBITS
      sw == b % Half(XBITS)
  IN CASE op \in {"ADD", "ADDI"}     -> (a + b) % U64
       [] op = "SUB"                 -> (a + (U64 - b)) % U64
       [] op \in {"AND", "ANDI"}     -> BitAnd(a, b)
       [] op \in {"OR", "ORI"}       -> BitOr(a, b)
       [] op \in {"XOR", "XORI"}     -> BitXor(a, b)
       [] op \in {"SLL", "SLLI"}     -> (a * 2 ^ s) % U64
       [] op \in {"SRL", "SRLI"}     -> a \div 2 ^ s
       [] op \in {"SRA", "SRAI"}     -> Sra(a, s)
       [] op \in {"ADDW", "ADDIW"}   -> Sext(a + b, U32)
       [] op = "SUBW"                -> Sext(a + (U64 - b), U32)
       [] op \in {"SLLW", "SLLIW"}   -> Sext((a % U32) * 2 ^ sw, U32)
       [] op \in {"SRLW", "SRLIW"}   -> Sext((a % U32) \div 2 ^ sw, U32)
       [] op \in {"SRAW", "SRAIW"}   -> Sra(Sext(a, U32), sw)
       [] op \in {"SLT", "SLTI"}     -> IF SignedLess(a, b) THEN 1 ELSE 0
       [] op \in {"SLTU", "SLTIU"}   -> IF a < b THEN 1 ELSE 0

Upper(imm) == Sext(imm * 2 ^ UpperShift, U32)

Taken(op, a, b) ==
  CASE op = "BEQ"  -> a = b
    [] op = "BNE"  -> a # b
    [] op = "BLT"  -> SignedLess(a, b)
    [] op = "BGE"  -> ~SignedLess(a, b)
    [] op = "BLTU" -> a < b
    [] op = "BGEU" -> ~(a < b)

\* The n-byte little-endian value at addr.
Value(addr, n) ==
  LET upto[k \in 0 .. n] == IF k = 0 THEN 0
                            ELSE upto[k - 1] + mem[addr + k - 1] * U8 ^ (k - 1)
  IN upto[n]

Loaded(op, addr) ==
  LET n == AccessSize(op) IN
  IF op \in {"LB", "LH", "LW"} THEN Sext(Value(addr, n), U8 ^ n) ELSE Value(addr, n)

Stored(v, addr, n) ==
  [a \in DOMAIN mem |->
     IF a \in addr .. addr + n - 1 THEN (v \div U8 ^ (a - addr)) % U8 ELSE mem[a]]

-----------------------------------------------------------------------------
InProgram == cfg.instr_lower <= pc /\ pc < cfg.instr_upper
Aligned   == (pc - cfg.instr_lower) % 4 = 0
Current   == instructions[(pc - cfg.instr_lower) \div 4 + 1]

Put(d, v) == regs' = [n \in DOMAIN regs |-> IF n = d /\ n # 0 THEN v ELSE regs[n]]
Goto(a)   == pc' = a % U64
Running   == cause = NoException
Fixed     == UNCHANGED <<cfg, instructions, present, cached>>

Init ==
  /\ regs = [n \in 0 .. NumRegs - 1 |-> 0]
  /\ pc = cfg.entry_address
  /\ \A a \in DOMAIN mem : mem[a] = 0
  /\ accesses = 0
  /\ cause = NoException

Compute(i) ==
  /\ i.inst_no \in RRRInsts \cup RRIInsts \cup SetInsts
  /\ LET b == IF i.inst_no \in RRRInsts \cup {"SLT", "SLTU"} THEN regs[i.rs2]
              ELSE i.imm % U64
     IN Put(i.rd, Computed(i.inst_no, regs[i.rs1], b))
  /\ Goto(pc + 4)

LoadUpper(i) ==
  /\ i.inst_no \in {"LUI", "AUIPC"}
  /\ Put(i.rd, IF i.inst_no = "LUI" THEN Upper(i.imm) ELSE (pc + Upper(i.imm)) % U64)
  /\ Goto(pc + 4)

Branch(i) ==
  /\ i.inst_no \in BranchInsts
  /\ Goto(IF Taken(i.inst_no, regs[i.rd], regs[i.rs1]) THEN pc + i.imm ELSE pc + 4)
  /\ regs' = regs

Jump(i) ==
  /\ i.inst_no \in {"JAL", "JALR"}
  /\ Put(i.rd, (pc + 4) % U64)
  /\ IF i.inst_no = "JAL" THEN Goto(pc + i.imm)
     ELSE Goto(2 * Half((regs[i.rs1] + i.imm) % U64))

PrintState(i) ==
  i.inst_no = "ECALL" /\ regs[SyscallReg] = 23 /\ Goto(pc + 4) /\ regs' = regs

\* Loads and stores complete only if all their bytes are memory.
Address(i)    == (regs[i.rs1] + i.imm) % U64
Accessible(i) == Address(i) .. Address(i) + AccessSize(i.inst_no) - 1 \subseteq DOMAIN mem

Access(i) ==
  /\ i.inst_no \in MemInsts /\ Accessible(i)
  /\ IF i.inst_no \in LoadInsts
     THEN Put(i.rd, Loaded(i.inst_no, Address(i))) /\ mem' = mem
     ELSE mem' = Stored(regs[i.rd], Address(i), AccessSize(i.inst_no)) /\ regs' = regs
  /\ accesses' = accesses + (IF cached THEN 1 ELSE 0)
  /\ Goto(pc + 4)
  /\ cause' = cause

Halt(exception) == cause' = exception /\ UNCHANGED <<regs, pc, mem, accesses>>

Trap(i) ==
  \/ i.inst_no \in MemInsts /\ ~Accessible(i) /\ Halt("MEMORY")
  \/ i.inst_no = "ECALL" /\ regs[SyscallReg] = 2 /\ Halt("EXIT")
  \/ i.inst_no = "ECALL" /\ regs[SyscallReg] \notin {2, 23} /\ Halt("UNKNOWN_SYSCALL")

\* One instruction: at an address of the program, its effect or its exception.
Step ==
  /\ Running /\ Fixed
  /\ \/ ~(InProgram /\ Aligned) /\ Halt("INSTRUCTION")
     \/ /\ InProgram /\ Aligned
        /\ LET i == Current IN
           \/ (Compute(i) \/ LoadUpper(i) \/ Branch(i) \/ Jump(i) \/ PrintState(i))
                /\ UNCHANGED <<mem, accesses, cause>>
           \/ Access(i)
           \/ Trap(i)

\* A machine the host refused its memory stops, saying so, after whatever
\* instructions it completed.
HostFailure == Running /\ Fixed /\ ~present /\ Halt("UNKNOWN_SYSCALL")

Next == Step \/ HostFailure
Spec == Init /\ [][Next]_vars
=============================================================================

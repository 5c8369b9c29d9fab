--------------------------- MODULE Processor_proofs ---------------------------
(***************************************************************************)
(* Proofs about the emulation loop, for every program, header, host and    *)
(* width of the machine word.                                              *)
(*                                                                         *)
(* Neither of the properties is inductive by itself.  IInv adds what the   *)
(* loop knows while an instruction is under way: the offset it computed    *)
(* still belongs to the pc the register handler will test (OffsetOfPc),    *)
(* behind that handler the offset is in the array (InProgram), and which   *)
(* registers may differ from the last copy printed, given how far the      *)
(* instruction got and which handler it belongs to (PrintInv).             *)
(***************************************************************************)
EXTENDS Processor, HandlerLemmas, SequenceTheorems

OffsetOfPc ==
  stage = "regops" => offset = Wrap(GetPc - cfg.instr_lower) \div 4

InProgram == stage \in {"memops", "cntlflowops", "print"} => InArray

AtMostOneChanged == \A m, n \in Changed : m = n

\* Instructions that may have written their register before each stage.
WrittenBy ==
  [s \in {"memops", "cntlflowops", "print"} |->
     CASE s = "memops"      -> ComputeInsts
       [] s = "cntlflowops" -> ComputeInsts \cup LoadInsts
       [] s = "print"       -> InstNo]

PrintInv ==
  cfg.print_regs =>
    /\ stage \in {"fetch", "regops"} => regs = prev_rs
    /\ stage \in {"memops", "cntlflowops", "print"} =>
         /\ AtMostOneChanged
         /\ Inst.inst_no \notin WrittenBy[stage] => regs = prev_rs

IInv ==
  /\ TypeOK
  /\ TagsInOwnSet
  /\ OffsetOfPc
  /\ InProgram
  /\ PrintInv

-----------------------------------------------------------------------------
\* Within the array, the handlers are given an instruction.
LEMMA InstIsInstruction ==
  ASSUME TypeOK, InArray PROVE Inst \in Instruction
<1>1. offset + 1 \in 1 .. Len(instructions) /\ instructions \in Seq(Instruction)
  BY DEF TypeOK, InArray
<1> QED
  BY <1>1, ElementOfSeq DEF Inst

\* The initial states: a fresh processor for some parsed input.
LEMMA InitInv == Init => IInv
<1> SUFFICES ASSUME Init PROVE IInv
  OBVIOUS
<1>1. PICK input \in Inputs : cfg = input.cfg /\ instructions = input.program
  BY DEF Init
<1>2. cfg \in Configuration /\ instructions \in Seq(Instruction)
  BY <1>1, InputAssumption
<1>3. RegistersTypeOK
  BY <1>2, Sizes, RegisterAssumption
  DEF Init, RegistersInit, RegistersTypeOK, Configuration, Word
<1>4. MemoryTypeOK
  <2>1. PICK ok \in HostMemory : MemoryInit(cfg.memory_sz, ok)
    BY DEF Init
  <2>2. mem_ok = ok /\ ok \in BOOLEAN
    BY <2>1, InputAssumption, Zenon DEF MemoryInit
  <2>3. size = IF mem_ok THEN cfg.memory_sz ELSE 0
    <3>1. size = IF ok THEN cfg.memory_sz ELSE 0
      BY <2>1 DEF MemoryInit
    <3> QED
      BY <2>2, <3>1, Zenon
  <2>4. ram = [k \in 0 .. size - 1 |-> 0]
    BY <2>1 DEF MemoryInit
  <2>5. ram \in [0 .. size - 1 -> 0 .. U8 - 1]
    BY <2>4, Sizes
  <2> QED
    BY <2>2, <2>3, <2>5 DEF MemoryTypeOK
<1>5. CacheTypeOK /\ TagsInOwnSet
  <2>1. CacheInit(cfg.cache_sets, TRUE) /\ cfg.cache_sets \in Nat
    BY <1>2 DEF Init, Configuration
  <2>2. cache_ok \in BOOLEAN /\ (cache_ok => num_sets # 0)
    BY <2>1, Zenon DEF CacheInit
  <2>3. lines \in [0 .. num_sets - 1 -> [valid : BOOLEAN, tag : Nat]]
    BY <2>1 DEF CacheInit, EmptyLine
  <2>4. CacheTypeOK
    BY <2>1, <2>2, <2>3, CacheAssumption DEF CacheInit, CacheTypeOK
  <2>5. TagsInOwnSet
    BY <2>1 DEF CacheInit, TagsInOwnSet, EmptyLine
  <2> QED
    BY <2>4, <2>5
<1>6. TypeOK
  <2>1. stage = "fetch" /\ offset = 0 /\ reports = <<>> /\ stage \in Stages
    BY DEF Init, Stages
  <2>2. prev_rs \in [0 .. NumRegs - 1 -> Word]
    BY Sizes, RegisterAssumption DEF Init, Word
  <2> QED
    BY <1>2, <1>3, <1>4, <1>5, <2>1, <2>2 DEF TypeOK
<1>7. OffsetOfPc /\ InProgram /\ PrintInv
  BY DEF Init, RegistersInit, OffsetOfPc, InProgram, PrintInv
<1> QED
  BY <1>5, <1>6, <1>7 DEF IInv

-----------------------------------------------------------------------------
\* Steps that only the loop itself takes leave registers, memory and cache.
LEMMA HandlerStateUntouched ==
  ASSUME IInv, UNCHANGED <<cfg, regs, pc, ret, e, memVars, cacheVars>>
  PROVE  RegistersTypeOK' /\ MemoryTypeOK' /\ CacheTypeOK' /\ TagsInOwnSet'
<1>1. RegistersTypeOK'
  BY DEF IInv, TypeOK, RegistersTypeOK
<1>2. MemoryTypeOK'
  BY DEF IInv, TypeOK, MemoryTypeOK, memVars
<1>3. CacheTypeOK' /\ TagsInOwnSet'
  BY DEF IInv, TypeOK, CacheTypeOK, cacheVars, TagsInOwnSet, SetOf
<1> QED
  BY <1>1, <1>2, <1>3

\* The beginning of a pass.
LEMMA FetchKeepsInv == ASSUME IInv, Fetch PROVE IInv'
<1>0. RegistersTypeOK' /\ MemoryTypeOK' /\ CacheTypeOK' /\ TagsInOwnSet'
  BY HandlerStateUntouched DEF Fetch
<1>1. offset' = Wrap(GetPc - cfg.instr_lower) \div 4 /\ offset' \in Nat
  <2>1. GetPc - cfg.instr_lower \in Int
    <3>1. GetPc \in Nat
      BY ReadsAreWords, 0 \in Nat DEF IInv, TypeOK
    <3>2. cfg.instr_lower \in Nat
      BY Sizes DEF IInv, TypeOK, RegistersTypeOK, Configuration, Word
    <3> QED
      BY <3>1, <3>2
  <2>2. Wrap(GetPc - cfg.instr_lower) \in Nat
    BY <2>1, WrapIsWord, Sizes DEF Word
  <2> QED
    BY <2>2 DEF Fetch
<1>2. stage' \in {"regops", "undefined"}
  BY DEF Fetch
<1>3. reports' \in Seq(Exception)
  BY DEF Fetch, IInv, TypeOK, Exception
<1>4. TypeOK'
  <2>1. instructions' \in Seq(Instruction) /\ prev_rs' \in [0 .. NumRegs - 1 -> Word]
    BY DEF Fetch, IInv, TypeOK
  <2>2. stage' \in Stages /\ stage' # "report"
    BY <1>2 DEF Stages
  <2> QED
    BY <1>0, <1>1, <1>3, <2>1, <2>2 DEF TypeOK
<1>5. OffsetOfPc'
  BY <1>1 DEF Fetch, OffsetOfPc, GetPc
<1>6. InProgram'
  BY <1>2 DEF InProgram
<1>7. PrintInv'
  BY <1>2 DEF Fetch, IInv, PrintInv
<1> QED
  BY <1>0, <1>4, <1>5, <1>6, <1>7 DEF IInv

\* The ways a run ends: decoding beyond the program, and the final report.
LEMMA EndsKeepInv == ASSUME IInv, DecodeBeyondArray \/ Report PROVE IInv'
<1>0. RegistersTypeOK' /\ MemoryTypeOK' /\ CacheTypeOK' /\ TagsInOwnSet'
  BY HandlerStateUntouched DEF DecodeBeyondArray, Report
<1>1. stage' \in {"stopped", "undefined"}
  BY DEF DecodeBeyondArray, Report
<1>2. reports' \in Seq(Exception)
  <2>1. CASE DecodeBeyondArray
    BY <2>1 DEF DecodeBeyondArray, IInv, TypeOK
  <2>2. CASE Report
    <3>1. e \in Exception
      BY <2>2 DEF Report, IInv, TypeOK, RegistersTypeOK
    <3> QED
      BY <2>2, <3>1 DEF Report, IInv, TypeOK
  <2> QED
    BY <2>1, <2>2
<1>3. TypeOK'
  <2>1. /\ instructions' \in Seq(Instruction)
        /\ prev_rs' \in [0 .. NumRegs - 1 -> Word]
        /\ offset' \in Nat
    BY DEF DecodeBeyondArray, Report, IInv, TypeOK
  <2>2. stage' \in Stages /\ stage' # "report"
    BY <1>1 DEF Stages
  <2> QED
    BY <1>0, <1>2, <2>1, <2>2 DEF TypeOK
<1>4. OffsetOfPc' /\ InProgram' /\ PrintInv'
  BY <1>1 DEF OffsetOfPc, InProgram, PrintInv
<1> QED
  BY <1>0, <1>3, <1>4 DEF IInv

-----------------------------------------------------------------------------
\* A handler's call leaves the loop's own state alone and moves the loop on:
\* to the report if the handler refused the instruction.
LEMMA CallKeepsLoopState ==
  ASSUME IInv, NEW next \in {"memops", "cntlflowops", "print"}, After(next),
         RegistersTypeOK', MemoryTypeOK', CacheTypeOK',
         UNCHANGED <<instructions, offset, reports, prev_rs>>
  PROVE  /\ TypeOK'
         /\ OffsetOfPc'
         /\ stage' \in {"report", next}
         /\ ret' = -1 => stage' = "report"
<1>1. stage' \in {"report", next} /\ (stage' = "report" => ret' = -1)
  BY DEF After, RegistersTypeOK
<1>2. stage' \in Stages
  BY <1>1 DEF Stages
<1>3. TypeOK'
  BY <1>1, <1>2 DEF IInv, TypeOK
<1>4. OffsetOfPc'
  BY <1>1 DEF OffsetOfPc
<1> QED
  BY <1>1, <1>3, <1>4 DEF After

\* registers_setreg changes at most one register.
LEMMA OneRegisterAtATime ==
  ASSUME RegistersTypeOK, NEW r \in Nat, NEW v, SetReg(r, v),
         regs = prev_rs, prev_rs' = prev_rs
  PROVE  AtMostOneChanged'
<1>1. \A n \in 0 .. NumRegs - 1 : n # r => regs'[n] = regs[n]
  BY DEF SetReg, RegistersTypeOK
<1>2. \A n \in Changed' : n = r
  BY <1>1 DEF Changed
<1> QED
  BY <1>2 DEF AtMostOneChanged

\* With no register changed, none differs.
LEMMA NothingChanged == ASSUME regs' = prev_rs' PROVE AtMostOneChanged'
BY DEF AtMostOneChanged, Changed

\* The first handler.
LEMMA CallRegOpsKeepsInv == ASSUME IInv, CallRegOps PROVE IInv'
<1>0. RegistersTypeOK /\ TypeOK /\ stage = "regops"
  BY DEF IInv, TypeOK, CallRegOps
<1>1. cfg' = cfg /\ instructions' = instructions /\ offset' = offset /\ prev_rs' = prev_rs
  BY DEF CallRegOps, RegOps
<1>2. MemoryTypeOK' /\ CacheTypeOK' /\ TagsInOwnSet'
  BY <1>1 DEF CallRegOps, memVars, cacheVars, IInv, TypeOK, MemoryTypeOK,
              CacheTypeOK, TagsInOwnSet, SetOf
<1>3. CASE ~PcInRange
  <2>1. RegOpsBadPc
    BY <1>3 DEF CallRegOps, RegOps, RegOpsCompute, RegOpsPrintState, RegOpsExit,
                RegOpsUnknownSyscall, RegOpsOther
  <2>2. RegistersTypeOK' /\ ret' = -1
    BY <1>0, <1>1, <2>1, BadPcKeepsType DEF RegOpsBadPc, Raise
  <2>3. TypeOK' /\ OffsetOfPc' /\ stage' = "report"
    BY <1>2, <2>2, CallKeepsLoopState DEF CallRegOps
  <2>4. InProgram' /\ PrintInv'
    BY <2>3 DEF InProgram, PrintInv
  <2> QED
    BY <1>2, <2>3, <2>4 DEF IInv
<1>4. CASE PcInRange
  <2>1. InArray /\ Inst \in Instruction /\ RegOps(Inst)
    BY <1>0, <1>4, InstIsInstruction DEF CallRegOps
  <2>2. RegistersTypeOK'
    BY <1>0, <2>1, RegOpsKeepsType
  <2>3. /\ TypeOK' /\ OffsetOfPc' /\ stage' \in {"report", "memops"}
        /\ ret' = -1 => stage' = "report"
    BY <1>2, <2>2, CallKeepsLoopState DEF CallRegOps
  <2>4. InProgram'
    BY <1>1, <2>1, <2>3 DEF InProgram, InArray
  <2>5. PrintInv'
    <3> SUFFICES ASSUME cfg.print_regs, stage' = "memops"
                 PROVE  /\ AtMostOneChanged'
                        /\ Inst.inst_no \notin ComputeInsts => regs' = prev_rs'
      BY <1>1, <2>3 DEF PrintInv, WrittenBy, Inst
    <3>1. regs = prev_rs
      BY <1>0 DEF IInv, PrintInv
    <3>2. CASE RegOpsCompute(Inst)
      <4>1. Inst.inst_no \in ComputeInsts /\ Inst.rd \in Nat
        BY <2>1, <3>2 DEF RegOpsCompute, Instruction
      <4>2. AtMostOneChanged'
        BY <1>0, <1>1, <3>1, <3>2, <4>1, OneRegisterAtATime DEF RegOpsCompute
      <4> QED
        BY <4>1, <4>2
    <3>3. CASE ~RegOpsCompute(Inst)
      <4>1. regs' = regs
        BY <2>1, <3>3
        DEF RegOps, RegOpsBadPc, RegOpsPrintState, RegOpsExit,
            RegOpsUnknownSyscall, RegOpsOther, Raise, Leave
      <4> QED
        BY <1>1, <3>1, <4>1, NothingChanged
    <3> QED
      BY <3>2, <3>3
  <2> QED
    BY <1>2, <2>3, <2>4, <2>5 DEF IInv
<1> QED
  BY <1>3, <1>4

\* The second handler.
LEMMA CallMemOpsKeepsInv == ASSUME IInv, CallMemOps PROVE IInv'
<1>0. RegistersTypeOK /\ TypeOK /\ stage = "memops" /\ MemOps(Inst)
  BY DEF IInv, TypeOK, CallMemOps
<1>1. cfg' = cfg /\ instructions' = instructions /\ offset' = offset /\ prev_rs' = prev_rs
  BY DEF CallMemOps, MemOps
<1>2. InArray /\ Inst \in Instruction
  BY <1>0, InstIsInstruction DEF IInv, InProgram
<1>3. RegistersTypeOK' /\ MemoryTypeOK' /\ CacheTypeOK' /\ TagsInOwnSet'
  <2>1. CacheInv /\ MemoryTypeOK
    BY DEF IInv, TypeOK, CacheInv
  <2>2. RegistersTypeOK' /\ MemoryTypeOK' /\ CacheInv'
    BY <1>0, <1>2, <2>1, MemOpsKeepsType
  <2> QED
    BY <2>2 DEF CacheInv
<1>4. TypeOK' /\ OffsetOfPc' /\ stage' \in {"report", "cntlflowops"}
  BY <1>3, CallKeepsLoopState DEF CallMemOps
<1>5. InProgram'
  BY <1>1, <1>2, <1>4 DEF InProgram, InArray
<1>6. PrintInv'
  <2> SUFFICES ASSUME cfg.print_regs, stage' = "cntlflowops"
               PROVE  /\ AtMostOneChanged'
                      /\ Inst.inst_no \notin ComputeInsts \cup LoadInsts =>
                           regs' = prev_rs'
    BY <1>1, <1>4 DEF PrintInv, WrittenBy, Inst
  <2>1. AtMostOneChanged /\ (Inst.inst_no \notin ComputeInsts => regs = prev_rs)
    BY <1>0 DEF IInv, PrintInv, WrittenBy
  <2>2. CASE MemOpsLoad(Inst)
    <3>1. Inst.inst_no \in LoadInsts /\ Inst.inst_no \notin ComputeInsts /\ Inst.rd \in Nat
      BY <1>2, <2>2
      DEF MemOpsLoad, LoadInsts, ComputeInsts, RRRInsts, RRIInsts, Instruction
    <3>2. AtMostOneChanged'
      BY <1>0, <1>1, <2>1, <2>2, <3>1, OneRegisterAtATime DEF MemOpsLoad
    <3> QED
      BY <3>1, <3>2
  <2>3. CASE ~MemOpsLoad(Inst)
    <3>1. regs' = regs
      BY <1>0, <2>3
      DEF MemOps, MemOpsNoMemory, MemOpsOther, MemOpsRefused, MemOpsStore, Raise, Leave
    <3>2. AtMostOneChanged'
      BY <1>1, <2>1, <3>1 DEF AtMostOneChanged, Changed
    <3> QED
      BY <1>1, <2>1, <3>1, <3>2
  <2> QED
    BY <2>2, <2>3
<1> QED
  BY <1>3, <1>4, <1>5, <1>6 DEF IInv

\* The third handler.
LEMMA CallControlFlowOpsKeepsInv == ASSUME IInv, CallControlFlowOps PROVE IInv'
<1>0. RegistersTypeOK /\ TypeOK /\ stage = "cntlflowops" /\ ControlFlowOps(Inst)
  BY DEF IInv, TypeOK, CallControlFlowOps
<1>1. cfg' = cfg /\ instructions' = instructions /\ offset' = offset /\ prev_rs' = prev_rs
  BY DEF CallControlFlowOps, ControlFlowOps
<1>2. InArray /\ Inst \in Instruction
  BY <1>0, InstIsInstruction DEF IInv, InProgram
<1>3. RegistersTypeOK' /\ MemoryTypeOK' /\ CacheTypeOK' /\ TagsInOwnSet'
  <2>1. RegistersTypeOK'
    BY <1>0, <1>2, ControlFlowOpsKeepsType
  <2>2. MemoryTypeOK' /\ CacheTypeOK' /\ TagsInOwnSet'
    BY <1>1 DEF CallControlFlowOps, memVars, cacheVars, IInv, TypeOK, MemoryTypeOK,
                CacheTypeOK, TagsInOwnSet, SetOf
  <2> QED
    BY <2>1, <2>2
<1>4. TypeOK' /\ OffsetOfPc' /\ stage' \in {"report", "print"}
  BY <1>3, CallKeepsLoopState DEF CallControlFlowOps
<1>5. InProgram'
  BY <1>1, <1>2, <1>4 DEF InProgram, InArray
<1>6. PrintInv'
  <2> SUFFICES ASSUME cfg.print_regs, stage' = "print" PROVE AtMostOneChanged'
    BY <1>1, <1>2, <1>4 DEF PrintInv, WrittenBy, Inst, Instruction
  <2>1. /\ AtMostOneChanged
        /\ Inst.inst_no \notin ComputeInsts \cup LoadInsts => regs = prev_rs
    BY <1>0 DEF IInv, PrintInv, WrittenBy
  <2>2. CASE \E v : SetReg(Inst.rd, v) /\ Inst.inst_no \in ControlInsts
    <3>1. Inst.inst_no \notin ComputeInsts \cup LoadInsts /\ Inst.rd \in Nat
      BY <1>2, <2>2
      DEF ControlInsts, SetInsts, BranchInsts, LoadInsts, ComputeInsts, RRRInsts,
          RRIInsts, Instruction
    <3> QED
      BY <1>0, <1>1, <2>1, <2>2, <3>1, OneRegisterAtATime
  <2>3. CASE regs' = regs
    BY <1>1, <2>1, <2>3 DEF AtMostOneChanged, Changed
  <2> QED
    BY <1>0, <2>2, <2>3
    DEF ControlFlowOps, ControlOther, ControlSet, ControlBranch, ControlJump,
        ControlAuipc, Leave, ControlInsts
<1> QED
  BY <1>3, <1>4, <1>5, <1>6 DEF IInv

\* The printing at the end of a pass.
LEMMA PrintStateKeepsInv == ASSUME IInv, PrintState PROVE IInv'
<1>0. RegistersTypeOK' /\ MemoryTypeOK' /\ CacheTypeOK' /\ TagsInOwnSet'
  BY HandlerStateUntouched DEF PrintState
<1>1. /\ stage = "print" /\ stage' = "fetch" /\ cfg' = cfg /\ regs' = regs
      /\ regs \in [0 .. NumRegs - 1 -> Word]
      /\ prev_rs \in [0 .. NumRegs - 1 -> Word]
  BY DEF PrintState, IInv, TypeOK, RegistersTypeOK
<1>2. CASE cfg.print_regs
  <2>1. RegistersPrint /\ AtMostOneChanged
    BY <1>1, <1>2 DEF PrintState, IInv, PrintInv
  <2>2. \A n \in 0 .. NumRegs - 1 : prev_rs'[n] = regs[n]
    <3> SUFFICES ASSUME NEW n \in 0 .. NumRegs - 1 PROVE prev_rs'[n] = regs[n]
      OBVIOUS
    <3>1. CASE n \in Changed
      <4>1. \A m \in Changed : n <= m
        BY <2>1, <3>1 DEF AtMostOneChanged
      <4> QED
        BY <2>1, <3>1, <4>1 DEF RegistersPrint
    <3>2. CASE n \notin Changed
      BY <2>1, <3>2 DEF RegistersPrint, Changed
    <3> QED
      BY <3>1, <3>2
  <2>3. prev_rs' = regs
    BY <1>1, <2>1, <2>2 DEF RegistersPrint
  <2> QED
    BY <1>0, <1>1, <2>3
    DEF PrintState, IInv, TypeOK, Stages, OffsetOfPc, InProgram, PrintInv
<1>3. CASE ~cfg.print_regs
  <2>1. prev_rs' = prev_rs
    BY <1>3 DEF PrintState
  <2> QED
    BY <1>0, <1>1, <1>3, <2>1
    DEF PrintState, IInv, TypeOK, Stages, OffsetOfPc, InProgram, PrintInv
<1> QED
  BY <1>2, <1>3

\* A step in which nothing changes.
LEMMA StutterKeepsInv == ASSUME IInv, UNCHANGED processorVars PROVE IInv'
<1>1. RegistersTypeOK' /\ MemoryTypeOK' /\ CacheTypeOK' /\ TagsInOwnSet'
  BY HandlerStateUntouched DEF processorVars
<1>2. TypeOK'
  BY <1>1 DEF processorVars, IInv, TypeOK
<1>3. OffsetOfPc' /\ InProgram' /\ PrintInv'
  BY DEF processorVars, IInv, OffsetOfPc, InProgram, InArray, GetPc, PrintInv,
         AtMostOneChanged, Changed, Inst
<1> QED
  BY <1>1, <1>2, <1>3 DEF IInv

-----------------------------------------------------------------------------
\* IInv is an invariant: every action of the loop preserves it.
THEOREM ProcessorInvariant == Spec => []IInv
<1>1. IInv /\ [Next]_processorVars => IInv'
  <2> SUFFICES ASSUME IInv, [Next]_processorVars PROVE IInv'
    OBVIOUS
  <2>1. CASE Fetch
    BY <2>1, FetchKeepsInv
  <2>2. CASE DecodeBeyondArray \/ Report
    BY <2>2, EndsKeepInv
  <2>3. CASE CallRegOps
    BY <2>3, CallRegOpsKeepsInv
  <2>4. CASE CallMemOps
    BY <2>4, CallMemOpsKeepsInv
  <2>5. CASE CallControlFlowOps
    BY <2>5, CallControlFlowOpsKeepsInv
  <2>6. CASE PrintState
    BY <2>6, PrintStateKeepsInv
  <2>7. CASE UNCHANGED processorVars
    BY <2>7, StutterKeepsInv
  <2> QED
    BY <2>1, <2>2, <2>3, <2>4, <2>5, <2>6, <2>7 DEF Next
<1> QED
  BY <1>1, InitInv, PTL DEF Spec

\* Type correctness of the whole processor: registers and pc stay 64-bit
\* words, x0 stays zero, the RAM holds bytes, and no exception is reported
\* that no handler has raised (processor.c's uninitialised e).
THEOREM ProcessorTypeCorrect == Spec => []TypeOK
<1>1. IInv => TypeOK
  BY DEF IInv
<1> QED
  BY <1>1, ProcessorInvariant, PTL

\* With a header that fits the program, every instruction a handler is given
\* is one of the program's, although the loop goes on after a bad pc.
THEOREM OnlyTheProgramIsDecoded == Spec => []DecodesOnlyTheProgram
<1>1. IInv => DecodesOnlyTheProgram
  <2> SUFFICES ASSUME IInv, HonestHeader, stage = "regops", PcInRange PROVE InArray
    BY DEF DecodesOnlyTheProgram, IInv, InProgram
  <2> DEFINE d == GetPc - cfg.instr_lower
  <2>1. GetPc \in Nat /\ cfg.instr_lower \in Nat /\ cfg.instr_upper \in 0 .. U64 - 1
    BY ReadsAreWords, Sizes DEF IInv, TypeOK, RegistersTypeOK, Configuration, Word
  <2>2. Len(instructions) \in Nat
    BY DEF IInv, TypeOK
  <2>3. d \in 0 .. U64 - 1 /\ d < 4 * Len(instructions)
    BY <2>1, <2>2, Sizes DEF PcInRange, HonestHeader, Honest
  <2>4. offset = d \div 4
    BY <2>3, Sizes DEF IInv, OffsetOfPc, Wrap
  <2> HIDE DEF d
  <2> QED
    BY <2>2, <2>3, <2>4 DEF InArray
<1> QED
  BY <1>1, ProcessorInvariant, PTL

\* The bounds check of loads and stores protects the RAM: no access it lets
\* through reaches a byte before or after the allocation, whatever the sums
\* of the check overflow to.
THEOREM AccessesStayInRam == Spec => []AcceptedAccessStaysInRam
<1>1. IInv => AcceptedAccessStaysInRam
  <2> SUFFICES ASSUME IInv, stage = "memops", Inst.inst_no \in MemInsts, mem_ok,
                      ValidAccess(EffectiveAddr(Inst), AccessSize(Inst.inst_no))
               PROVE  LET n == AccessSize(Inst.inst_no)
                          k == RamIndex(EffectiveAddr(Inst))
                      IN k .. k + n - 1 \subseteq DOMAIN ram
    BY DEF AcceptedAccessStaysInRam
  <2> DEFINE n == AccessSize(Inst.inst_no)
             k == RamIndex(EffectiveAddr(Inst))
  <2>1. RegistersTypeOK /\ MemoryTypeOK /\ TypeOK /\ InArray
    BY DEF IInv, TypeOK, InProgram
  <2>2. n \in 1 .. 8
    BY AccessSizes
  <2>3. EffectiveAddr(Inst) \in Word
    BY <2>1, InstIsInstruction, AddressIsWord
  <2>4. k \in Nat /\ k + n <= size
    BY <2>1, <2>2, <2>3, AccessInRam
  <2>5. DOMAIN ram = 0 .. size - 1 /\ size \in Nat
    BY <2>1, Sizes DEF MemoryTypeOK, RegistersTypeOK, Configuration, Word
  <2> HIDE DEF n, k
  <2>6. k .. k + n - 1 \subseteq DOMAIN ram
    BY <2>2, <2>4, <2>5
  <2> QED
    BY <2>6 DEF n, k
<1> QED
  BY <1>1, ProcessorInvariant, PTL

\* The register print shows every change of the pass it ends, and no stale
\* one, although it stops at the first register that differs.
THEOREM PrintIsComplete == Spec => []PrintShowsEveryChange
<1>1. IInv => PrintShowsEveryChange
  BY DEF IInv, PrintInv, PrintShowsEveryChange
<1> QED
  BY <1>1, ProcessorInvariant, PTL

-----------------------------------------------------------------------------
\* Until the handler that recognises an instruction has run, the pc stands at
\* the instruction: the handlers before it have left it alone.
PcStands ==
  \/ stage = "memops" /\ Inst.inst_no \in MemInsts \cup ControlInsts
  \/ stage = "cntlflowops" /\ Inst.inst_no \in ControlInsts
  => PcInRange /\ offset = Wrap(GetPc - cfg.instr_lower) \div 4

\* Each instruction belongs to one handler.
LEMMA HandlersAreDisjoint ==
  /\ ComputeInsts \cap (MemInsts \cup ControlInsts \cup {"ECALL"}) = {}
  /\ MemInsts \cap (ControlInsts \cup {"ECALL"}) = {}
  /\ LoadInsts \cap StoreInsts = {}
  /\ "ECALL" \notin ControlInsts
BY DEF ComputeInsts, RRRInsts, RRIInsts, MemInsts, LoadInsts, StoreInsts, ControlInsts,
  SetInsts, BranchInsts

\* PcStands is kept by every step of the loop.
LEMMA StepKeepsPcStands == ASSUME IInv, PcStands, [Next]_processorVars PROVE PcStands'
<1> SUFFICES ASSUME \/ stage' = "memops" /\ Inst'.inst_no \in MemInsts \cup ControlInsts
                    \/ stage' = "cntlflowops" /\ Inst'.inst_no \in ControlInsts
             PROVE  PcInRange' /\ offset' = Wrap(GetPc' - cfg'.instr_lower) \div 4
  BY DEF PcStands
<1>1. CASE CallRegOps
  <2>1. stage' = "memops" /\ offset' = offset /\ Inst' = Inst
    BY <1>1 DEF CallRegOps, After, Inst
  <2>2. Inst.inst_no \notin ComputeInsts \cup {"ECALL"}
    BY <2>1, HandlersAreDisjoint
  <2>3. RegOpsOther(Inst)
    <3>1. ~RegOpsBadPc
      BY <1>1, <2>1 DEF CallRegOps, After, RegOpsBadPc, Raise
    <3> QED
      BY <1>1, <2>2, <3>1
      DEF CallRegOps, RegOps, RegOpsCompute, RegOpsPrintState, RegOpsExit, RegOpsUnknownSyscall
  <2>4. pc' = pc /\ cfg' = cfg /\ PcInRange
    BY <1>1, <2>3 DEF CallRegOps, RegOps, RegOpsOther, Leave
  <2>5. offset = Wrap(GetPc - cfg.instr_lower) \div 4
    BY <1>1 DEF CallRegOps, IInv, OffsetOfPc
  <2> QED
    BY <2>1, <2>4, <2>5 DEF PcInRange, GetPc
<1>2. CASE CallMemOps
  <2>1. /\ stage = "memops" /\ stage' = "cntlflowops" /\ offset' = offset /\ Inst' = Inst
        /\ MemOps(Inst)
    BY <1>2 DEF CallMemOps, After, Inst
  <2>2. Inst.inst_no \in ControlInsts /\ Inst.inst_no \notin MemInsts
    BY <2>1, HandlersAreDisjoint
  <2>3. MemOpsOther(Inst)
    <3>1. ~MemOpsNoMemory
      BY <1>2, <2>1 DEF CallMemOps, After, MemOpsNoMemory, Raise
    <3> QED
      BY <2>1, <2>2, <3>1 DEF MemOps, MemOpsRefused, MemOpsStore, MemOpsLoad, MemInsts
  <2>4. pc' = pc /\ cfg' = cfg
    BY <2>1, <2>3 DEF MemOps, MemOpsOther, Leave
  <2>5. PcInRange /\ offset = Wrap(GetPc - cfg.instr_lower) \div 4
    BY <2>1, <2>2 DEF PcStands
  <2> QED
    BY <2>1, <2>4, <2>5 DEF PcInRange, GetPc
<1>3. CASE Fetch \/ DecodeBeyondArray \/ CallControlFlowOps \/ Report \/ PrintState
  BY <1>3 DEF Fetch, DecodeBeyondArray, CallControlFlowOps, After, Report, PrintState
<1>4. CASE UNCHANGED processorVars
  BY <1>4 DEF processorVars, PcStands, PcInRange, GetPc, Inst
<1> QED
  BY <1>1, <1>2, <1>3, <1>4 DEF Next

\* The pc stands at the instruction that is under way.
THEOREM PcStandsInvariant == Spec => []PcStands
<1>1. Init => PcStands
  BY DEF Init, PcStands
<1> QED
  BY <1>1, StepKeepsPcStands, ProcessorInvariant, PTL DEF Spec

-----------------------------------------------------------------------------
\* What has been reported at each stage: only a pc that has left the program is
\* reported before a handler has raised an exception.
ReportsInv ==
  /\ stage \in {"fetch", "memops", "cntlflowops", "print"} => reports = <<>>
  /\ stage = "regops" => reports = IF PcInRange THEN <<>> ELSE <<"INSTRUCTION">>
  /\ stage = "report" =>
       \/ reports = <<>>
       \/ e = "INSTRUCTION" /\ ~PcInRange /\ reports = <<"INSTRUCTION">>
  /\ ReportsTheException

\* ReportsInv is kept by every step of the loop.
LEMMA StepKeepsReports == ASSUME TypeOK, ReportsInv, [Next]_processorVars PROVE ReportsInv'
<1>1. /\ Append(<<>>, "INSTRUCTION") = <<"INSTRUCTION">>
      /\ Append(<<>>, e) = <<e>> /\ Append(<<e>>, e) = <<e, e>>
  <2>1. /\ Append(<<>>, "INSTRUCTION") = <<"INSTRUCTION">>
        /\ Append(<<>>, e) = <<e>>
    OBVIOUS
  <2>2. Append(<<e>>, e) = <<e, e>>
    <3> DEFINE E == {e}
    <3>1. e \in E
      OBVIOUS
    <3> HIDE DEF E
    <3>2. <<e>> \in Seq(E) /\ <<e, e>> \in Seq(E) /\ Len(<<e>>) = 1 /\ Len(<<e, e>>) = 2
      BY <3>1
    <3>3. /\ Append(<<e>>, e) \in Seq(E) /\ Len(Append(<<e>>, e)) = 2
          /\ Append(<<e>>, e)[1] = e /\ Append(<<e>>, e)[2] = e
      BY <3>1, <3>2, AppendProperties
    <3> DEFINE s == Append(<<e>>, e)
               t == <<e, e>>
    <3>4. t[1] = e /\ t[2] = e
      OBVIOUS
    <3>5. s \in Seq(E) /\ t \in Seq(E) /\ Len(s) = 2 /\ Len(t) = 2 /\ s[1] = t[1] /\ s[2] = t[2]
      BY <3>2, <3>3, <3>4, Zenon
    <3> HIDE DEF s, t
    <3>6. Len(s) = Len(t) /\ \A i \in 1 .. Len(s) : s[i] = t[i]
      BY <3>5
    <3>7. s = t
      BY <3>5, <3>6, SeqEqual
    <3> QED
      BY <3>7 DEF s, t
  <2> QED
    BY <2>1, <2>2
<1>2. CASE Fetch
  <2>1. /\ stage = "fetch" /\ stage' \in {"regops", "undefined"} /\ cfg' = cfg /\ pc' = pc
        /\ reports' = IF PcInRange THEN reports ELSE Append(reports, "INSTRUCTION")
    BY <1>2 DEF Fetch
  <2>2. reports' = IF PcInRange' THEN <<>> ELSE <<"INSTRUCTION">>
    BY <1>1, <2>1 DEF ReportsInv, PcInRange, GetPc
  <2> QED
    BY <2>1, <2>2 DEF ReportsInv, ReportsTheException
<1>3. CASE DecodeBeyondArray \/ PrintState
  <2>1. \/ stage' = "undefined"
        \/ stage = "print" /\ stage' = "fetch" /\ reports' = reports
    BY <1>3 DEF DecodeBeyondArray, PrintState
  <2> QED
    BY <2>1 DEF ReportsInv, ReportsTheException
<1>4. CASE CallRegOps
  <2>1. stage = "regops" /\ reports' = reports /\ stage' = IF ret' < 0 THEN "report" ELSE "memops"
    BY <1>4 DEF CallRegOps, After
  <2>2. CASE RegOpsBadPc
    <3>1. ~PcInRange /\ ret' = -1 /\ e' = "INSTRUCTION" /\ pc' = pc /\ cfg' = cfg
      BY <1>4, <2>2 DEF RegOpsBadPc, Raise, CallRegOps, RegOps
    <3>2. ~PcInRange' /\ stage' = "report"
      BY <2>1, <3>1 DEF PcInRange, GetPc
    <3>3. reports' = <<"INSTRUCTION">>
      BY <2>1, <3>1 DEF ReportsInv
    <3> QED
      BY <3>1, <3>2, <3>3 DEF ReportsInv, ReportsTheException
  <2>3. CASE ~RegOpsBadPc
    <3>1. PcInRange
      BY <1>4, <2>3 DEF CallRegOps, RegOps, RegOpsCompute, RegOpsPrintState, RegOpsExit,
         RegOpsUnknownSyscall, RegOpsOther
    <3> QED
      BY <2>1, <3>1 DEF ReportsInv, ReportsTheException
  <2> QED
    BY <2>2, <2>3
<1>5. CASE CallMemOps \/ CallControlFlowOps
  <2>1. /\ stage \in {"memops", "cntlflowops"} /\ reports' = reports
        /\ stage' \in {"report", "cntlflowops", "print"}
    BY <1>5 DEF CallMemOps, CallControlFlowOps, After
  <2> QED
    BY <2>1 DEF ReportsInv, ReportsTheException
<1>6. CASE Report
  <2>1. /\ stage = "report" /\ stage' = "stopped" /\ reports' = Append(reports, e)
        /\ e' = e /\ pc' = pc /\ cfg' = cfg
    BY <1>6 DEF Report
  <2>2. \/ reports' = <<e>>
        \/ e = "INSTRUCTION" /\ ~PcInRange /\ reports' = <<e, e>>
    BY <1>1, <2>1 DEF ReportsInv
  <2>3. PcInRange' = PcInRange
    BY <2>1 DEF PcInRange, GetPc
  <2> QED
    BY <2>1, <2>2, <2>3 DEF ReportsInv, ReportsTheException
<1>7. CASE UNCHANGED processorVars
  BY <1>7 DEF processorVars, ReportsInv, ReportsTheException, PcInRange, GetPc
<1> QED
  BY <1>2, <1>3, <1>4, <1>5, <1>6, <1>7 DEF Next

\* No exception is lost, repeated or replaced, except that a pc outside the
\* program is reported twice, for every program and header.
THEOREM ReportsAreExact == Spec => []ReportsTheException
<1>1. Init => ReportsInv
  BY DEF Init, ReportsInv, ReportsTheException
<1>2. ReportsInv => ReportsTheException
  BY DEF ReportsInv
<1> QED
  BY <1>1, <1>2, StepKeepsReports, ProcessorTypeCorrect, PTL DEF Spec

-----------------------------------------------------------------------------
\* The numbers behind StepsLeft.
LEMMA CallsInOrder ==
  ASSUME NEW p \in BOOLEAN
  PROVE  /\ \A s \in Stages : CallsFrom(s, p) \in 0 .. 8
         /\ CallsFrom("stopped", p) = 0 /\ CallsFrom("undefined", p) = 0
         /\ CallsFrom("report", p) = 1 /\ CallsFrom("regops", p) = 4
         /\ CallsFrom("fetch", p) = 5 /\ CallsFrom("print", p) = 6
         /\ CallsFrom("cntlflowops", p) = IF p THEN 2 ELSE 7
         /\ CallsFrom("memops", p) = IF p THEN 3 ELSE 8
<1>1. /\ CallsFrom("stopped", p) = 0 /\ CallsFrom("undefined", p) = 0
      /\ CallsFrom("report", p) = 1 /\ CallsFrom("regops", p) = 4
      /\ CallsFrom("fetch", p) = 5 /\ CallsFrom("print", p) = 6
      /\ CallsFrom("cntlflowops", p) = IF p THEN 2 ELSE 7
      /\ CallsFrom("memops", p) = IF p THEN 3 ELSE 8
  BY Zenon DEF CallsFrom
<1> QED
  BY <1>1 DEF Stages

\* A call either moves the pc on or comes before the one that does.
LEMMA Closer ==
  ASSUME TypeOK, TypeOK',
         \/ GetPc' > GetPc
         \/ GetPc' = GetPc /\ CallsFrom(stage', Pending') < CallsFrom(stage, Pending)
  PROVE  StepsLeft' \in 0 .. StepsLeft - 1
<1> DEFINE a == CallsFrom(stage, Pending)
           b == CallsFrom(stage', Pending')
<1>1. Pending \in BOOLEAN /\ Pending' \in BOOLEAN
  BY Zenon DEF Pending
<1>2. a \in 0 .. 8 /\ b \in 0 .. 8
  BY <1>1, CallsInOrder DEF TypeOK
<1>3. GetPc \in Nat /\ GetPc' \in Nat /\ U32 \in Nat /\ GetPc' < U32
  <2>1. U32 \in Nat \ {0} /\ pc \in Nat /\ pc' \in Nat
    BY Sizes DEF TypeOK, RegistersTypeOK, Word
  <2>2. \A x \in Nat, n \in Nat \ {0} : x % n \in Nat /\ x % n < n /\ n \in Nat
    OBVIOUS
  <2> QED
    BY <2>1, <2>2, Zenon DEF GetPc
<1>4. GetPc' > GetPc \/ (GetPc' = GetPc /\ b < a)
  OBVIOUS
<1>5. StepsLeft = 9 * (U32 - GetPc) + a /\ StepsLeft' = 9 * (U32 - GetPc') + b
  BY DEF StepsLeft
<1> DEFINE here == GetPc
           there == GetPc'
<1> HIDE DEF a, b, here, there
<1>6. \A p, q, u \in Nat, k, l \in 0 .. 8 :
        q < u /\ (q > p \/ (q = p /\ l < k)) =>
          9 * (u - q) + l \in 0 .. (9 * (u - p) + k) - 1
  OBVIOUS
<1> QED
  BY <1>2, <1>3, <1>4, <1>5, <1>6, Zenon

\* An unsigned int fits a word.
LEMMA IntFitsWord == U32 <= U64
<1>1. \A u \in Nat \ {0} : u <= u * u
  <2> TAKE u \in Nat \ {0}
  <2>1. u * (u - 1) >= 0 /\ u * (u - 1) = u * u - u
    OBVIOUS
  <2> QED
    BY <2>1
<1> QED
  BY <1>1, Sizes, WidthAssumption

\* An address short of 2^32 is reached without wrapping around.
LEMMA PcMovesOn ==
  ASSUME RegistersTypeOK, NEW n \in Nat \ {0}, GetPc + n < U32, SetPc(GetPc + n)
  PROVE  GetPc' > GetPc
<1>1. GetPc \in Nat /\ U32 \in Nat \ {0} /\ U64 \in Nat \ {0} /\ U32 <= U64
  BY Sizes, IntFitsWord DEF RegistersTypeOK, Word, GetPc
<1> DEFINE t == GetPc + n
<1>2. t \in 0 .. U32 - 1 /\ t \in 0 .. U64 - 1 /\ t > GetPc
  BY <1>1
<1>3. pc' = t % U64
  BY DEF SetPc, Wrap
<1> HIDE DEF t
<1>4. pc' = t
  BY <1>1, <1>2, <1>3
<1>5. t % U32 = t
  BY <1>1, <1>2
<1> QED
  BY <1>2, <1>4, <1>5 DEF GetPc

\* What a forward program promises about the instruction the pc stands at.
LEMMA ForwardInst ==
  ASSUME TypeOK, InArray, PcInRange, ForwardOnly
  PROVE  /\ GetPc + 4 < U32 /\ Inst.inst_no # "JALR"
         /\ Inst.inst_no \in BranchInsts \cup {"JAL"} =>
              Inst.imm \in Nat \ {0} /\ GetPc + Inst.imm < U32
<1>1. offset + 1 \in DOMAIN instructions
  BY DEF TypeOK, InArray
<1>2. /\ Inst.inst_no # "JALR" /\ cfg.instr_upper + 4 < U32
      /\ Inst.inst_no \in BranchInsts \cup {"JAL"} =>
           Inst.imm > 0 /\ cfg.instr_upper + Inst.imm < U32
  BY <1>1, Zenon DEF ForwardOnly, Inst
<1>3. cfg.instr_upper \in Nat /\ U32 \in Nat /\ pc \in Nat
  BY Sizes DEF TypeOK, RegistersTypeOK, Configuration, Word
<1>4. GetPc \in Nat /\ GetPc < cfg.instr_upper
  BY <1>3, Sizes DEF GetPc, PcInRange
<1>5. Inst.imm \in Int
  BY InstIsInstruction DEF Instruction
<1> QED
  BY <1>2, <1>3, <1>4, <1>5

\* The step that raises an exception is followed by its report.
LEMMA RaisedIsCloser ==
  ASSUME TypeOK, TypeOK', GetPc' = GetPc, stage' = "report",
         stage \in {"regops", "memops", "cntlflowops"}
  PROVE  StepsLeft' \in 0 .. StepsLeft - 1
<1>1. Pending \in BOOLEAN /\ Pending' \in BOOLEAN
  BY Zenon DEF Pending
<1>2. CallsFrom(stage', Pending') = 1
  BY <1>1, CallsInOrder
<1>3. CallsFrom(stage, Pending) \in {2, 3, 4, 7, 8}
  BY <1>1, CallsInOrder
<1> QED
  BY <1>2, <1>3, Closer

\* The register handler brings a forward program closer to its end.
LEMMA CallRegOpsIsCloser ==
  ASSUME IInv, TypeOK', ForwardOnly, CallRegOps
  PROVE  StepsLeft' \in 0 .. StepsLeft - 1
<1>1. /\ TypeOK /\ RegistersTypeOK /\ stage = "regops" /\ (PcInRange => InArray)
      /\ stage' = IF ret' < 0 THEN "report" ELSE "memops"
      /\ offset' = offset /\ Inst' = Inst
  BY DEF IInv, TypeOK, CallRegOps, After, Inst
<1>2. CASE RegOpsBadPc \/ RegOpsExit(Inst) \/ RegOpsUnknownSyscall(Inst)
  <2>1. ret' = -1 /\ pc' = pc
    BY <1>2 DEF RegOpsBadPc, RegOpsExit, RegOpsUnknownSyscall, Raise
  <2> QED
    BY <1>1, <2>1, RaisedIsCloser DEF GetPc
<1>3. CASE RegOpsCompute(Inst) \/ RegOpsPrintState(Inst)
  <2>1. PcInRange /\ SetPc(GetPc + 4)
    BY <1>3 DEF RegOpsCompute, RegOpsPrintState, Advance
  <2>2. GetPc' > GetPc
    BY <1>1, <2>1, ForwardInst, PcMovesOn, 4 \in Nat \ {0}
  <2> QED
    BY <1>1, <2>2, Closer
<1>4. CASE RegOpsOther(Inst)
  <2>1. PcInRange /\ ret' = 1 /\ pc' = pc /\ Inst.inst_no \notin ComputeInsts \cup {"ECALL"}
    BY <1>4 DEF RegOpsOther, Leave
  <2>2. Inst.inst_no \in InstNo
    BY <1>1, <2>1, InstIsInstruction DEF Instruction
  <2>3. Inst.inst_no \in MemInsts \cup ControlInsts
    BY <2>1, <2>2 DEF InstNo
  <2>4. stage' = "memops"
    BY <1>1, <2>1
  <2>5. Pending' = TRUE
    BY <1>1, <2>3, <2>4 DEF Pending
  <2>6. CallsFrom(stage', Pending') = 3
    BY <2>4, <2>5, CallsInOrder
  <2>7. Pending \in BOOLEAN
    BY Zenon DEF Pending
  <2>8. CallsFrom(stage, Pending) = 4
    BY <1>1, <2>7, CallsInOrder
  <2> QED
    BY <1>1, <2>1, <2>6, <2>8, Closer DEF GetPc
<1> QED
  BY <1>2, <1>3, <1>4 DEF CallRegOps, RegOps

\* So does the memory handler.
LEMMA CallMemOpsIsCloser ==
  ASSUME IInv, PcStands, TypeOK', ForwardOnly, CallMemOps
  PROVE  StepsLeft' \in 0 .. StepsLeft - 1
<1>1. /\ TypeOK /\ RegistersTypeOK /\ stage = "memops" /\ InArray
      /\ stage' = IF ret' < 0 THEN "report" ELSE "cntlflowops"
      /\ offset' = offset /\ Inst' = Inst /\ MemOps(Inst)
  BY DEF IInv, TypeOK, InProgram, CallMemOps, After, Inst
<1>2. CASE MemOpsNoMemory \/ MemOpsRefused(Inst)
  <2>1. ret' = -1 /\ pc' = pc
    BY <1>2 DEF MemOpsNoMemory, MemOpsRefused, Raise
  <2> QED
    BY <1>1, <2>1, RaisedIsCloser DEF GetPc
<1>3. CASE MemOpsStore(Inst) \/ MemOpsLoad(Inst)
  <2>1. Inst.inst_no \in MemInsts /\ SetPc(GetPc + 4)
    BY <1>3 DEF MemOpsStore, MemOpsLoad, Advance, MemInsts
  <2>2. PcInRange
    BY <1>1, <2>1 DEF PcStands
  <2>3. GetPc' > GetPc
    BY <1>1, <2>1, <2>2, ForwardInst, PcMovesOn, 4 \in Nat \ {0}
  <2> QED
    BY <1>1, <2>3, Closer
<1>4. CASE MemOpsOther(Inst)
  <2>1. ret' = 0 /\ pc' = pc /\ Inst.inst_no \notin MemInsts
    BY <1>4 DEF MemOpsOther, Leave
  <2>2. stage' = "cntlflowops"
    BY <1>1, <2>1
  <2>3. Pending' = Pending /\ Pending \in BOOLEAN
    BY <1>1, <2>1, <2>2 DEF Pending
  <2>4. /\ CallsFrom(stage, Pending) = IF Pending THEN 3 ELSE 8
        /\ CallsFrom(stage', Pending') = IF Pending THEN 2 ELSE 7
    BY <1>1, <2>2, <2>3, CallsInOrder
  <2> QED
    BY <1>1, <2>1, <2>4, Closer DEF GetPc
<1> QED
  BY <1>1, <1>2, <1>3, <1>4 DEF MemOps

\* And the control flow handler, whose transfers go forward.
LEMMA CallControlFlowOpsIsCloser ==
  ASSUME IInv, PcStands, TypeOK', ForwardOnly, CallControlFlowOps
  PROVE  StepsLeft' \in 0 .. StepsLeft - 1
<1>1. /\ TypeOK /\ RegistersTypeOK /\ stage = "cntlflowops" /\ InArray
      /\ stage' = IF ret' < 0 THEN "report" ELSE "print"
      /\ ControlFlowOps(Inst)
  BY DEF IInv, TypeOK, InProgram, CallControlFlowOps, After
<1>2. CASE ControlOther(Inst)
  <2>1. ret' = 0 /\ pc' = pc /\ Inst.inst_no \notin ControlInsts
    BY <1>2 DEF ControlOther, Leave
  <2>2. stage' = "print"
    BY <1>1, <2>1
  <2>3. Pending = FALSE /\ Pending' \in BOOLEAN
    BY <1>1, <2>1, Zenon DEF Pending
  <2>4. CallsFrom(stage, Pending) = 7 /\ CallsFrom(stage', Pending') = 6
    BY <1>1, <2>2, <2>3, CallsInOrder
  <2> QED
    BY <1>1, <2>1, <2>4, Closer DEF GetPc
<1>3. CASE ~ControlOther(Inst)
  <2>1. \/ SetPc(GetPc + 4) /\ Inst.inst_no \in ControlInsts
        \/ SetPc(GetPc + Inst.imm) /\ Inst.inst_no \in BranchInsts \cup {"JAL"}
        \/ Inst.inst_no = "JALR"
    <3>1. CASE ControlSet(Inst) \/ ControlAuipc(Inst)
      BY <3>1 DEF ControlSet, ControlAuipc, Advance, ControlInsts
    <3>2. CASE ControlBranch(Inst)
      BY <3>2 DEF ControlBranch, ControlInsts
    <3>3. CASE ControlJump(Inst)
      BY <3>3 DEF ControlJump, JumpTarget
    <3> QED
      BY <1>1, <1>3, <3>1, <3>2, <3>3 DEF ControlFlowOps
  <2>2. PcInRange
    <3>1. Inst.inst_no \in ControlInsts
      BY <2>1 DEF ControlInsts
    <3> QED
      BY <1>1, <3>1 DEF PcStands
  <2>3. GetPc' > GetPc
    BY <1>1, <2>1, <2>2, ForwardInst, PcMovesOn, 4 \in Nat \ {0}
  <2> QED
    BY <1>1, <2>3, Closer
<1> QED
  BY <1>2, <1>3

\* The calls the loop itself makes follow one another.
LEMMA LoopIsCloser ==
  ASSUME TypeOK, TypeOK', Fetch \/ DecodeBeyondArray \/ Report \/ PrintState
  PROVE  StepsLeft' \in 0 .. StepsLeft - 1
<1>1. Pending \in BOOLEAN /\ Pending' \in BOOLEAN
  BY Zenon DEF Pending
<1>2. /\ pc' = pc
      /\ \/ stage = "fetch" /\ stage' \in {"regops", "undefined"}
         \/ stage = "regops" /\ stage' = "undefined"
         \/ stage = "report" /\ stage' = "stopped"
         \/ stage = "print" /\ stage' = "fetch"
  BY DEF Fetch, DecodeBeyondArray, Report, PrintState
<1>3. CallsFrom(stage', Pending') < CallsFrom(stage, Pending)
  BY <1>1, <1>2, CallsInOrder
<1> QED
  BY <1>2, <1>3, Closer DEF GetPc

\* In a forward program every call of the loop counts: whatever the handlers
\* compute, a natural number decreases with each, for every program and header.
THEOREM ForwardProgramsMoveOn == Spec => EveryCallCounts
<1>1. IInv /\ PcStands /\ IInv' /\ [Next]_processorVars =>
        [ForwardOnly => StepsLeft' \in 0 .. StepsLeft - 1]_processorVars
  <2> SUFFICES ASSUME IInv, PcStands, IInv', Next, ForwardOnly
               PROVE  StepsLeft' \in 0 .. StepsLeft - 1
    OBVIOUS
  <2>1. TypeOK /\ TypeOK'
    BY DEF IInv
  <2> QED
    BY <2>1, CallRegOpsIsCloser, CallMemOpsIsCloser, CallControlFlowOpsIsCloser, LoopIsCloser
    DEF Next
<1> QED
  BY <1>1, ProcessorInvariant, PcStandsInvariant, PTL DEF Spec, EveryCallCounts
=============================================================================

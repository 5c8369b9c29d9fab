------------------------------- MODULE Memory -------------------------------
(***************************************************************************)
(* memory.c: the RAM and the handler of loads and stores,                  *)
(* processor_emulate_memops, with the call it makes to the cache.          *)
(***************************************************************************)
EXTENDS Registers, Cache

VARIABLES
  mem_ok,   \* memory_alloc did not return NULL
  ram,      \* mem->ram, the empty function when nothing was allocated
  size      \* mem->size

memVars == <<mem_ok, ram, size>>

\* memory_alloc(memory_sz): malloc may refuse any size (ok is FALSE).
MemoryInit(memory_sz, ok) ==
  /\ mem_ok = ok
  /\ size = IF ok THEN memory_sz ELSE 0
  /\ ram = [k \in 0 .. size - 1 |-> 0]

\* The effective address, the region of valid addresses, and the test on both
\* ends of an access of n bytes.  Each sum is checked for overflow: that of
\* the region saturates, that of the access refuses it.
EffectiveAddr(i) == Wrap(GetReg(i.rs1) + i.imm)
MinValidAddr == cfg.instr_upper
MaxValidAddr == IF cfg.instr_upper + cfg.memory_sz >= U64
                THEN U64 - 1 ELSE cfg.instr_upper + cfg.memory_sz

\* Bug: only the first byte is checked.
ValidStart(addr, n) == addr + n < U64 /\ addr >= MinValidAddr /\ addr < MaxValidAddr

ValidAccess(addr, n) ==
  /\ addr + n < U64
  /\ addr >= MinValidAddr
  /\ addr + n <= MaxValidAddr

RamIndex(addr) == addr - MinValidAddr

\* Bytes lie in the RAM as on the little-endian host the emulator runs on.
ByteOf(v, k) == (v \div U8 ^ k) % U8
Read1(k) == ram[k]
Read2(k) == Read1(k) + U8 * Read1(k + 1)
Read4(k) == Read2(k) + U16 * Read2(k + 2)
Read8(k) == Read4(k) + U32 * Read4(k + 4)

LoadedValue(op, k) ==
  CASE op = "LB"  -> Signed(Read1(k), U8)
    [] op = "LBU" -> Read1(k)
    [] op = "LH"  -> Signed(Read2(k), U16)
    [] op = "LHU" -> Read2(k)
    [] op = "LW"  -> Signed(Read4(k), U32)
    [] op = "LWU" -> Read4(k)
    [] op = "LD"  -> Read8(k)

Written(op, k, v) ==
  [j \in DOMAIN ram |-> IF j \in k .. k + AccessSize(op) - 1
                        THEN ByteOf(v, j - k) ELSE ram[j]]

-----------------------------------------------------------------------------
\* Without memory every instruction is refused here, whatever it is and
\* although the register handler has already executed it.
MemOpsNoMemory == ~mem_ok /\ Raise("UNKNOWN_SYSCALL") /\ UNCHANGED <<ram, cacheVars>>

MemOpsOther(i) ==
  mem_ok /\ i.inst_no \notin MemInsts /\ Leave(0) /\ UNCHANGED <<ram, cacheVars>>

\* A memory of no bytes has no ram pointer and refuses every access.
MemOpsRefused(i) ==
  /\ mem_ok
  /\ i.inst_no \in MemInsts
  /\ size = 0 \/ ~ValidAccess(EffectiveAddr(i), AccessSize(i.inst_no))
  /\ Raise("MEMORY")
  /\ UNCHANGED <<ram, cacheVars>>

MemOpsAllowed(i) ==
  /\ mem_ok
  /\ size > 0
  /\ ValidAccess(EffectiveAddr(i), AccessSize(i.inst_no))
  /\ CacheAccess(EffectiveAddr(i))

MemOpsStore(i) ==
  /\ i.inst_no \in StoreInsts
  /\ MemOpsAllowed(i)
  /\ ram' = Written(i.inst_no, RamIndex(EffectiveAddr(i)), GetReg(i.rd))
  /\ Advance
  /\ UNCHANGED regs

\* Bug: the early return of a load to x0 forgets the pc.
MemOpsLoadStuck(i) ==
  /\ i.inst_no \in LoadInsts
  /\ MemOpsAllowed(i)
  /\ SetReg(i.rd, LoadedValue(i.inst_no, RamIndex(EffectiveAddr(i))))
  /\ IF i.rd = 0 THEN ret' = 0 /\ UNCHANGED <<pc, e>> ELSE Advance
  /\ UNCHANGED ram

\* A load to x0 reads, discards and still advances the pc (SetReg ignores x0).
MemOpsLoad(i) ==
  /\ i.inst_no \in LoadInsts
  /\ MemOpsAllowed(i)
  /\ SetReg(i.rd, LoadedValue(i.inst_no, RamIndex(EffectiveAddr(i))))
  /\ Advance
  /\ UNCHANGED ram

\* processor_emulate_memops(p, i, &e)
MemOps(i) ==
  /\ \/ MemOpsNoMemory
     \/ MemOpsOther(i)
     \/ MemOpsRefused(i)
     \/ MemOpsStore(i)
     \/ MemOpsLoad(i)
  /\ UNCHANGED <<cfg, mem_ok, size>>


-----------------------------------------------------------------------------
\* The RAM holds bytes and is as large as the header asks, or absent.
MemoryTypeOK ==
  /\ mem_ok \in BOOLEAN
  /\ size = IF mem_ok THEN cfg.memory_sz ELSE 0
  /\ ram \in [0 .. size - 1 -> 0 .. U8 - 1]
=============================================================================

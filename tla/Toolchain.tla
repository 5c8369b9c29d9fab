------------------------------ MODULE Toolchain ------------------------------
(***************************************************************************)
(* The path of a program to the emulator: a file comes from obj_create.py  *)
(* or from elsewhere, and main loads it.  The file is the variable text.   *)
(***************************************************************************)
EXTENDS LoaderProperties, ObjCreate, Conformance

CONSTANT NoObject
ASSUME SourceAssumption == NoObject \notin Objects

toolchainVars == <<vars, converterVars>>

ToolchainInit ==
  /\ Start
  /\ \/ ConverterInit
     \/ /\ text \in Files /\ object = NoObject
        /\ conv = "written" /\ header = <<>> /\ body = <<>>

\* The build runs the emulator on the file once the converter has ended.
Load ==
  /\ conv \in ConversionEnds
  /\ Next
  /\ UNCHANGED converterVars

ToolchainNext ==
  \/ Convert /\ UNCHANGED loaderVars
  \/ Load

ToolchainSpec == ToolchainInit /\ [][ToolchainNext]_toolchainVars
                 /\ WF_toolchainVars(ToolchainNext)

-----------------------------------------------------------------------------
Converted == object \in Objects /\ conv = "written"

\* The instructions the emulator knows, with the registers there are.
Supported(code) ==
  /\ code # <<>>
  /\ \A k \in DOMAIN code :
       LET l == code[k].line IN Parses(l) /\ l = Canonical(Decode(l))

\* The two programs agree on the format: what the converter writes for a binary
\* of supported instructions is never refused, because of the way it is written
\* (no newline at the end, no 0x in numbers) nor what it says, and fits all buffers
\* unless it has numbers no binary has (obj_create.py:143-149 and main.c:73).
ConvertedObjectsLoad ==
  Converted /\ whole /\ Supported(object.code) =>
    /\ stage \notin {"parse error", "mismatch", "assert"}
    /\ stage = "undefined" => ~ShortNumbers

\* An address in a branch of the binary becomes a distance in the file and an
\* address again in the emulator, pc + offset: with the code at address 0, as
\* obj_create.py:14 assumes, a branch of the loaded program goes to the
\* instruction that the one in the binary named (obj_create.py:109-134).
AtZero == object.code # <<>> /\ object.spans[1].vaddr = 0 /\ object.code[1].addr = 0
TransfersReachTheirTargets ==
  stage = "emulate" /\ whole /\ Converted /\ AtZero =>
    \A k, j \in DOMAIN instrs :
      /\ instrs[k].inst.inst_no \in Transfers
      /\ Target(object.code[k].line) = object.code[j].addr
      => instrs[k].inst_addr + instrs[k].inst.imm = instrs[j].inst_addr

\* The data the binary reserves is memory in the emulator, which starts it at
\* the end of the code and takes the last number of the header for its size
\* (obj_create.py:71 and memory.c:145-151).
EmulatedMemory == cfg.instr_upper .. cfg.instr_upper + cfg.memory_sz - 1
ReservedMemory == LET bss == End(object.spans) IN bss.vaddr .. bss.vaddr + bss.memsz - 1
ReservedDataIsMemory ==
  stage = "emulate" /\ whole /\ Converted /\ Len(object.spans) = 2
  /\ object.spans[2].vaddr >= cfg.instr_upper
    => ReservedMemory \subseteq EmulatedMemory

\* A binary for the emulator: its first span starts at 0, is nothing but code
\* and leaves the last word of 32-bit addresses free, and with the data it is
\* within the address space; its instructions have encodings, none computes
\* where it goes or how far it shifts a word to the right, and they and the
\* start name addresses of four-byte instructions.
Emulable(o) ==
  /\ Len(o.spans) \in 1 .. 2
  /\ o.spans[1].vaddr = 0 /\ o.spans[1].memsz <= 4 * Len(o.code)
  /\ o.spans[1].memsz + 4 <= U32 /\ o.spans[1].memsz + UpperAddress(End(o.spans)) < U64
  /\ o.start < U32 /\ o.start % 4 = 0
  /\ \A k \in DOMAIN o.code :
       LET i == Decode(o.code[k].line) IN
       /\ Encodable(i, 32, 12) /\ Static(i)
       /\ i.inst_no \in Transfers => i.imm \in 0 .. U32 - 1 /\ i.imm % 4 = 0

\* Of such a binary the emulator gets an input on which it does what RV64I says:
\* the four numbers are the ones it takes them for, and every distance leads, by
\* whole instructions, to an address again, whatever else the file went through
\* (obj_create.py:109-149 and processor.c:22-30).
LoadedProgram == [k \in DOMAIN instrs |-> instrs[k].inst]
ConvertedBinariesConform ==
  stage = "emulate" /\ whole /\ Converted /\ Emulable(object) =>
    Honest(cfg, LoadedProgram) /\ StaticInput(cfg, LoadedProgram, 32, 12)

\* A conversion that fails or is timed out leaves a file, which the build hands
\* to the emulator all the same.  Of a failed one, and of a binary whose
\* instructions are not four bytes apart, where the numbering behind the distances
\* is wrong, nothing is ever run.  Of one that was timed out a beginning may be,
\* under the header of the whole, with no other instruction than the last
\* being cut (obj_create.py:64-66, 81-87, 147-154 and object_create/Makefile:62-66).
Gap(code) == \E k \in 2 .. Len(code) : code[k].addr - code[k - 1].addr # 4
OnlyConvertedCodeRuns ==
  object \in Objects /\ stage = "emulate" =>
    /\ conv # "failed" /\ ~Gap(object.code)
    /\ conv = "timed out" /\ whole =>
         /\ HeaderIs(FirstLine) /\ Len(instrs) <= Len(body)
         /\ \A k \in 1 .. Len(instrs) - 1 : Canonical(instrs[k].inst) = body[k]

\* The loops there are on the way of a program, from the converter to the
\* listing of differences, counted down to the end, and the turns the current
\* one has left at most.
LoopOf(c, s, who) ==
  CASE c = "addresses" -> 10
    [] c = "fixups" -> 9
    [] c = "output" -> 8
    [] c = "printed" -> 7
    [] c \in ConversionEnds /\ s = "read" -> 6
    [] s = "lines" -> IF who = "parser" THEN 5 ELSE IF who = "input" THEN 2 ELSE 1
    [] s = "parse" -> 4
    [] s = "stringify" -> 3
    [] s \in Ends -> 0
LoopsLeft == LoopOf(conv, stage, caller)
TurnsLeft ==
  CASE stage = "read"      -> Len(argv) + Remaining
    [] stage = "lines"     -> Len(src) - pos
    [] stage = "parse"     -> Len(out) - Len(instrs)
    [] stage = "stringify" -> Len(instrs) - Len(printed)
    [] stage \in Ends      -> 0

\* Every step brings loading closer to its end, whatever the file says and
\* however it is read: a turn of a loop leaves it fewer turns, although nobody has
\* checked what it goes through, and no loop is entered again, although the one
\* of lines is gone through for three strings (main.c:64, utilities.c:60 and
\* instructions.c:63).
EveryTurnCounts ==
  [][/\ TurnsLeft' \in Nat
     /\ \/ LoopsLeft' \in 0 .. LoopsLeft - 1
        \/ LoopsLeft' = LoopsLeft /\ TurnsLeft' < TurnsLeft]_toolchainVars

\* obj_create.py:52-53 calls the last number of the header the upper memory
\* address: the memory of the emulated program ends there.
MemoryEndsAtUpperAddress ==
  stage = "emulate" /\ Converted /\ whole => \A a \in EmulatedMemory : a < header[4]
=============================================================================

# RISC-V_Emulator: TLA+ models, model checking and proofs

The emulator (`src/src`, about 1500 lines of C) reads a textual RV64I program
with a four-number header, parses it, and executes it instruction by
instruction through three handlers over a register file, a byte-addressed RAM
and a simulated direct-mapped cache, printing state as it goes. A Python script,
`src/object_create/obj_create.py`, makes such programs of binaries. This directory
holds TLA+ modules of it, the TLC configurations that check them, and proofs
for TLAPS.

## Inventory

| Part | State | Operations | Interacts with |
|---|---|---|---|
| registers (`registers.c`) | 32 registers, pc | get/set register and pc; `processor_emulate_regops` | all handlers share the registers |
| memory (`memory.c`) | RAM pointer, size | `memory_alloc`; `processor_emulate_memops` | calls `cache_access` before touching the RAM |
| control flow (`control_flow.c`) | none of its own | `processor_emulate_cntlflowops` | registers and pc |
| cache (`cache.c`) | lines (valid, tag), two counters | `cache_allocate`, `cache_access`, `cache_statistics` | called by memory, printed with an exception |
| loop (`processor.c`) | local pc, offset, exception `e` | `processor_emulate` | calls the handlers in order, reports, prints |
| printing (`utilities.c`) | a static copy of the registers | `processor_registers_print`, `processor_print_exception`, formatting | reads everything |
| loading (`main.c`, `instructions_parse`, `lines`, `stringify_program`) | arguments, program buffer, array of line pointers, parsed array, printed program, configuration | parse the arguments, read in pieces, split, parse header and lines, print, compare, list the differences | calls `lines` three times; produces what the loop runs |
| object conversion (`object_create/obj_create.py` and its `Makefile`) | header, fixed lines, the output file | addresses, check of the numbering, fixups of branches, output; failures and a time limit | produces the loader's input |

There is one thread and no persistent state. What is hard here is different:
the *order* in which three independent handlers and the loop look at and change
the same registers during one pass; *error paths* that go on instead of
stopping; *stale* copies (the offset computed from a pc, the static copy of the
registers, a cache line that is zero but not valid); *widths* (64-bit words,
a 32-bit pc getter, sums that wrap); *termination* of a loop whose only
exits are exceptions; and a *text* that passes through six loops, each with its
own idea of what a line is, before anybody knows that it is a program. `PROJECT.json` lists each at its line, under "hazards",
with the property that covers it.

What makes each part correct: registers stay words and x0 stays 0; an access the
bounds check lets through lies in the RAM; an instruction takes effect once, in
one handler, completely or not at all, with the result RV64I gives; the cache
counters are a function of the sequence of accesses; the loop never decodes
anything but its program; what is printed is what changed; the loop stops. For
loading: only well-formed programs are run, as what they say, and all of them; the
others are refused with a reason and without a failed assertion; the buffers suffice,
and where the code does not achieve one of these it is known for which texts;
converter and loader agree on the format, and branches, data and failures survive
the way from a binary to the emulator.

## Modules

A state of `Processor` is a state of the emulator between two calls of the loop;
a state of `Loader` is one between two turns of one of its loops.

| Module | Models | Correspondence |
|---|---|---|
| `MachineWords` | `types.h` | a C integer type is its number of values (`U8` ... `U64`); conversions are `Wrap` and `Signed`; `&`, `\|`, `^` are parameters |
| `Instructions` | `instructions.h`, `imeta` | an instruction is a record; the union is flattened by position (`rd` also holds `ror.r2`, `rs1` also `ror.r1`) |
| `Registers` | `registers.c` | `RegOps(i)` is `processor_emulate_regops`, one disjunct per return |
| `ControlFlow` | `control_flow.c` | `ControlFlowOps(i)`, one disjunct per kind of instruction |
| `Memory` | `memory.c` | `MemOps(i)`, one disjunct per return; `MemoryInit` is `memory_alloc` |
| `Cache` | `cache.c` | `CacheAccess(addr)` is `cache_access`, hit, miss or no cache |
| `Processor` | `processor.c`, stateful printing | one action per call the loop makes; `stage` is the program counter of `processor_emulate` |
| `ISA` | the abstract RV64I machine | one action per instruction, full-width pc, memory as a function from addresses |
| `ProcessorImplementsISA` | | the refinement mapping from `Processor` to `ISA` |
| `Conformance` | | which configurations and programs the emulator does right by: the hypotheses about its input, shared by the two sides of the interface |
| `CacheSpec` | the abstract cache | a set of resident blocks; only misses evict, and only competitors |
| `CacheHistory` | the cache under any accesses | adds the trace of blocks, which no action reads, and the mapping to `CacheSpec` |
| `ProgramText` | lines and their conversions in `instructions.c` and `utilities.c` | a line as `sscanf` sees it; what parses, to which instruction, how that prints and in how many characters; what a cut or unterminated line can become |
| `Loader` | `main.c`, `instructions_parse`, `lines`, `stringify_program` | one action per turn of a loop and per piece of code between two loops; `stage` says which; `lines` is shared by its three callers as in the code, `caller` is the return address |
| `LoaderProperties` | | what loading has to achieve |
| `ObjCreate` | `obj_create.py`, the rule of the `Makefile` that runs it | one action per function and one for the exit that flushes the output, `Fail` for every early exit, `TimeOut` for the build's limit |
| `Toolchain` | the build from a binary to the emulator | composes `ObjCreate` and `Loader` over the file, the variable `text`, and has the properties that relate the two |
| `MC_Cache`, `MC_Programs`, `MC_Isa`, `MC_Tests`, `MC_Toolchain` | | instances for TLC |
| `WordAssumptions` | | what proofs assume of the bitwise operators and of powers |
| `Residues`, `CacheLemmas`, `HandlerLemmas` | | lemmas: division with remainder, the cache, the three handlers |
| `Cache_proofs`, `Processor_proofs`, `ProcessorImplementsISA_proofs`, `Loader_proofs`, `Toolchain_proofs` | | theorems, one module for each specification |

`Loader` and `Processor` meet in their types: what `LoaderTypeOK` says of `cfg` and
`instrs` is what `InputAssumption` in `Processor` asks of its inputs. The header
may name any range of addresses, as there. What `InputAssumption` does not ask, a
header that fits the program and instructions on which the emulator is RV64I, is
in `Conformance`: `Processor` and `ProcessorImplementsISA` assume it, `Toolchain`
shows that converted binaries have it.

Definitions marked `bug` in a comment (`HalfBlockOf`, `ValidStart`, ...) belong
to no behaviour of the model. Each is a plausible mistake in the definition it
stands beside; replacing that definition by it makes TLC refute the property
named with it in `PROJECT.json`, which shows that the property depends on the
code being right.

### Modelling decisions

* **Widths.** The proofs are for every width that satisfies `WidthAssumption`
  (a 64-bit word is two ints, an int two halves, a half two bytes). TLC runs
  with bytes of one or two bits, which keep the proportions and make the
  overflows and sign bits reachable. Bytes of two bits make a word of 16, which
  is what `programs` needs for the pc, an `unsigned int` of 8 bits, to be able to
  reach the end of every program.
* **Undefined behaviour.** The 32-bit additions and the shift of a negative
  `s32_t` are modelled as what gcc's build (`-O3`) does: wrap-around. Reading
  outside the instruction array has no defined outcome; it leads to the stage
  `undefined`, from which nothing is claimed. Fetch may also survive printing
  through such a pointer, as the array lies within other heap memory.
* **`e`** starts as `NoException`, a value no handler writes, so that a report
  of the uninitialised local would violate `TypeOK`.
* **Failing allocations.** `memory_alloc` may return NULL (`HostMemory`), and
  the loop then runs with a NULL memory as the code does. Failing allocations
  of the processor (an assertion), of the registers and of the cache lines in
  `Processor` are left out; `CacheHistory` has the last one.
* **Lines.** A text is a sequence of lines, and a line has its first word, the
  numbers that can be converted from it, and a flag `exact`: whether it is spelt as
  the emulator itself would print these. Everything the parser and the comparison
  do is a function of the three. A text that ends with a newline ends with the line
  `Blank`. Numbers that do not fit the types of `sscanf` and words longer than the
  parser's word buffer are left out; a digit that is one too many for a long gives
  the longest one (`LongMax`, which TLC gives a value its own integers have room for).
* **Reading.** `read` returns any number of lines up to the end of the file or of
  the buffer, or fails. A piece that ends inside a line would not differ, because
  the pieces are joined before anything looks at them. The buffer's size is counted
  in lines, `Capacity`; a file that does not fit may be cut anywhere inside the last
  of them (`Cuts`: no word, fewer numbers, a number without its last digits).
* **The missing NUL.** The string the parser sees may go on with what the stack
  holds: another digit, characters `sscanf` ignores, another word, another line
  (`Unterminated`). What is left out is a stack that happens to hold a valid
  instruction or header. `whole` records whether the parser saw the file and
  nothing else.
* **Failing allocations of the loader.** The parser tests its arrays ("no memory");
  other allocations of loading are not tested by the code and taken to succeed.
* **The print buffer.** `PrintedWidth` counts the characters of any long. A print
  that goes beyond the buffer may find room there or ruin what the allocator keeps
  behind it: loading then goes on or ends `undefined`.
* **A program of no instructions.** `stringify_program` returns a block nobody has
  written, with which `main` compares the empty rest of the program. Its contents
  decide: an empty string is equal, and the program is emulated; any other is
  split for the listing, where the numbers of lines differ and an assertion fails, or
  do not. A header without even a newline fails the assertion of
  `find_instructions`. `StringifyNothing` has all of these.
* **A time-out of the converter.** What Python prints to a file is buffered, and
  written at the exit at the latest (`Exit`). Until then the file may hold nothing,
  any beginning of the output, a line cut in the middle included, or all of it
  (`Beginnings`, `Written`), and `TimeOut` keeps it, as the rule does.
* **Code without empty lines.** The `awk` between objdump and the converter prints
  none, and `ObjectAssumption` says so.
* **Bound.** `MaxAccesses` bounds the cache counters and nothing else: no
  instance reaches it in a program that TLC needs to run to its end.

## Runs

| Run | Instance | Shows |
|---|---|---|
| `cache` | 6 addresses in 5 blocks, 0-8 sets, six accesses | `StatisticsOfTrace`: counters equal those computed from the whole trace; `MoreSetsNeverMissMore`; `RefinesPromise`; `TagsInOwnSet`; types |
| `programs` | 17 instructions, all programs of length 1-3, four headers, memory allocated or not, words of 16 bits (329 326 states) | `DecodesOnlyTheProgram`, `AcceptedAccessStaysInRam`, `PrintShowsEveryChange`, `ReportsTheException`, `TypeOK`; `EveryCallCounts`, and `ForwardProgramsStop` under fairness |
| `isa` | every instruction on 12 x 12 corner operands, branches, jumps, overlapping stores and loads, system calls (177 567 states) | `ImplementsISA`, `ConformingPcIsKept` |
| `tests` | six programs of `tests/archobjs` with 8 and 4 sets | `StatisticsAsExpected`, `TestsExit` |
| `toolchain` | texts of up to four lines over one line of every format and every fault, numbers of nine to eleven characters, 33 binaries, with and without a time-out at every step, with and without arguments, a buffer of four lines (277 422 states) | `RunsExactlyTheProgramFiles`, `EmulatesWhatIsWritten`; no assertion, bad free or overrun except as stated (`SeparatedLinesNeverAssert`, `FreeLinesFreesTheCopy`, `StringifyFits`); `OnlyTrailingNewlineUnexplained`; between converter and loader `ConvertedObjectsLoad`, `TransfersReachTheirTargets`, `ReservedDataIsMemory`, `OnlyConvertedCodeRuns`, `ConvertedBinariesConform`; types; `EveryTurnCounts`, and `LoadingEnds` under fairness |
| `double_report`, `pc_truncated`, `misaligned_pc`, `upper_immediate`, `cut_program`, `wide_immediate`, `memory_size` | small | violations, below |

*Why the bounds are enough.* Cache: two blocks of one set and a third of another
give every eviction pattern, and six accesses let a block be brought in, evicted
and brought back while its competitor stays; the sizes include 3, which is no
power of two, and the chain 1, 2, 4, 8 for inclusion. Programs: three
instructions are enough to set a register, use it in a jump or an address, and
see the next pass; forward programs execute up to three instructions in as many
passes before they leave, over forward branches and jumps of different length, and
loads, stores and computations in between; the palette holds one instruction of every kind of
return of the three handlers, and the headers one honest, one longer than the
program, one without memory, cache and printing, and one whose memory runs over
the end of the address space. ISA: the operands are both sides of each sign bit
and shift amounts around both widths; the memory program overlaps two stores and
a load across every edge of the RAM. Tests run to their end. Toolchain: a header
and three lines are enough for an empty line before, between and behind others, for
a fault in the first and in a later instruction, and for two instructions that
print right before one that does not; the numbers have the nine characters the
print buffer reckons with, ten with a digit of the stack behind them, and eleven,
alone or before an instruction that makes room again. Converted programs of seven lines do not fit the
buffer of four, and are cut. The binaries have code at 0 and elsewhere, forward and
backward branches, no data, data behind a gap, too many spans, none, no code at all,
code with a gap and code the emulator does not know.

*Widths in the runs.* `MC_Toolchain` extends `WordAssumptions`, so that TLC evaluates
what the proofs assume of the bitwise operators and of powers, on words of 8 bits,
which is as far as a quantifier over pairs of words goes in a short time.

*Fairness.* `FairSpec` is weak fairness of the whole `Next`, and `ToolchainSpec` of
the whole `ToolchainNext`: one thread, or a chain of programs each of which the
build starts when the last has ended, and which makes a step if there is one to
make. Nothing else is assumed; in particular no action is preferred to another, and
`read` may always return a single line. `CHECK_DEADLOCK FALSE` is set because a run of the emulator
ends (stages `stopped` and `undefined`, and in `cache` the end of the bounded
trace), and so does loading (the stages `Ends`).

### Findings

* `double_report`: for a pc outside the program the loop reports the exception
  and goes on (`processor.c:21-23`); the register handler then raises it again.
  `processor.h:57-60` says that the emulator prints an error and exits.
  `ReportsTheException` shows that nothing else is reported twice, and nothing lost.
* `pc_truncated`: `registers_getpc` returns an `unsigned int`, so that a jump
  to 2^32 or above continues at the address modulo 2^32 instead of ending with
  an instruction exception (`registers.c:98`, `registers.h:57-63`).
* `misaligned_pc`: a jump to the middle of an instruction executes the
  instruction it points into; neither the loop nor the handler checks the
  remainder (`processor.c:24`).
* `upper_immediate`: LUI and AUIPC with the top bit of the immediate set, and
  SRLW and SRLIW by zero of a negative word, give a result that is not
  sign-extended, unlike RV64I (`registers.c:256-281`, `control_flow.c:162`). The
  run shows LUI; the operands of all four are kept out of the run `isa`, which
  says so.
* `cut_program`: a program longer than the buffer is silently cut, and what is left
  is run if it is a program, which it may be even after a cut inside a number
  (`main.c:64`; `main.c:63` says "Read in the program").
* `wide_immediate`: the comment on the print buffer reckons with nine characters for
  a 32-bit immediate (`utilities.c:253`), and forgets the NUL. A number of 32 bits
  has up to eleven: `sltiu x31,x30,-2147483647` needs 27 characters and has
  26 (`utilities.c:256-258`). `StringifyFits` shows that everything fits up to ten
  characters for each number, and `ElevenCharactersOverrun` that this is the limit.
* `memory_size`: the last number of the header is the upper memory address for the
  converter (`obj_create.py:52-53`) and the size of the memory for the emulator,
  whose memory therefore goes on behind that address by the size of the code
  (`memory.c:145-146`). `ReservedDataIsMemory` shows that the disagreement is on the
  safe side: what the binary reserves is always there.

Short of a finding is what two properties have to leave out. A program file with a newline
at its end is refused under the heading "Differences:" with none listed
(`OnlyTrailingNewlineUnexplained`; `main.c:73-86` compares whole strings and lists
lines). A file of a header and a newline may be run or fail an assertion
(`RunsExactlyTheProgramFiles`, `SeparatedLinesNeverAssert`), as `malloc(0)` has it.

## Proofs

TLAPS checks every theorem for all values of the constants: all programs,
headers, register counts, block sizes and word widths allowed by the named
assumptions (`WidthAssumption`, `RegisterAssumption`, `CacheAssumption`,
`InputAssumption`, `DriverAssumption`, `BitwiseAssumption`, `PowerAssumption`,
`LongAssumption`, `LoaderAssumption`, `ObjectAssumption`, `SourceAssumption`), which TLC evaluates on
every instance. All of them hold of the real widths; the bitwise ones say no more
than that `&`, `|` and `^` of two words are words. `Residues` has what the proofs
need of `%` and `\div`, because conversions of C are remainders here.

*Cache* (`Cache_proofs`). The inductive invariant is `CacheTypeOK /\
TagsInOwnSet`. The second part is needed for the refinement: only if the line of
a set holds a block of that set does "the tag in my line is my block" mean "my
block is in the cache", and does a miss evict exactly the competitor. Theorems:
`CacheTypeCorrect`, `TagsStayInOwnSet`, `CacheKeepsPromise` (initial states map
to initial states, a call maps to a step of `CacheSpec` or to a stutter).

The counters need more: `StatisticsOfTrace` says nothing of the lines, and the
next access hits or misses according to them. `StatisticsInv` adds
`LineKnowsTrace`: a valid line holds the block that was accessed last in its
set, and of the set of an invalid line no block has been accessed. Then a hit in
the array is a hit in the trace (`ResidentIsHit`), whether an access in the past hit
is settled (`PastIsSettled`), and the number of misses grows by one or not
(`MissesGrow`), which gives `StatisticsAreRight` without induction over the
sequence: the steps of the cache are the induction. `MoreSetsAreNoWorse` follows from
the statistics and from arithmetic alone: blocks that agree modulo n agree
modulo a divisor of n, so that what hits with fewer sets hits with more
(`MoreSetsKeepHits`), and the set of misses shrinks.

*Loop* (`Processor_proofs`). None of the properties is inductive. `IInv` is
`TypeOK /\ TagsInOwnSet` and three facts about an instruction under way:

* `OffsetOfPc`: before the register handler is called, the offset the loop
  computed is that of the pc the handler will test. With `HonestHeader` this
  gives `DecodesOnlyTheProgram`.
* `InProgram`: behind the register handler the offset is in the array, because
  that handler lets nothing else pass. It makes the record the other handlers
  are given an instruction, on which their type lemmas rest.
* `PrintInv`: at each stage at most one register differs from the printed copy,
  and none unless a handler called so far owns the instruction. The sets of
  instructions of the three handlers are disjoint; that is what makes the early
  return of `processor_registers_print` harmless.

Each action has its lemma; `ProcessorInvariant` combines them, and
`ProcessorTypeCorrect`, `OnlyTheProgramIsDecoded`, `AccessesStayInRam` and
`PrintIsComplete` follow. `PcStandsInvariant` adds `PcStands`: until the handler
that recognises an instruction has run, the pc is in range and the offset is its
own, as the handlers before have left both alone. The lemmas on the handlers (`HandlerLemmas`) say that every value computed is an integer that
`registers_setreg` turns into a word, and that the bounds check, whose two sums
may wrap, keeps an access inside the RAM (`AccessInRam`).

Two theorems are about the end of a run. `ReportsAreExact` (`ReportsTheException`)
needs `ReportsInv`, which follows the reports through a pass: there are none, or one
of the loop's own, made for a pc that is still out of range and that the register
handler, the next to be called, will refuse again. `ForwardProgramsMoveOn`
(`EveryCallCounts`) is the safety half of `ForwardProgramsStop`: the natural number
`StepsLeft` gets smaller with every call. It weighs the addresses ahead of the pc by
nine, more than a pass has calls, so that a pass that has moved the pc on may
count its calls anew; `Pending` says whether it has. `RaisedIsCloser` and
`PcMovesOn` show that no handler that recognises the instruction returns without
raising an exception or moving the pc on, and `PcStands` that at most one
does.

*The instruction set* (`ProcessorImplementsISA_proofs`). The loop is not RV64I for
every input, as the findings show, so the theorem says for which it is.
`Conforms` is a predicate on states, each conjunct of which excludes one difference:

* `ProgramConforms`: the immediate of LUI or AUIPC fits an int (else the sign is
  not extended), and the register numbers are below `NumRegs`, as the parser makes
  sure;
* `HeaderConforms`: the memory ends below the last address of the address space,
  where the sum of the bounds check would wrap around;
* `PcConforms`: the pc fits the `unsigned int` it is read as, and is not inside an
  instruction;
* `ShiftConforms`: SRLW and SRLIW do not shift a negative int by zero.

`ConformingRunsImplementISA` is `Spec /\ []Conforms => ImplementsISA`: as long as
these hold every step of the loop is a step of `ISA` or a stutter, for all programs,
headers, hosts, register counts and widths, with or without a cache. There are
therefore no other differences. `ConformingInputsImplementISA` draws the same
conclusion from the input alone: `StaticallyConforms` asks that the program has no
computed jump (JALR) and no SRLW, that its transfers are by whole instructions and
stay below 2^32; it is then an invariant that the pc is aligned, and `Conforms` follows.
Several inputs of the run `isa` are such. SRLIW must not shift by zero there, either.
On these inputs the loop also does what `pc_truncated` and `misaligned_pc` show that
it does not do in general (`ConformingPcIsKept`, `ConformingInputsKeepThePc`): the
pc it tests is the pc, and the instruction it executes is the one at that address.

`HonestHeader` and `StaticallyConforms` are `Honest` and `StaticInput` of
`Conformance`, which is where the way of a program to the emulator ends, below.

The proof has two layers. Value lemmas show that the C expressions, with their casts
and signed remainders, compute what the ISA computes on words: `AluIsIsa`
(all register instructions), `SetIsIsa`, `BranchIsIsa`, `UpperIsIsa`, `LoadIsIsa` and
`StoreIsIsa` (the bytes written one by one are those of the word, and read back
as a running sum they are its value, `ReadsAreValues`), `AccessibleIsValid` (the
two bounds checks agree), `EvenTarget`. Then each action is a step: the loop's own
actions stutter, and of the three handlers exactly one acts, which needs `PcStands`.

*Loading* (`Loader_proofs`). The conversions of one line are in the
lemma `ParsedLine`: a line that parses becomes an instruction with existing
registers, whose printed form is the line again if and only if the line was exact
and had no further numbers, and has at most 25 characters if its number has at most
ten. With eleven it may have more, whatever the width of the word:
`ElevenCharactersOverrun`. The inductive invariant
`LoaderInv` follows the text through the loops:

* `ReadInv`: the buffer is a beginning of the file, and the file once `whole` is
  settled; the first word of the file is that of the buffer, unless it was cut or
  lengthened to something that is no header (`WordOf`).
* `LinesInv`: the pointers `lines` has stored lie at or behind their own number, and
  either no line was left out or an empty one precedes. When as many are found as
  were counted they are therefore exactly the lines 1, 2, 3, ... (`AllLinesFound`).
  That is the argument that makes counting newlines and skipping empty lines, which
  disagree, harmless up to the assertion.
* `CallInv`: which string each of the three calls of `lines` splits.
* `ParseInv`, `PrintedInv`: the configuration has the numbers of the first line
  (`HeaderIs`), instruction k comes from line k + 1, and printed line k from
  instruction k.
* `EndInv`: what the comparison has established for each way loading ends: with
  instructions, that what runs prints as it was written; without, that there was a
  header and nothing else; and that printing leaves its buffer for a long number only.

Each action has a lemma, `LoaderStep` combines them, and `LoaderInvariant` is the
theorem for the loader on its own.

*The whole way* (`Toolchain_proofs`). `ConverterInv` says what each stage of the
conversion has established (`HeaderMade`, `BodyMade`), which of this is in the file
when it fails, is timed out or ends, and that the loader has not begun before,
which is why the converter's changes to the file keep `LoaderInv`
(`NotYetRead`). From `ToolchainInvariant` follow `LoaderTypeCorrect`,
`ExactlyTheProgramFilesRun`, `TheProgramIsRun` (with `WrapOfSum` for the addresses),
`OnlyEmptyLinesAssert`, `RefusalsAreExplained`, `CopiesAreFreed`, `PrintingFits`,
`ConverterAndLoaderAgree` (a fixup never touches a register number) and
`OnlyConvertedCodeIsRun`. The last needs that a beginning of a text has the lines of
the text, but for the last (`BeginningOfText`), and that nothing is run of one that
has lost its header (`ReadInv`); then what is run are the first instructions of the
converter, the last of them perhaps cut (`BeginningRuns`).

The two properties about addresses hold as long as these do not wrap around the
word, and the theorems say so: `InAddressSpace` asks that the addresses of the code
and the ends of the load spans are below 2^64, which holds for every ELF64 file that
can be loaded. `ReservedDataIsEmulated` compares the header's numbers with what the
emulator makes of them. For `TransfersArrive` the converter's check of adjacent
addresses has to give the address of every instruction (`AddressesOfCode`), an
induction, done with the smallest counterexample (`SmallestNumber`, from the
well-foundedness of the natural numbers); then the fixup, the printed form
(`PrintedTarget`) and the address the parser assigns cancel out.

`ConvertedBinariesAreEmulated` closes the chain. `Emulable` is a predicate of the
binary alone: code from 0 on, in whole instructions that have encodings, name their
targets and are neither JALR nor SRLW, that fills its span and ends within 32 bits. What converter and loader
make of such a binary satisfies `Honest` and `StaticInput`, with the 32 registers and
the shift by 12 of the C code, so that with `ConformingInputsImplementISA` the
emulator executes what was converted as RV64I does, and with
`OnlyTheProgramIsDecoded` never anything else. It rests on `LoadedCode` (the loaded
instructions are the fixed lines of the binary, in order), `LoadedIsFixed` (of the
instruction the binary has, only the distance is different) and the numbers
of the header, which `ConverterInv` and `HeaderIs` carry from the spans to `cfg`. The two
theorems are about different specifications, and the prover does not compose them;
they share the operators of `Conformance` for that reason.

Loading ends for a reason as well. `LoadingMovesOn` (`EveryTurnCounts`): each step of
the whole way either enters a later loop (`LoopsLeft`) or leaves the current one
fewer turns (`TurnsLeft`). That `lines` is one loop with three callers is why `caller`
is part of the measure, and `CallInv` and `PrintedInv` are why the turns are natural
numbers. `LoadingDescends` states it without arithmetic: every step that is no
stutter descends in the lexicographic order on the two, which is
well-founded (`WFLexPairOrdering`).

*Only model-checked.* Liveness (`ForwardProgramsStop`, `TestsExit`, `LoadingEnds`),
because the prover has no ENABLED: of the first and the last it is proved that every
step descends, and left to TLC that there is a step until the end. And
`StatisticsAsExpected`, which is about six
particular programs and their expected outputs. `ImplementsISA` is checked without the
hypothesis of its theorems, on inputs that satisfy it; outside of it the run
`upper_immediate` shows that it fails, and `pc_truncated` and `misaligned_pc` show
a loop that goes on at an instruction other than the one the pc names. `HalfBlockOf` and the other definitions marked `bug` are for TLC only.

## Not modelled

Pure formatting in `utilities.c`, the start-up code,
linker script, build files and `run_tests.sh`: no state of the emulator. The
prebuilt objects and the binary `r5emu`, the PDF under `specs`, and the test
programs `41_eviction` (more memory than the scaled words address) and
`53_mult_slower` (`52_multiple` with more turns).

## Plan

Written in this order, most important first; 1 to 11 are done.

1. `Cache` with `CacheSpec`, and its proofs.
2. `Registers`, `ControlFlow`, `Memory` and `Processor`; safety of the loop.
3. `ISA` and the refinement, checked.
4. The repository's tests as a run.
5. Proofs of the loop's invariants.
6. `ProgramText` and `Loader`: splitting, parsing with every early return, the
   round-trip comparison and its diagnostics; which texts reach the loop, and
   that those that do satisfy `InputAssumption`; its invariant proved.
7. `ObjCreate` and `Toolchain`: the header addresses, the fixups and the failures,
   and that the pair of programs agrees; the composition proved.
8. The refinement to `ISA` proved for every program, and the differences between
   the emulator and RV64I enumerated by it.
9. The statistics of the cache, the inclusion of larger caches, and the addresses
   of converted programs, proved.
10. What liveness rests on, as action properties: a measure that every call in a
    program without backward transfers, and every turn of a loop on the way to the
    emulator, decreases; proved.
11. The interface of the two halves, `Conformance`, and that converted binaries have
    what the emulator assumes; proved.
12. The return codes of the handlers against `processor.h:110-112` (the memory and
    control flow handlers answer 0 for instructions they did not execute).

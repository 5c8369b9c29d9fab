--------------------------- MODULE LoaderProperties ---------------------------
(***************************************************************************)
(* What the loading of a program has to achieve.                           *)
(***************************************************************************)
EXTENDS Loader

LoadedInstruction == [inst : Instruction, inst_addr : Word]

\* Whatever text is given, main hands the emulator only a configuration and
\* instructions of the types the emulator relies on (the assumption on Inputs
\* in Processor.tla), registers 0 to 31 included, and the pointers lines
\* fills in point to lines that are not empty (main.c:90-91).
LoaderTypeOK ==
  /\ stage \in Stages
  /\ argv \in Seq(Argument)
  /\ cfg \in Configuration
  /\ program \in Seq(Line) /\ src \in Seq(Line)
  /\ caller \in {"parser", "input", "output"}
  /\ pos \in 0 .. Len(src)
  /\ out \in Seq(1 .. Len(src)) /\ \A k \in DOMAIN out : src[out[k]] # Blank
  /\ instrs \in Seq(LoadedInstruction)
  /\ \A k \in DOMAIN instrs :
       LET i == instrs[k].inst IN i.rd <= 31 /\ i.rs1 <= 31 /\ i.rs2 <= 31
  /\ printed \in Seq(Line)
  /\ off \in Nat
  /\ inlines \in Seq(Line)
  /\ shown \subseteq Nat
  /\ whole \in BOOLEAN

\* A program file: a header, and at least one line that is a valid instruction
\* in its printed form, with no newline behind the last.
WellFormed(t) ==
  /\ Len(t) > 1
  /\ ParsesHeader(t[1])
  /\ \A k \in 2 .. Len(t) :
       /\ t[k].word \in InstNo /\ t[k].exact /\ Len(t[k].args) = Arity(t[k].word)
       /\ \A j \in RegisterArgs(t[k].word) : t[k].args[j] >= 0 /\ t[k].args[j] < 32

\* A header and its newline, and nothing else.
HeaderOnly(t) == Len(t) = 2 /\ ParsesHeader(t[1]) /\ t[2] = Blank

\* The numbers of the instructions take at most ten characters.
ShortNumbers == \A k \in DOMAIN instrs : Width(instrs[k].inst.imm) <= 10

\* However the operating system cuts the file into pieces, of the files that fit
\* the buffer and are followed by a NUL only program files are run, and all of
\* them unless a number is so long that printing leaves its buffer; no step
\* between reading and comparing loses, adds or misjudges a line.  The exception
\* is a header with nothing behind it, which the comparison with a string nobody
\* has written may let through (main.c:63-88).
RunsExactlyTheProgramFiles ==
  whole /\ stage \in Ends \ {"read error", "no memory"} =>
    /\ stage = "emulate" => WellFormed(text) \/ HeaderOnly(text)
    /\ WellFormed(text) => stage = "emulate" \/ (stage = "undefined" /\ ~ShortNumbers)

\* The configuration has the four numbers of a header.
HeaderIs(l) ==
  /\ cfg.instr_lower = Wrap(l.args[1]) /\ cfg.instr_upper = Wrap(l.args[2])
  /\ cfg.entry_address = Wrap(l.args[3]) /\ cfg.memory_sz = Wrap(l.args[4])

\* What is then run is what the file says: instruction k prints as line k
\* after the header and carries the address it will have, four bytes apart
\* from the lower bound, and the parser and the command line, which fill the
\* same structure, have left each other's fields alone (main.c:50-61 and
\* instructions.c:40-87).
EmulatesWhatIsWritten ==
  stage = "emulate" /\ whole =>
    /\ IF HeaderOnly(text) THEN instrs = <<>> ELSE Len(instrs) = Len(text) - 1
    /\ \A k \in DOMAIN instrs :
         /\ Canonical(instrs[k].inst) = text[k + 1]
         /\ instrs[k].inst_addr = Wrap(text[1].args[1] + 4 * k - 4)
    /\ HeaderIs(text[1])

\* lines counts newlines and strtok_r skips empty lines, and main asserts that
\* the two listings are equally long.  Only an empty line before the end, or a
\* header without an instruction, with or without a newline, makes any of the
\* three assertions fail (utilities.c:64, main.c:24, main.c:79).
SeparatedLinesNeverAssert ==
  stage = "assert" =>
    \/ Len(program) = 1
    \/ HeaderOnly(program)
    \/ \E k \in 1 .. Len(program) - 1 : program[k] = Blank

\* free_lines frees the copy of the text through the pointer to its first
\* line.  That is the start of the copy only because a leading newline, which
\* strtok_r would skip, has made lines fail before (utilities.c:74-81).
FreeLinesFreesTheCopy ==
  stage = "parse" \/ (LinesDone("parser") /\ out # <<>>) => out[1] = 1

\* What has been printed fits the buffer together with its NUL as long as no
\* number takes more than ten characters, one more than the comment on the
\* maximum instruction size reckons with although it forgets the NUL and the
\* parentheses: no instruction has three registers as well as a number, and
\* those with parentheses have short names (utilities.c:246-283).
StringifyFits == ShortNumbers /\ printed # <<>> => off + 1 <= StringSize

\* A program that parses and does not print as it was written is refused with
\* the lines that differ, unless the only difference is a newline at the end
\* (main.c:77-86).
OnlyTrailingNewlineUnexplained ==
  stage = "mismatch" /\ shown = {} => End(program) = Blank

\* Loading ends: each of its loops moves on, whatever the text (the loops at
\* main.c:64, utilities.c:60 and instructions.c:63).
LoadingEnds == <>(stage \in Ends)

\* main.c:63 says that the loop reads in the program, and instructions.h:157
\* that the parser is given the null-terminated text of the program: what is
\* run is what the file says.
RunsTheWholeFile ==
  stage = "emulate" => Tail(program) = Tail(text)

\* utilities.c:253 reckons with 9 characters for a 32 bit immediate: with these
\* the maximum instruction size is enough.
Is32Bit(n) == -2147483647 - 1 <= n /\ n <= 2147483647
WideImmediatesFit ==
  (\A k \in DOMAIN instrs : Is32Bit(instrs[k].inst.imm)) /\ printed # <<>> =>
    off + 1 <= StringSize
=============================================================================

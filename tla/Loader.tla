------------------------------- MODULE Loader -------------------------------
(***************************************************************************)
(* main.c up to the call of the emulator: the arguments, the loop that     *)
(* reads the program, instructions_parse with the function lines it calls, *)
(* and the check that the instructions print as the text they came from,   *)
(* with its diagnostics.                                                   *)
(*                                                                         *)
(* Each action is one turn of a loop or the code between two loops; stage  *)
(* says which loop main is in, or how it ended.                            *)
(***************************************************************************)
EXTENDS ProgramText

CONSTANTS
  Files,       \* the texts that may be given on standard input
  Commands,    \* command lines: sequences of Argument
  Capacity     \* PROG_SZ_MAX, in lines: the last of so many may be cut

Argument == [flag : {"--no-print-instr", "--no-print-regs", "--cache-values", "other"},
             sets : Nat]

ASSUME LoaderAssumption ==
  /\ Files \subseteq Text
  /\ Commands \subseteq Seq(Argument)
  /\ Capacity \in Nat \ {0}

VARIABLES
  stage,      \* where main is
  argv,       \* arguments not yet looked at
  cfg,        \* the configuration
  program,    \* the buffer; from the end of the reading on, the string in it
  src,        \* the string that lines was called with
  caller,     \* by whom: the parser, or main for one of the two listings
  pos,        \* strtok_r's position in the copy of src
  out,        \* the array of pointers lines fills: positions of lines in src
  instrs,     \* the instructions parsed so far, with their addresses
  printed,    \* what stringify_program has written so far
  off,        \* how many characters that is
  inlines,    \* the lines of the input in the listing of differences
  shown,      \* the numbers of the lines listed as different
  whole       \* history: the parser was given the file and nothing else

loaderVars == <<stage, argv, cfg, program, src, caller, pos, out,
                instrs, printed, off, inlines, shown, whole>>
parserVars == <<argv, cfg, program, instrs, printed, off, inlines, shown, whole>>

Ends == {"emulate", "read error", "parse error", "no memory",
         "mismatch", "assert", "undefined"}
Stages == {"read", "lines", "parse", "stringify"} \cup Ends

DefaultConfiguration ==
  [instr_lower |-> 0, instr_upper |-> 0, entry_address |-> 0, memory_sz |-> 0,
   cache_sets |-> 1, print_instrs |-> TRUE, print_regs |-> TRUE]

\* main with a program file on its standard input.
Start ==
  /\ stage = "read" /\ argv \in Commands /\ cfg = DefaultConfiguration
  /\ program = <<>> /\ src = <<>> /\ caller = "parser" /\ pos = 0 /\ out = <<>>
  /\ instrs = <<>> /\ printed = <<>> /\ off = 0 /\ inlines = <<>> /\ shown = {}
  /\ whole = TRUE
Init == text \in Files /\ Start

-----------------------------------------------------------------------------
\* The loop over the arguments: switches, and the last --cache-values wins.
ParseArgument ==
  /\ stage = "read" /\ argv # <<>>
  /\ LET a == Head(argv) IN
     cfg' = [cfg EXCEPT !.print_instrs = @ /\ a.flag # "--no-print-instr",
                        !.print_regs = @ /\ a.flag # "--no-print-regs",
                        !.cache_sets = IF a.flag = "--cache-values" THEN a.sets ELSE @]
  /\ argv' = Tail(argv)
  /\ UNCHANGED <<text, stage, program, src, caller, pos, out,
                 instrs, printed, off, inlines, shown, whole>>

\* read returns as much as it likes of what is left and fits.  The pieces are
\* joined, so that it does not matter whether they end with a line.
Remaining == Len(text) - Len(program)
AppendFromStart(n) == program \o SubSeq(text, 1, n)      \* bug: not where it stopped
AppendPiece(n) == program \o SubSeq(text, Len(program) + 1, Len(program) + n)
Read ==
  /\ stage = "read" /\ argv = <<>>
  /\ \E n \in 1 .. Remaining :
       /\ Len(program) + n <= Capacity
       /\ program' = AppendPiece(n)
  /\ UNCHANGED <<text, stage, argv, cfg, src, caller, pos, out,
                 instrs, printed, off, inlines, shown, whole>>

ReadFails ==
  /\ stage = "read" /\ argv = <<>>
  /\ stage' = "read error"
  /\ UNCHANGED <<text, argv, cfg, program, src, caller, pos, out,
                 instrs, printed, off, inlines, shown, whole>>

CallLines(string, who) ==
  /\ stage' = "lines" /\ caller' = who
  /\ src' = string /\ pos' = 0 /\ out' = <<>>

\* read returns 0 at the end of the file and when the buffer is full.  Nobody
\* writes a NUL behind the text, so the string goes on with what the stack
\* happens to hold there.
BufferContents ==
  LET full == IF Remaining > 0
              THEN {[program EXCEPT ![Capacity] = l] : l \in Cuts(End(program)) \cup {End(program)}}
              ELSE {program}
  IN full \cup UNION {Unterminated(s) : s \in full}
ReadEnds ==
  /\ stage = "read" /\ argv = <<>>
  /\ Remaining = 0 \/ Len(program) = Capacity
  /\ program' \in BufferContents
  /\ CallLines(program', "parser")
  /\ whole' = (Remaining = 0 /\ program' = program)
  /\ UNCHANGED <<text, argv, cfg, instrs, printed, off, inlines, shown>>

-----------------------------------------------------------------------------
\* lines: as many as there are newlines, and one more if something follows the
\* last.  strtok_r skips empty lines, and the assertion refuses to run out.
CountPieces(s) == Len(s)   \* bug: a newline begins a line
CountTokens(s) == Len(SelectSeq(s, LAMBDA l : l # Blank))   \* bug: agrees with strtok_r
CountLines(s) == IF End(s) = Blank THEN Len(s) - 1 ELSE Len(s)
NextTokenAgain ==   \* bug: strtok_r is given the string again and starts over
  /\ stage = "lines" /\ Len(out) < CountLines(src)
  /\ \/ /\ \A k \in 1 .. Len(src) : src[k] = Blank
        /\ stage' = "assert" /\ UNCHANGED <<pos, out>>
     \/ \E k \in 1 .. Len(src) :
          /\ src[k] # Blank /\ \A j \in 1 .. k - 1 : src[j] = Blank
          /\ pos' = k /\ out' = Append(out, k) /\ UNCHANGED stage
  /\ UNCHANGED <<text, src, caller, parserVars>>
NextToken ==
  /\ stage = "lines" /\ Len(out) < CountLines(src)
  /\ \/ /\ \A k \in pos + 1 .. Len(src) : src[k] = Blank
        /\ stage' = "assert" /\ UNCHANGED <<pos, out>>
     \/ \E k \in pos + 1 .. Len(src) :
          /\ src[k] # Blank /\ \A j \in pos + 1 .. k - 1 : src[j] = Blank
          /\ pos' = k /\ out' = Append(out, k) /\ UNCHANGED stage
  /\ UNCHANGED <<text, src, caller, parserVars>>

LinesDone(who) == stage = "lines" /\ caller = who /\ Len(out) = CountLines(src)
LineNo(k) == src[out[k]]

\* instructions_parse, from its call of lines.
NoLines ==
  /\ LinesDone("parser") /\ out = <<>>
  /\ stage' = "parse error"
  /\ UNCHANGED <<text, src, caller, pos, out, parserVars>>

\* The header, after which the two arrays of instructions are allocated.
ReadHeader ==
  /\ LinesDone("parser") /\ out # <<>>
  /\ ParsesHeader(LineNo(1))
  /\ LET a == LineNo(1).args IN
     cfg' = [cfg EXCEPT !.instr_lower = Wrap(a[1]), !.instr_upper = Wrap(a[2]),
                        !.entry_address = Wrap(a[3]), !.memory_sz = Wrap(a[4])]
  /\ stage' \in {"parse", "no memory"}
  /\ UNCHANGED <<text, argv, program, src, caller, pos, out,
                 instrs, printed, off, inlines, shown, whole>>

RejectHeader ==
  /\ LinesDone("parser") /\ out # <<>>
  /\ ~ParsesHeader(LineNo(1))
  /\ stage' = "parse error"
  /\ UNCHANGED <<text, src, caller, pos, out, parserVars>>

AddressOfNext(k) == Wrap(cfg.instr_lower + k * 4)   \* bug: off by one
AddressOf(k) == Wrap(cfg.instr_lower + (k - 1) * 4)
ParseLine ==
  /\ stage = "parse" /\ Len(instrs) + 1 < Len(out)
  /\ LET k == Len(instrs) + 1
         l == LineNo(k + 1)
     IN IF Parses(l)
        THEN /\ instrs' = Append(instrs, [inst |-> Decode(l), inst_addr |-> AddressOf(k)])
             /\ UNCHANGED stage
        ELSE stage' = "parse error" /\ UNCHANGED instrs
  /\ UNCHANGED <<text, argv, cfg, program, src, caller, pos, out,
                 printed, off, inlines, shown, whole>>

ParseDoneLate ==   \* bug: as many instructions as lines
  /\ stage = "parse" /\ Len(instrs) = Len(out)
  /\ stage' = "stringify"
  /\ UNCHANGED <<text, src, caller, pos, out, parserVars>>
ParseDone ==
  /\ stage = "parse" /\ Len(instrs) + 1 = Len(out)
  /\ stage' = "stringify"
  /\ UNCHANGED <<text, src, caller, pos, out, parserVars>>

-----------------------------------------------------------------------------
\* stringify_program, into a buffer of so many characters for each instruction.
TightInstrStr == 5 + 1 + 2 + 6 + 9 + 1   \* bug: the one space there is
MaxInstrStr == 5 + 3 + 2 + 6 + 9 + 1
StringSize == Len(instrs) * MaxInstrStr

\* Of no instructions it makes a string nobody has written (its write in front
\* of the block finds the top byte of malloc's size there, zero already).  Such
\* a string may be empty, like the program behind the header, which is then
\* emulated.  If it is not, a second one is split for the listing, which has
\* lines, and main asserts that it has none, or no line to list either.  A
\* header that ends without a newline fails the assertion of find_instructions.
StringifyNothing ==
  /\ stage = "stringify" /\ instrs = <<>>
  /\ stage' \in IF Len(program) = 1 THEN {"assert"} ELSE {"emulate", "assert", "mismatch"}
  /\ UNCHANGED <<text, src, caller, pos, out, parserVars>>

\* A print that with its NUL goes beyond the buffer may find room there, or
\* ruin what the allocator keeps behind it.
StringifyNext ==
  /\ stage = "stringify" /\ Len(printed) < Len(instrs)
  /\ LET i == instrs[Len(printed) + 1].inst IN
     printed' = Append(printed, Canonical(i)) /\ off' = off + PrintedWidth(i)
  /\ stage' \in IF off' < StringSize THEN {stage} ELSE {stage, "undefined"}
  /\ UNCHANGED <<text, argv, cfg, program, src, caller, pos, out,
                 instrs, inlines, shown, whole>>

\* main compares, and runs the program or splits both strings to list the
\* lines that differ.
Compare ==
  /\ stage = "stringify" /\ instrs # <<>> /\ Len(printed) = Len(instrs)
  /\ IF Tail(program) = printed
     THEN stage' = "emulate" /\ UNCHANGED <<src, caller, pos, out>>
     ELSE CallLines(Tail(program), "input")
  /\ UNCHANGED <<text, parserVars>>

\* For the listing the instructions are printed again, to another buffer.
ListInput ==
  /\ LinesDone("input")
  /\ inlines' = [k \in DOMAIN out |-> LineNo(k)]
  /\ \/ CallLines(printed, "output")
     \/ off >= StringSize /\ stage' = "undefined" /\ UNCHANGED <<src, caller, pos, out>>
  /\ UNCHANGED <<text, argv, cfg, program, instrs, printed, off, shown, whole>>

DifferButLast == {k \in 1 .. Len(out) - 1 : inlines[k] # LineNo(k)}   \* bug: s_lines - 1
Differ == {k \in DOMAIN out : inlines[k] # LineNo(k)}
ListDifferences ==
  /\ LinesDone("output")
  /\ IF Len(inlines) = Len(out)
     THEN stage' = "mismatch" /\ shown' = Differ
     ELSE stage' = "assert" /\ UNCHANGED shown
  /\ UNCHANGED <<text, argv, cfg, program, src, caller, pos, out,
                 instrs, printed, off, inlines, whole>>

Next ==
  \/ ParseArgument
  \/ Read
  \/ ReadFails
  \/ ReadEnds
  \/ NextToken
  \/ NoLines
  \/ ReadHeader
  \/ RejectHeader
  \/ ParseLine
  \/ ParseDone
  \/ StringifyNothing
  \/ StringifyNext
  \/ Compare
  \/ ListInput
  \/ ListDifferences

vars == <<text, loaderVars>>
Spec == Init /\ [][Next]_vars
=============================================================================

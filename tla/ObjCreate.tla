------------------------------ MODULE ObjCreate ------------------------------
(***************************************************************************)
(* obj_create.py: from a RISC-V binary, as objdump shows it, to the text   *)
(* of a program on standard output, which the build sends to a file.       *)
(*                                                                         *)
(* A binary is its load spans, its start address and its code: lines with  *)
(* the addresses objdump prints in front of them.  In that code a branch   *)
(* or JAL names the address it goes to.                                    *)
(***************************************************************************)
EXTENDS ProgramText

CONSTANT Objects

Span   == [vaddr : Nat, memsz : Nat]
Object == [spans : Seq(Span), start : Nat, code : Seq([addr : Nat, line : Line])]

\* The awk behind objdump prints no empty line.
ASSUME ObjectAssumption ==
  /\ Objects \subseteq Object
  /\ \A o \in Objects : \A k \in DOMAIN o.code : o.code[k].line # Blank

VARIABLES
  object,   \* the binary
  conv,     \* where the script is
  header,   \* the four numbers
  body      \* the lines of instructions after fixing

converterVars == <<object, conv, header, body>>
ConversionEnds == {"written", "failed", "timed out"}
Conversions == {"addresses", "fixups", "output", "printed"} \cup ConversionEnds

\* The build creates the output file, empty, before the script runs.
ConverterInit ==
  /\ object \in Objects
  /\ conv = "addresses" /\ header = <<>> /\ body = <<>>
  /\ text = <<Blank>>

\* exit(-1), or an exception: of a binary without spans the list of addresses
\* is indexed in vain.  Only the first message, two lines, goes to standard output.
Fail(written) ==
  /\ conv' = "failed" /\ text' = written
  /\ UNCHANGED <<object, header, body>>

SizeOnly(span) == span.memsz   \* bug: what the last number is called elsewhere
UpperAddress(span) == span.vaddr + span.memsz

\* binary_addresses: code alone gets an empty second span behind it.
BinaryAddresses ==
  /\ conv = "addresses"
  /\ LET spans == object.spans
         code  == spans[1]
         bss   == IF Len(spans) = 1 THEN [vaddr |-> UpperAddress(code), memsz |-> 0]
                  ELSE spans[2]
     IN \/ Len(spans) > 2 /\ Fail(<<Garbage, Garbage, Blank>>)
        \/ Len(spans) = 0 /\ Fail(<<Blank>>)
        \/ /\ Len(spans) \in 1 .. 2
           /\ header' = <<code.vaddr, UpperAddress(code), object.start, UpperAddress(bss)>>
           /\ conv' = "fixups"
           /\ UNCHANGED <<object, body, text>>

\* instruction_fixup: the address in a branch or JAL becomes a distance from
\* the i-th line, counted from 0; numbers in other instructions change their
\* spelling only.
Transfers == BranchInsts \cup {"JAL"}
Target(l) == l.args[Len(l.args)]
FixupFromNext(i, l) ==   \* bug: relative to the next instruction
  IF l.word \in Transfers THEN [l EXCEPT !.args[Len(l.args)] = @ - (i + 1) * 4] ELSE l
FixupByLine(i, l) ==   \* bug: counts lines, not bytes
  IF l.word \in Transfers THEN [l EXCEPT !.args[Len(l.args)] = @ - i] ELSE l
Fixup(i, l) ==
  IF l.word \in Transfers THEN [l EXCEPT !.args[Len(l.args)] = @ - i * 4] ELSE l

\* program: adjacent lines must be four bytes apart.
AtMostFourApart(code) ==   \* bug: accepts shorter instructions
  \A k \in 1 .. Len(code) - 1 : code[k].addr + 4 >= code[k + 1].addr
Contiguous(code) ==
  \A k \in 1 .. Len(code) - 1 : code[k].addr + 4 = code[k + 1].addr
InstructionFixups ==
  /\ conv = "fixups"
  /\ LET code == object.code IN
     IF Contiguous(code)
     THEN /\ body' = [k \in DOMAIN code |-> Fixup(k - 1, code[k].line)]
          /\ conv' = "output"
          /\ UNCHANGED <<object, header, text>>
     ELSE Fail(<<Blank>>)

\* output_program prints the header, and the instructions without a last newline.
FirstLine == HeaderLine(header[1], header[2], header[3], header[4])
ProgramFileWithNewline == <<FirstLine>> \o Append(body, Blank)   \* bug: print's own newline
ProgramFile == <<FirstLine>> \o IF body = <<>> THEN <<Blank>> ELSE body
OutputProgram ==
  /\ conv = "output"
  /\ conv' = "printed"
  /\ UNCHANGED <<object, header, body, text>>

\* Standard output is a file, so that what the two calls of print write is
\* buffered; at the exit of the script at the latest it is in the file.
Exit ==
  /\ conv = "printed"
  /\ text' = ProgramFile
  /\ conv' = "written"
  /\ UNCHANGED <<object, header, body>>

\* The build gives the script five seconds and keeps what is in the file then.
\* Of the output that may be nothing, the header, which is written by itself if
\* the instructions are too long for the buffer, any other beginning, if writing
\* is interrupted, or everything, if only the exit was still to come.
Written == IF conv = "printed" THEN Beginnings(ProgramFile) ELSE {<<Blank>>}
TimeOut ==
  /\ conv \notin ConversionEnds
  /\ text' \in Written
  /\ conv' = "timed out"
  /\ UNCHANGED <<object, header, body>>

Convert ==
  \/ BinaryAddresses
  \/ InstructionFixups
  \/ OutputProgram
  \/ Exit
  \/ TimeOut
=============================================================================

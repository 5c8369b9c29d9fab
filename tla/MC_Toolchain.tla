----------------------------- MODULE MC_Toolchain -----------------------------
(***************************************************************************)
(* Texts of up to four lines over a palette of one line of every format    *)
(* and every fault, and binaries with and without data, with code at 0 and *)
(* elsewhere, with gaps, too many spans or none.                           *)
(***************************************************************************)
EXTENDS Toolchain, WordAssumptions, Bitwise

MCAnd(a, b) == a & b
MCOr(a, b)  == a | b
MCXor(a, b) == a ^^ b

L(word, args, exact) == [word |-> word, args |-> args, exact |-> exact]

Valid ==
  {L("ADD", <<1, 2, 31>>, TRUE), L("SLTIU", <<31, 30, -99999999>>, TRUE),
   L("SD", <<30, 999999999, 31>>, TRUE), L("LUI", <<10, 7>>, TRUE),
   L("ECALL", <<>>, TRUE)}
\* A number of the longest an int can be, and what printing makes of it.
Wide == L("SLTIU", <<31, 30, -2147483647>>, TRUE)
Faulty ==
  {Blank, Garbage, L("", <<>>, FALSE), L("ADDI", <<1, 1>>, FALSE), L("JALR", <<32, 4, 1>>, TRUE),
   L("BEQ", <<1, 2, 12>>, FALSE)}
Headers == {HeaderLine(4, 16, 4, 8)}
BadHeader == L("0x", <<0, 8, 0>>, FALSE)

MCFiles ==
  UNION {[1 .. n -> Valid \cup Faulty \cup Headers \cup {BadHeader}] : n \in 1 .. 2}
  \cup {<<h>> \o t : h \in Headers \cup {Blank},
                     t \in UNION {[1 .. n -> Valid \cup Faulty] : n \in 2 .. 3}}
  \cup {<<h>> \o t : h \in Headers,
                     t \in {<<Wide>>, <<Wide, Wide>>, <<Wide, L("ECALL", <<>>, TRUE)>>}}

Flag(f) == [flag |-> f, sets |-> 0]
MCCommands == {<<>>, <<Flag("--no-print-regs"), Flag("--no-print-instr"),
                       [flag |-> "--cache-values", sets |-> 2]>>}
Quiet == {<<>>}

Code(base, lines) ==
  [k \in DOMAIN lines |-> [addr |-> base + 4 * (k - 1), line |-> lines[k]]]
Turn(base) == <<L("ADDI", <<1, 1, -1>>, TRUE), L("BNE", <<1, 0, base>>, TRUE),
                L("JAL", <<1, base + 8>>, TRUE)>>
SpanOf(a, n) == [vaddr |-> a, memsz |-> n]
Binary(base, lines, data) ==
  [spans |-> <<SpanOf(base, 4 * Len(lines))>> \o data, start |-> base, code |-> Code(base, lines)]

\* Compressed is a binary whose first instruction has two bytes, Untouched the
\* empty one the build leaves when the compiler is timed out; one has no code.
Compressed == [spans |-> <<SpanOf(0, 6)>>, start |-> 0,
               code |-> <<[addr |-> 0, line |-> Turn(0)[1]], [addr |-> 2, line |-> Turn(0)[1]]>>]
Untouched  == [spans |-> <<>>, start |-> 0, code |-> <<>>]
MCObjects ==
  {Compressed, Untouched, Binary(0, <<>>, <<>>)}
  \cup {Binary(base, lines, data) :
          base \in {0, 8},
          lines \in {Turn(0), Turn(8), Tail(Turn(0)), Tail(Turn(8)) \o <<Garbage>>,
                     Turn(0) \o Turn(0)},
          data \in {<<>>, <<SpanOf(32, 10)>>, <<SpanOf(24, 1), SpanOf(32, 1)>>}}

\* One long program, an ordinary one, and one with the smallest immediates there
\* are to an int.
LongFile ==
  {<<HeaderLine(0, 8, 0, 8), L("ADDI", <<1, 0, 12>>, TRUE), L("ECALL", <<>>, TRUE)>>}
ShortFile == {<<HeaderLine(0, 4, 0, 8), L("ECALL", <<>>, TRUE)>>}
WideFile  == {<<HeaderLine(0, 4, 0, 8), Wide>>}
OneObject == {Binary(0, Turn(0), <<SpanOf(32, 10)>>)}
=============================================================================

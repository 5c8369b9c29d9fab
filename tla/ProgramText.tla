----------------------------- MODULE ProgramText -----------------------------
(***************************************************************************)
(* The text of a program, as obj_create.py writes and main reads it.  A    *)
(* text is the sequence of the lines between its newlines: "a" is <<a>>,   *)
(* and "a\n" is <<a, Blank>>.                                              *)
(*                                                                         *)
(* A line is what sscanf finds in it: the first word (the mnemonic, "0x"   *)
(* for a header), the numbers that the format of that word converts, and   *)
(* whether the line is spelt exactly as sprintf would spell these.         *)
(***************************************************************************)
EXTENDS Instructions, Sequences

CONSTANT LongMax    \* LONG_MAX: sscanf goes no further
ASSUME LongAssumption == LongMax \in Nat

VARIABLE text    \* the program file

Line == [word : InstNo \cup {"", "0x", "other"}, args : Seq(Int), exact : BOOLEAN]
Text == Seq(Line) \ {<<>>}

Blank   == [word |-> "", args |-> <<>>, exact |-> TRUE]
Garbage == [word |-> "other", args |-> <<>>, exact |-> FALSE]
End(s)  == s[Len(s)]

\* imeta: instr_num and instr_format; the words are the numbers of the table.
FormatRRR == RRRInsts \cup {"SLT", "SLTU"}
FormatRRI == RRIInsts \cup {"SLTI", "SLTIU"} \cup BranchInsts
FormatRI  == {"LUI", "AUIPC", "JAL"}
FormatROR == MemInsts \cup {"JALR"}

Arity(op) == CASE op \in FormatRRR \cup FormatRRI \cup FormatROR -> 3
               [] op \in FormatRI -> 2
               [] op = "ECALL"    -> 0
RegisterArgs(op) == CASE op \in FormatRRR -> {1, 2, 3}
                      [] op \in FormatRRI -> {1, 2}
                      [] op \in FormatROR -> {1, 3}
                      [] op \in FormatRI  -> {1}
                      [] op = "ECALL"     -> {}

\* The conditions under which instructions_parse accepts a line, and the
\* instruction it makes of one.  Its second attempt at the format RRI scans
\* the same format as the first.
ParsesLoosely(l) == l.word \in InstNo /\ Len(l.args) >= Arity(l.word)   \* bug: any register
Parses(l) ==
  /\ l.word \in InstNo
  /\ Len(l.args) >= Arity(l.word)
  /\ \A k \in RegisterArgs(l.word) : l.args[k] \in 0 .. 31

Decode(l) ==
  LET a == l.args IN
  CASE l.word \in FormatRRR -> RRR(l.word, a[1], a[2], a[3])
    [] l.word \in FormatRRI -> RRI(l.word, a[1], a[2], a[3])
    [] l.word \in FormatROR -> ROR(l.word, a[1], a[2], a[3])
    [] l.word \in FormatRI  -> RI(l.word, a[1], a[2])
    [] l.word = "ECALL"     -> Ecall

\* The header line: four words in hexadecimal.
ParsesHeader(l) == l.word = "0x" /\ Len(l.args) >= 4
HeaderLine(lower, upper, entry, memory) ==
  [word |-> "0x", args |-> <<lower, upper, entry, memory>>, exact |-> TRUE]

\* The line stringify_program prints for an instruction.
Canonical(i) ==
  [word |-> i.inst_no, exact |-> TRUE,
   args |-> CASE i.inst_no \in FormatRRR -> <<i.rd, i.rs1, i.rs2>>
              [] i.inst_no \in FormatRRI -> <<i.rd, i.rs1, i.imm>>
              [] i.inst_no \in FormatROR -> <<i.rd, i.imm, i.rs1>>
              [] i.inst_no \in FormatRI  -> <<i.rd, i.imm>>
              [] i.inst_no = "ECALL"     -> <<>>]

-----------------------------------------------------------------------------
\* The number of characters of that line with its newline.  The digits are
\* those of any long: what is above the ninth has at most ten.
AtLeast(n, t) == IF n >= t THEN 1 ELSE 0
UpToTenDigits(n) ==
  1 + AtLeast(n, 10) + AtLeast(n, 100) + AtLeast(n, 1000) + AtLeast(n, 10000)
    + AtLeast(n, 100000) + AtLeast(n, 1000000) + AtLeast(n, 10000000)
    + AtLeast(n, 100000000) + AtLeast(n, 1000000000)
Digits(n) ==
  IF n < 1000000000 THEN UpToTenDigits(n) ELSE 9 + UpToTenDigits(n \div 1000000000)
Width(n) == IF n < 0 THEN 1 + Digits(-n) ELSE Digits(n)

NameWidth(op) ==
  CASE op \in {"OR", "SB", "SH", "SW", "SD", "LB", "LH", "LW", "LD"} -> 2
    [] op \in {"ADD", "SUB", "AND", "XOR", "SLL", "SRL", "SRA", "ORI", "LUI", "SLT",
               "LBU", "LHU", "LWU", "BEQ", "BNE", "BLT", "BGE", "JAL"} -> 3
    [] op \in {"ADDI", "ANDI", "XORI", "SLLI", "SRLI", "SRAI", "ADDW", "SUBW", "SLLW",
               "SRLW", "SRAW", "SLTU", "SLTI", "BLTU", "BGEU", "JALR"} -> 4
    [] op \in {"ADDIW", "SLLIW", "SRLIW", "SRAIW", "SLTIU", "AUIPC", "ECALL"} -> 5

PrintedWidth(i) ==
  LET name == NameWidth(i.inst_no)
      reg(n) == 1 + Width(n)
  IN CASE i.inst_no \in FormatRRR -> name + reg(i.rd) + reg(i.rs1) + reg(i.rs2) + 4
       [] i.inst_no \in FormatRRI -> name + reg(i.rd) + reg(i.rs1) + Width(i.imm) + 4
       [] i.inst_no \in FormatROR -> name + reg(i.rd) + Width(i.imm) + reg(i.rs1) + 5
       [] i.inst_no \in FormatRI  -> name + reg(i.rd) + Width(i.imm) + 3
       [] i.inst_no = "ECALL"     -> name + 1

-----------------------------------------------------------------------------
\* What is left of a line when the buffer ends inside it: nothing, a part of
\* the word, fewer numbers, or the last number without its last digits.  A
\* line that ends with a parenthesis has to lose that first.
Shortened(n) ==
  {IF n < 0 THEN -((-n) \div t) ELSE n \div t : t \in {10, 100, 1000}} \ {0}
Cuts(l) ==
  LET n == Len(l.args)
      closed == l.word \in FormatROR
      fewer  == IF closed THEN 0 .. n ELSE 0 .. n - 1
  IN {Blank, Garbage}
     \cup {[l EXCEPT !.args = SubSeq(l.args, 1, k), !.exact = FALSE] : k \in fewer}
     \cup IF n = 0 THEN {}
          ELSE {[l EXCEPT !.args[n] = m, !.exact = @ /\ ~closed] : m \in Shortened(l.args[n])}

\* The beginnings of a text: all of it, or cut inside a line or behind one.
Beginnings(s) ==
  UNION {{Append(SubSeq(s, 1, n - 1), l) : l \in Cuts(s[n]) \cup {s[n]}} : n \in DOMAIN s}

\* What a line becomes when other characters follow it: something sscanf
\* ignores, another word, or one more digit, unless that is one too many for a
\* long.
Lengthened(n) == IF n < 0 THEN n * 10 - 1 ELSE n * 10 + 1
HasRoom(n)    == -(LongMax \div 10) < n /\ n < LongMax \div 10
Longest(n)    == IF n < 0 THEN -LongMax - 1 ELSE LongMax
Extensions(l) ==
  LET n == Len(l.args) IN
  IF n = 0 THEN {Garbage, [l EXCEPT !.exact = FALSE]}
  ELSE {[l EXCEPT !.exact = FALSE]}
       \cup IF l.word \in FormatROR \/ l.args[n] = 0 THEN {}
            ELSE IF HasRoom(l.args[n]) THEN {[l EXCEPT !.args[n] = Lengthened(@)]}
            ELSE {[l EXCEPT !.args[n] = Longest(@), !.exact = FALSE]}

\* The strings that begin with s in a buffer that is not terminated.
Unterminated(s) ==
  {[s EXCEPT ![Len(s)] = l] : l \in Extensions(End(s))} \cup {Append(s, Garbage)}
=============================================================================

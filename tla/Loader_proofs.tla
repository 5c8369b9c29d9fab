---------------------------- MODULE Loader_proofs ----------------------------
(***************************************************************************)
(* The inductive invariant of the loader and the proof that every one of   *)
(* its actions keeps it, for every program file, every size of the buffer, *)
(* every way of reading and every command line.  First, what the loader    *)
(* makes of one line: the instruction, its printed form and how long that  *)
(* is.                                                                     *)
(***************************************************************************)
EXTENDS LoaderProperties, Residues, SequenceTheorems, TLAPS

\* A line that parses becomes an instruction whose registers exist and whose
\* immediate is the last number; it prints as a line, of at most 25 characters
\* if the immediate has at most ten; and it prints as the line it came from
\* exactly if that was spelt so (instructions_parse and stringify_program).
LEMMA ParsedLine ==
  ASSUME NEW l \in Line, Parses(l), NEW i, i = Decode(l)
  PROVE  /\ i \in Instruction /\ i.rd <= 31 /\ i.rs1 <= 31 /\ i.rs2 <= 31
         /\ Canonical(i) \in Line /\ Canonical(i).word \in InstNo
         /\ Canonical(i) = l <=> l.exact /\ Len(l.args) = Arity(l.word)
         /\ RegisterArgs(l.word) \subseteq 1 .. Arity(l.word)
         /\ PrintedWidth(i) \in Nat
         /\ Width(i.imm) <= 10 => PrintedWidth(i) <= MaxInstrStr - 1
<1> DEFINE a == l.args
<1>1. l.word \in InstNo /\ a \in Seq(Int) /\ l.exact \in BOOLEAN
  BY DEF Parses, Line
<1>2. l = [word |-> l.word, args |-> a, exact |-> l.exact]
  BY DEF Line
<1>3. /\ l.word \in FormatRRR \/ l.word \in FormatRRI \/ l.word \in FormatROR
         \/ l.word \in FormatRI \/ l.word = "ECALL"
      /\ l.word \in FormatRRR => l.word \notin FormatRRI \cup FormatROR \cup FormatRI \cup {"ECALL"}
      /\ l.word \in FormatRRI => l.word \notin FormatROR \cup FormatRI \cup {"ECALL"}
      /\ l.word \in FormatROR => l.word \notin FormatRI \cup {"ECALL"}
      /\ l.word \in FormatRI  => l.word # "ECALL"
  BY <1>1 DEF FormatRRR, FormatRRI, FormatRI, FormatROR, InstNo, ComputeInsts, ControlInsts,
              SetInsts, RRRInsts, RRIInsts, BranchInsts, MemInsts, LoadInsts, StoreInsts
<1>4. /\ NameWidth(l.word) \in {2, 3, 4, 5}
      /\ l.word \in FormatROR => NameWidth(l.word) \in {2, 3, 4}
  <2>1. NameWidth(l.word) \in {2, 3, 4, 5}
    BY <1>1, Zenon DEF NameWidth, InstNo, ComputeInsts, ControlInsts, SetInsts, RRRInsts,
       RRIInsts, BranchInsts, MemInsts, LoadInsts, StoreInsts
  <2>2. l.word \in FormatROR => NameWidth(l.word) \in {2, 3, 4}
    BY Zenon DEF NameWidth, FormatROR, MemInsts, LoadInsts, StoreInsts
  <2> QED
    BY <2>1, <2>2
<1>5. NameWidth(l.word) \in 2 .. 5 /\ (l.word \in FormatROR => NameWidth(l.word) <= 4)
  BY <1>4
<1>6. ASSUME NEW c \in Seq(Int), \A k \in 1 .. Len(c) : c[k] = a[k]
      PROVE  c = a <=> Len(a) = Len(c)
  BY <1>1, <1>6, SeqEqual
<1>7. ASSUME NEW op \in InstNo, NEW d \in 0 .. 31, NEW b \in 0 .. 31, NEW c \in 0 .. 31,
             NEW n \in Int
      PROVE  /\ RRR(op, d, b, c) \in Instruction /\ RRI(op, d, b, n) \in Instruction
             /\ ROR(op, d, n, b) \in Instruction /\ RI(op, d, n) \in Instruction
  BY DEF RRR, RRI, ROR, RI, Instruction
<1>8. Ecall \in Instruction
  BY DEF Ecall, Instruction, InstNo
<1>9. ASSUME NEW op \in InstNo, NEW s \in Seq(Int)
      PROVE  [word |-> op, exact |-> TRUE, args |-> s] \in Line
  BY DEF Line
<1>10. \A n \in Int : Width(n) \in Nat
  BY DEF Width, Digits, UpToTenDigits, AtLeast
<1>11. ASSUME NEW n \in Int, Width(n) <= 10 PROVE Width(n) \in 0 .. 10
  BY <1>10, <1>11
<1>12. \A n \in 0 .. 31 : Width(n) \in 0 .. 2
  BY SMT DEF Width, Digits, UpToTenDigits, AtLeast
<1>13. CASE l.word \in FormatRRR
  <2>1. Arity(l.word) = 3 /\ RegisterArgs(l.word) = {1, 2, 3}
    BY <1>3, <1>13, Zenon DEF Arity, RegisterArgs
  <2>2. i = RRR(l.word, a[1], a[2], a[3])
    BY <1>3, <1>13, Zenon DEF Decode
  <2>3. a[1] \in Int /\ a[2] \in Int /\ a[3] \in Int
    <3>1. Len(a) >= 3
      BY <2>1 DEF Parses
    <3> QED
      BY <1>1, <3>1, ElementOfSeq
  <2>4. a[1] \in 0 .. 31 /\ a[2] \in 0 .. 31 /\ a[3] \in 0 .. 31
    BY <2>1 DEF Parses
  <2>5. i.inst_no = l.word /\ i.rd = a[1] /\ i.rs1 = a[2] /\ i.rs2 = a[3] /\ i.imm = 0
    BY <1>13, <2>2 DEF RRR
  <2>6. i \in Instruction
    BY <1>1, <1>7, <2>2, <2>3, <2>4
  <2>7. Canonical(i) = [word |-> l.word, exact |-> TRUE, args |-> <<a[1], a[2], a[3]>>]
    BY <1>3, <1>13, <2>5, Zenon DEF Canonical
  <2>8. Canonical(i) \in Line /\ (Canonical(i) = l <=> l.exact /\ Len(a) = 3)
    <3> DEFINE c == <<a[1], a[2], a[3]>>
    <3>1. c \in Seq(Int) /\ Len(c) = 3 /\ \A k \in 1 .. 3 : c[k] = a[k]
      BY <2>3
    <3> HIDE DEF c
    <3>2. c = a <=> Len(a) = 3
      BY <1>6, <3>1
    <3>3. Canonical(i) = [word |-> l.word, exact |-> TRUE, args |-> c]
      BY <2>7 DEF c
    <3>4. Canonical(i) \in Line
      BY <1>1, <1>9, <3>1, <3>3
    <3> QED
      BY <1>1, <1>2, <3>2, <3>3, <3>4
  <2>9. PrintedWidth(i) =
          NameWidth(l.word) + (1 + Width(a[1])) + (1 + Width(a[2])) + (1 + Width(a[3])) + 4
    BY <1>3, <1>13, <2>5, Zenon DEF PrintedWidth
  <2>10. ASSUME Width(i.imm) <= 10 PROVE PrintedWidth(i) <= MaxInstrStr - 1
    <3>1. Width(a[1]) \in 0 .. 2 /\ Width(a[2]) \in 0 .. 2 /\ Width(a[3]) \in 0 .. 2
      BY <1>12, <2>4
    <3> QED
      BY <1>5, <2>9, <3>1 DEF MaxInstrStr
  <2>11. PrintedWidth(i) \in Nat
    BY <1>5, <1>10, <2>3, <2>9
  <2>12. i.rd <= 31 /\ i.rs1 <= 31 /\ i.rs2 <= 31
    BY <2>4, <2>5
  <2>13. Canonical(i).word \in InstNo
    BY <1>1, <2>7
  <2>14. RegisterArgs(l.word) \subseteq 1 .. Arity(l.word)
    BY <2>1
  <2> QED
    BY <1>1, <2>1, <2>6, <2>8, <2>10, <2>11, <2>12, <2>13, <2>14, Zenon
<1>14. CASE l.word \in FormatRRI
  <2>1. Arity(l.word) = 3 /\ RegisterArgs(l.word) = {1, 2}
    BY <1>3, <1>14, Zenon DEF Arity, RegisterArgs
  <2>2. i = RRI(l.word, a[1], a[2], a[3])
    BY <1>3, <1>14, Zenon DEF Decode
  <2>3. a[1] \in Int /\ a[2] \in Int /\ a[3] \in Int
    <3>1. Len(a) >= 3
      BY <2>1 DEF Parses
    <3> QED
      BY <1>1, <3>1, ElementOfSeq
  <2>4. a[1] \in 0 .. 31 /\ a[2] \in 0 .. 31
    BY <2>1 DEF Parses
  <2>5. i.inst_no = l.word /\ i.rd = a[1] /\ i.rs1 = a[2] /\ i.rs2 = 0 /\ i.imm = a[3]
    BY <1>14, <2>2 DEF RRI
  <2>6. i \in Instruction
    BY <1>1, <1>7, <2>2, <2>3, <2>4
  <2>7. Canonical(i) = [word |-> l.word, exact |-> TRUE, args |-> <<a[1], a[2], a[3]>>]
    BY <1>3, <1>14, <2>5, Zenon DEF Canonical
  <2>8. Canonical(i) \in Line /\ (Canonical(i) = l <=> l.exact /\ Len(a) = 3)
    <3> DEFINE c == <<a[1], a[2], a[3]>>
    <3>1. c \in Seq(Int) /\ Len(c) = 3 /\ \A k \in 1 .. 3 : c[k] = a[k]
      BY <2>3
    <3> HIDE DEF c
    <3>2. c = a <=> Len(a) = 3
      BY <1>6, <3>1
    <3>3. Canonical(i) = [word |-> l.word, exact |-> TRUE, args |-> c]
      BY <2>7 DEF c
    <3>4. Canonical(i) \in Line
      BY <1>1, <1>9, <3>1, <3>3
    <3> QED
      BY <1>1, <1>2, <3>2, <3>3, <3>4
  <2>9. PrintedWidth(i) =
          NameWidth(l.word) + (1 + Width(a[1])) + (1 + Width(a[2])) + Width(a[3]) + 4
    BY <1>3, <1>14, <2>5, Zenon DEF PrintedWidth
  <2>10. ASSUME Width(i.imm) <= 10 PROVE PrintedWidth(i) <= MaxInstrStr - 1
    <3>1. Width(a[1]) \in 0 .. 2 /\ Width(a[2]) \in 0 .. 2 /\ Width(a[3]) \in 0 .. 10
      BY <1>11, <2>3, <2>5, <2>10, <1>12, <2>4
    <3> QED
      BY <1>5, <2>9, <3>1 DEF MaxInstrStr
  <2>11. PrintedWidth(i) \in Nat
    BY <1>5, <1>10, <2>3, <2>9
  <2>12. i.rd <= 31 /\ i.rs1 <= 31 /\ i.rs2 <= 31
    BY <2>4, <2>5
  <2>13. Canonical(i).word \in InstNo
    BY <1>1, <2>7
  <2>14. RegisterArgs(l.word) \subseteq 1 .. Arity(l.word)
    BY <2>1
  <2> QED
    BY <1>1, <2>1, <2>6, <2>8, <2>10, <2>11, <2>12, <2>13, <2>14, Zenon
<1>15. CASE l.word \in FormatROR
  <2>1. Arity(l.word) = 3 /\ RegisterArgs(l.word) = {1, 3}
    BY <1>3, <1>15, Zenon DEF Arity, RegisterArgs
  <2>2. i = ROR(l.word, a[1], a[2], a[3])
    BY <1>3, <1>15, Zenon DEF Decode
  <2>3. a[1] \in Int /\ a[2] \in Int /\ a[3] \in Int
    <3>1. Len(a) >= 3
      BY <2>1 DEF Parses
    <3> QED
      BY <1>1, <3>1, ElementOfSeq
  <2>4. a[1] \in 0 .. 31 /\ a[3] \in 0 .. 31
    BY <2>1 DEF Parses
  <2>5. i.inst_no = l.word /\ i.rd = a[1] /\ i.rs1 = a[3] /\ i.rs2 = 0 /\ i.imm = a[2]
    BY <1>15, <2>2 DEF ROR
  <2>6. i \in Instruction
    BY <1>1, <1>7, <2>2, <2>3, <2>4
  <2>7. Canonical(i) = [word |-> l.word, exact |-> TRUE, args |-> <<a[1], a[2], a[3]>>]
    BY <1>3, <1>15, <2>5, Zenon DEF Canonical
  <2>8. Canonical(i) \in Line /\ (Canonical(i) = l <=> l.exact /\ Len(a) = 3)
    <3> DEFINE c == <<a[1], a[2], a[3]>>
    <3>1. c \in Seq(Int) /\ Len(c) = 3 /\ \A k \in 1 .. 3 : c[k] = a[k]
      BY <2>3
    <3> HIDE DEF c
    <3>2. c = a <=> Len(a) = 3
      BY <1>6, <3>1
    <3>3. Canonical(i) = [word |-> l.word, exact |-> TRUE, args |-> c]
      BY <2>7 DEF c
    <3>4. Canonical(i) \in Line
      BY <1>1, <1>9, <3>1, <3>3
    <3> QED
      BY <1>1, <1>2, <3>2, <3>3, <3>4
  <2>9. PrintedWidth(i) =
          NameWidth(l.word) + (1 + Width(a[1])) + Width(a[2]) + (1 + Width(a[3])) + 5
    BY <1>3, <1>15, <2>5, Zenon DEF PrintedWidth
  <2>10. ASSUME Width(i.imm) <= 10 PROVE PrintedWidth(i) <= MaxInstrStr - 1
    <3>1. Width(a[1]) \in 0 .. 2 /\ Width(a[3]) \in 0 .. 2 /\ Width(a[2]) \in 0 .. 10
      BY <1>11, <2>3, <2>5, <2>10, <1>12, <2>4
    <3> QED
      BY <1>15, <1>5, <2>9, <3>1 DEF MaxInstrStr
  <2>11. PrintedWidth(i) \in Nat
    BY <1>5, <1>10, <2>3, <2>9
  <2>12. i.rd <= 31 /\ i.rs1 <= 31 /\ i.rs2 <= 31
    BY <2>4, <2>5
  <2>13. Canonical(i).word \in InstNo
    BY <1>1, <2>7
  <2>14. RegisterArgs(l.word) \subseteq 1 .. Arity(l.word)
    BY <2>1
  <2> QED
    BY <1>1, <2>1, <2>6, <2>8, <2>10, <2>11, <2>12, <2>13, <2>14, Zenon
<1>16. CASE l.word \in FormatRI
  <2>1. Arity(l.word) = 2 /\ RegisterArgs(l.word) = {1}
    BY <1>3, <1>16, Zenon DEF Arity, RegisterArgs
  <2>2. i = RI(l.word, a[1], a[2])
    BY <1>3, <1>16, Zenon DEF Decode
  <2>3. a[1] \in Int /\ a[2] \in Int
    <3>1. Len(a) >= 2
      BY <2>1 DEF Parses
    <3> QED
      BY <1>1, <3>1, ElementOfSeq
  <2>4. a[1] \in 0 .. 31
    BY <2>1 DEF Parses
  <2>5. i.inst_no = l.word /\ i.rd = a[1] /\ i.rs1 = 0 /\ i.rs2 = 0 /\ i.imm = a[2]
    BY <1>16, <2>2 DEF RI
  <2>6. i \in Instruction
    BY <1>1, <1>7, <2>2, <2>3, <2>4
  <2>7. Canonical(i) = [word |-> l.word, exact |-> TRUE, args |-> <<a[1], a[2]>>]
    BY <1>3, <1>16, <2>5, Zenon DEF Canonical
  <2>8. Canonical(i) \in Line /\ (Canonical(i) = l <=> l.exact /\ Len(a) = 2)
    <3> DEFINE c == <<a[1], a[2]>>
    <3>1. c \in Seq(Int) /\ Len(c) = 2 /\ \A k \in 1 .. 2 : c[k] = a[k]
      BY <2>3
    <3> HIDE DEF c
    <3>2. c = a <=> Len(a) = 2
      BY <1>6, <3>1
    <3>3. Canonical(i) = [word |-> l.word, exact |-> TRUE, args |-> c]
      BY <2>7 DEF c
    <3>4. Canonical(i) \in Line
      BY <1>1, <1>9, <3>1, <3>3
    <3> QED
      BY <1>1, <1>2, <3>2, <3>3, <3>4
  <2>9. PrintedWidth(i) = NameWidth(l.word) + (1 + Width(a[1])) + Width(a[2]) + 3
    BY <1>3, <1>16, <2>5, Zenon DEF PrintedWidth
  <2>10. ASSUME Width(i.imm) <= 10 PROVE PrintedWidth(i) <= MaxInstrStr - 1
    <3>1. Width(a[1]) \in 0 .. 2 /\ Width(a[2]) \in 0 .. 10
      BY <1>11, <2>3, <2>5, <2>10, <1>12, <2>4
    <3> QED
      BY <1>5, <2>9, <3>1 DEF MaxInstrStr
  <2>11. PrintedWidth(i) \in Nat
    BY <1>5, <1>10, <2>3, <2>9
  <2>12. i.rd <= 31 /\ i.rs1 <= 31 /\ i.rs2 <= 31
    BY <2>4, <2>5
  <2>13. Canonical(i).word \in InstNo
    BY <1>1, <2>7
  <2>14. RegisterArgs(l.word) \subseteq 1 .. Arity(l.word)
    BY <2>1
  <2> QED
    BY <1>1, <2>1, <2>6, <2>8, <2>10, <2>11, <2>12, <2>13, <2>14, Zenon
<1>17. CASE l.word = "ECALL"
  <2>1. Arity(l.word) = 0 /\ RegisterArgs(l.word) = {}
    BY <1>3, <1>17, Zenon DEF Arity, RegisterArgs
  <2>2. i = Ecall
    BY <1>3, <1>17, Zenon DEF Decode
  <2>5. i.inst_no = l.word /\ i.rd = 0 /\ i.rs1 = 0 /\ i.rs2 = 0 /\ i.imm = 0
    BY <1>17, <2>2 DEF Ecall
  <2>6. i \in Instruction
    BY <1>1, <1>8, <2>2
  <2>7. Canonical(i) = [word |-> l.word, exact |-> TRUE, args |-> <<>>]
    BY <1>3, <1>17, <2>5, Zenon DEF Canonical
  <2>8. Canonical(i) \in Line /\ (Canonical(i) = l <=> l.exact /\ Len(a) = 0)
    <3> DEFINE c == <<>>
    <3>1. c \in Seq(Int) /\ Len(c) = 0 /\ \A k \in 1 .. 0 : c[k] = a[k]
      OBVIOUS
    <3> HIDE DEF c
    <3>2. c = a <=> Len(a) = 0
      BY <1>6, <3>1
    <3>3. Canonical(i) = [word |-> l.word, exact |-> TRUE, args |-> c]
      BY <2>7 DEF c
    <3>4. Canonical(i) \in Line
      BY <1>1, <1>9, <3>1, <3>3
    <3> QED
      BY <1>1, <1>2, <3>2, <3>3, <3>4
  <2>9. PrintedWidth(i) = NameWidth(l.word) + 1
    BY <1>3, <1>17, <2>5, Zenon DEF PrintedWidth
  <2>10. PrintedWidth(i) <= MaxInstrStr - 1
    BY <1>5, <2>9 DEF MaxInstrStr
  <2>11. PrintedWidth(i) \in Nat
    BY <1>5, <1>10, <2>9
  <2>12. i.rd <= 31 /\ i.rs1 <= 31 /\ i.rs2 <= 31
    BY <2>5
  <2>13. Canonical(i).word \in InstNo
    BY <1>1, <2>7
  <2>14. RegisterArgs(l.word) \subseteq 1 .. Arity(l.word)
    BY <2>1
  <2> QED
    BY <1>1, <2>1, <2>6, <2>8, <2>10, <2>11, <2>12, <2>13, <2>14, Zenon
<1> QED
  BY <1>3, <1>13, <1>14, <1>15, <1>16, <1>17

\* The registers of a line are among the numbers of its format.
LEMMA RegistersAmongNumbers ==
  ASSUME NEW op \in InstNo PROVE RegisterArgs(op) \subseteq 1 .. Arity(op) /\ Arity(op) \in Nat
<1>1. /\ op \in FormatRRR \/ op \in FormatRRI \/ op \in FormatROR \/ op \in FormatRI \/ op = "ECALL"
      /\ op \in FormatRRR => op \notin FormatRRI \cup FormatROR \cup FormatRI \cup {"ECALL"}
      /\ op \in FormatRRI => op \notin FormatROR \cup FormatRI \cup {"ECALL"}
      /\ op \in FormatROR => op \notin FormatRI \cup {"ECALL"}
      /\ op \in FormatRI  => op # "ECALL"
  BY DEF FormatRRR, FormatRRI, FormatRI, FormatROR, InstNo, ComputeInsts, ControlInsts,
         SetInsts, RRRInsts, RRIInsts, BranchInsts, MemInsts, LoadInsts, StoreInsts
<1>2. CASE op \in FormatRRR
  <2>1. Arity(op) = 3 /\ RegisterArgs(op) = {1, 2, 3}
    BY <1>1, <1>2, Zenon DEF Arity, RegisterArgs
  <2> QED
    BY <2>1
<1>3. CASE op \in FormatRRI
  <2>1. Arity(op) = 3 /\ RegisterArgs(op) = {1, 2}
    BY <1>1, <1>3, Zenon DEF Arity, RegisterArgs
  <2> QED
    BY <2>1
<1>4. CASE op \in FormatROR
  <2>1. Arity(op) = 3 /\ RegisterArgs(op) = {1, 3}
    BY <1>1, <1>4, Zenon DEF Arity, RegisterArgs
  <2> QED
    BY <2>1
<1>5. CASE op \in FormatRI
  <2>1. Arity(op) = 2 /\ RegisterArgs(op) = {1}
    BY <1>1, <1>5, Zenon DEF Arity, RegisterArgs
  <2> QED
    BY <2>1
<1>6. CASE op = "ECALL"
  <2>1. Arity(op) = 0 /\ RegisterArgs(op) = {}
    BY <1>1, <1>6, Zenon DEF Arity, RegisterArgs
  <2> QED
    BY <2>1
<1> QED
  BY <1>1, <1>2, <1>3, <1>4, <1>5, <1>6

\* With one character more it may not: an instruction with two registers and a
\* name of five characters takes 26 then.
LEMMA LongNumberOverruns ==
  ASSUME NEW n \in Int, Width(n) > 10
  PROVE  PrintedWidth(RRI("SLTIU", 31, 30, n)) + 1 > MaxInstrStr
<1> DEFINE i == RRI("SLTIU", 31, 30, n)
           w == Width(n)
<1>1. i.inst_no = "SLTIU" /\ i.rd = 31 /\ i.rs1 = 30 /\ i.imm = n
  BY DEF RRI
<1>2. /\ "SLTIU" \in FormatRRI /\ "SLTIU" \notin FormatRRR /\ "SLTIU" \notin FormatROR
      /\ "SLTIU" \notin FormatRI /\ "SLTIU" # "ECALL"
  BY DEF FormatRRI, FormatRRR, FormatROR, FormatRI, RRRInsts, MemInsts, LoadInsts, StoreInsts
<1>3. NameWidth("SLTIU") = 5
  BY DEF NameWidth
<1>4. Width(31) = 2 /\ Width(30) = 2
  BY SMT DEF Width, Digits, UpToTenDigits, AtLeast
<1>5. w \in Int /\ w > 10
  BY SMT DEF Width, Digits, UpToTenDigits, AtLeast
<1> HIDE DEF i
<1>6. PrintedWidth(i) = NameWidth("SLTIU") + (1 + Width(31)) + (1 + Width(30)) + Width(n) + 4
  BY <1>1, <1>2, Zenon DEF PrintedWidth
<1> HIDE DEF w
<1>7. PrintedWidth(i) = 5 + (1 + 2) + (1 + 2) + w + 4
  BY <1>3, <1>4, <1>6 DEF w
<1> QED
  BY <1>5, <1>7 DEF MaxInstrStr, i

\* The 32 bit numbers below -999999999 are as long as that, and one instruction with
\* one of them overruns its buffer, although the comment on the maximum
\* instruction size reckons with 9 characters for 32 bits (utilities.c:246-258).
THEOREM ElevenCharactersOverrun ==
  ASSUME NEW n \in Int, n <= -1000000000
  PROVE  PrintedWidth(RRI("SLTIU", 31, 30, n)) + 1 > MaxInstrStr
<1> DEFINE m == -n
           q == m \div 1000000000
<1>1. m \in Nat /\ m >= 1000000000 /\ n < 0 /\ q \in Nat /\ q >= 1
  BY SMT
<1>2. Digits(m) = 9 + UpToTenDigits(q)
  <2> HIDE DEF m
  <2> QED
    BY <1>1, SMT DEF Digits
<1> HIDE DEF q
<1>3. UpToTenDigits(q) \in Nat /\ UpToTenDigits(q) >= 1
  BY <1>1, SMT DEF UpToTenDigits, AtLeast
<1>4. Width(n) > 10
  BY <1>1, <1>2, <1>3, SMT DEF Width
<1> QED
  BY <1>4, LongNumberOverruns, SMT

-----------------------------------------------------------------------------
Reading == stage \in {"read", "read error"}
InParserLines == stage = "lines" /\ caller = "parser"
InListing     == stage = "lines" /\ caller # "parser"

\* The word of a line, of the same line cut, or of that with something behind it.
WordOf(m, l) == m.word \in {l.word, "", "other"}

\* What is read is a beginning of the file; what is parsed is the file if the
\* history variable says so, and begins with the first word of the file in any
\* case, unless that was cut or lengthened to another.
ReadInv ==
  /\ text \in Text
  /\ stage = "read" =>
       /\ whole /\ Len(program) <= Len(text)
       /\ \A k \in 1 .. Len(program) : program[k] = text[k]
  /\ ~Reading =>
       /\ program # <<>>
       /\ whole => program = text
       /\ WordOf(program[1], text[1])

\* The pointers of lines increase and leave no line out, except empty ones.
LinesInv ==
  ~Reading =>
    /\ src # <<>>
    /\ \A j \in 1 .. Len(out) : j <= out[j] /\ out[j] + Len(out) - j <= pos
    /\ Len(out) <= pos
    /\ pos = 0 \/ src[pos] # Blank
    /\ pos = Len(out) \/ \E k \in 1 .. pos - 1 : src[k] = Blank

\* Whose string lines has split.
CallInv ==
  /\ stage \in {"parse", "stringify"} => caller = "parser"
  /\ InParserLines \/ stage = "parse" => src = program
  /\ stage = "parse" => out # <<>> /\ Len(out) = CountLines(src) /\ Len(instrs) < Len(out)
  /\ stage = "lines" /\ caller = "input" => src = Tail(program)
  /\ stage = "lines" /\ caller = "output" =>
       /\ src = printed
       /\ Len(inlines) = CountLines(program) - 1
       /\ \A k \in 1 .. Len(inlines) : inlines[k] = program[k + 1]

\* The instructions are those of the lines behind the header, none left out.
Parsed == stage \in {"stringify", "emulate", "mismatch", "undefined"} \/ InListing
ParseInv ==
  /\ stage = "read" \/ InParserLines => instrs = <<>>
  /\ \A k \in 1 .. Len(instrs) :
       /\ k < Len(program) /\ Parses(program[k + 1])
       /\ instrs[k] = [inst |-> Decode(program[k + 1]), inst_addr |-> AddressOf(k)]
  /\ Parsed \/ stage = "parse" =>
       /\ ParsesHeader(program[1])
       /\ HeaderIs(program[1])
  /\ Parsed => Len(instrs) + 1 = CountLines(program)

\* What is printed are the instructions, in at most 25 characters each.
PrintedInv ==
  /\ Len(printed) <= Len(instrs)
  /\ \A k \in 1 .. Len(printed) : printed[k] = Canonical(instrs[k].inst)
  /\ stage \in {"read", "parse"} \/ InParserLines => printed = <<>> /\ off = 0
  /\ ShortNumbers => off <= (MaxInstrStr - 1) * Len(printed)

\* What the comparison has found, and how a run has ended.
Compared == stage \in {"emulate", "mismatch"} \/ InListing
EndInv ==
  /\ InListing => instrs # <<>>
  /\ Compared /\ instrs # <<>> => /\ Len(printed) = Len(instrs)
                                  /\ Tail(program) = printed <=> stage = "emulate"
  /\ Compared /\ instrs = <<>> => HeaderOnly(program)
  /\ stage = "parse error" => ~WellFormed(program)
  /\ stage = "undefined" => ~ShortNumbers
  /\ SeparatedLinesNeverAssert
  /\ OnlyTrailingNewlineUnexplained

LoaderInv == LoaderTypeOK /\ ReadInv /\ LinesInv /\ CallInv /\ ParseInv /\ PrintedInv /\ EndInv

\* The sequences of a state have lengths.
LEMMA Lengths ==
  ASSUME LoaderInv
  PROVE  /\ Len(text) \in Nat \ {0} /\ Len(program) \in Nat /\ Len(src) \in Nat /\ Len(out) \in Nat
         /\ Len(instrs) \in Nat /\ Len(printed) \in Nat /\ Len(inlines) \in Nat
<1>1. LoaderTypeOK /\ ReadInv /\ LinesInv /\ CallInv /\ ParseInv /\ PrintedInv /\ EndInv
  BY DEF LoaderInv
<1> QED
  BY <1>1, LenProperties, EmptySeq DEF LoaderTypeOK, ReadInv, Text

\* Their domains are those of sequences.
LEMMA Domains ==
  ASSUME LoaderInv
  PROVE  /\ DOMAIN out = 1 .. Len(out) /\ DOMAIN instrs = 1 .. Len(instrs)
         /\ DOMAIN printed = 1 .. Len(printed) /\ DOMAIN inlines = 1 .. Len(inlines)
<1>1. LoaderTypeOK /\ ReadInv /\ LinesInv /\ CallInv /\ ParseInv /\ PrintedInv /\ EndInv
  BY DEF LoaderInv
<1> QED
  BY <1>1, LenProperties DEF LoaderTypeOK

\* What they hold has its type.
LEMMA Elements ==
  ASSUME LoaderInv
  PROVE  /\ \A k \in 1 .. Len(program) : program[k] \in Line
         /\ \A k \in 1 .. Len(src) : src[k] \in Line
         /\ \A k \in 1 .. Len(out) : out[k] \in 1 .. Len(src) /\ src[out[k]] # Blank
<1>1. LoaderTypeOK /\ ReadInv /\ LinesInv /\ CallInv /\ ParseInv /\ PrintedInv /\ EndInv
  BY DEF LoaderInv
<1> QED
  BY <1>1, Domains, ElementOfSeq DEF LoaderTypeOK

\* From the end of the reading on, neither the program nor a string given to lines
\* is empty.
LEMMA NothingEmpty ==
  ASSUME LoaderInv
  PROVE  ~Reading => src # <<>> /\ Len(src) >= 1 /\ program # <<>> /\ Len(program) >= 1
<1>1. LoaderTypeOK /\ ReadInv /\ LinesInv /\ CallInv /\ ParseInv /\ PrintedInv /\ EndInv
  BY DEF LoaderInv
<1> QED
  BY <1>1, EmptySeq DEF LoaderTypeOK, LinesInv, ReadInv

\* lines counts every line but an empty last one (utilities.c:45-52).
LEMMA LineCount ==
  \A s \in Seq(Line) : s # <<>> =>
           /\ Len(s) \in Nat \ {0} /\ CountLines(s) \in Nat /\ CountLines(s) <= Len(s)
           /\ CountLines(s) >= Len(s) - 1 /\ (CountLines(s) = Len(s) <=> s[Len(s)] # Blank)
BY EmptySeq DEF CountLines, End

\* When lines has found as many lines as it counted, it has found all of them in
\* place: the k-th pointer points to the k-th line (utilities.c:60-66).
LEMMA AllLinesFound ==
  ASSUME LoaderInv, ~Reading, Len(out) = CountLines(src)
  PROVE  \A k \in 1 .. Len(out) : out[k] = k /\ src[k] # Blank
<1>1. LoaderTypeOK /\ ReadInv /\ LinesInv /\ CallInv /\ ParseInv /\ PrintedInv /\ EndInv
  BY DEF LoaderInv
<1>2. pos \in 0 .. Len(src)
  BY <1>1 DEF LoaderTypeOK
<1>3. pos = Len(out)
  <2>1. Len(out) <= pos /\ (pos = Len(src) => src[Len(src)] # Blank)
    BY <1>1, NothingEmpty DEF LinesInv
  <2>2. /\ CountLines(src) <= Len(src) /\ CountLines(src) >= Len(src) - 1
        /\ (CountLines(src) = Len(src) <=> src[Len(src)] # Blank) /\ CountLines(src) \in Nat
    BY <1>1, NothingEmpty, LineCount DEF LoaderTypeOK
  <2> QED
    BY Lengths, <1>2, <2>1, <2>2
<1>4. \A k \in 1 .. Len(out) : out[k] = k
  BY <1>1, Lengths, Elements, <1>3 DEF LinesInv
<1> QED
  BY Elements, <1>4

\* What the invariant says of an instruction follows from the line it was parsed
\* from.
LEMMA ParsedInstruction ==
  ASSUME LoaderInv, NEW k \in 1 .. Len(instrs)
  PROVE  /\ k < Len(program) /\ program[k + 1] \in Line /\ Parses(program[k + 1])
         /\ instrs[k].inst = Decode(program[k + 1])
         /\ instrs[k].inst \in Instruction
         /\ Canonical(instrs[k].inst) \in Line /\ Canonical(instrs[k].inst) # Blank
         /\ Canonical(instrs[k].inst) = program[k + 1]
            <=> program[k + 1].exact /\ Len(program[k + 1].args) = Arity(program[k + 1].word)
         /\ PrintedWidth(instrs[k].inst) \in Nat
         /\ Width(instrs[k].inst.imm) <= 10 => PrintedWidth(instrs[k].inst) <= MaxInstrStr - 1
<1>1. LoaderTypeOK /\ ReadInv /\ LinesInv /\ CallInv /\ ParseInv /\ PrintedInv /\ EndInv
  BY DEF LoaderInv
<1> DEFINE i == instrs[k].inst
           l == program[k + 1]
<1>2. k < Len(program) /\ Parses(l) /\ i = Decode(l)
  <2>1. /\ k < Len(program) /\ Parses(program[k + 1])
        /\ instrs[k] = [inst |-> Decode(program[k + 1]), inst_addr |-> AddressOf(k)]
    BY <1>1 DEF ParseInv
  <2> QED
    BY <2>1
<1>3. l \in Line
  BY Lengths, Elements, <1>2
<1>4. Canonical(i).word \in InstNo
  BY <1>2, <1>3, ParsedLine
<1>5. Canonical(i) # Blank
  <2>1. "" \notin InstNo
    BY DEF InstNo, ComputeInsts, MemInsts, ControlInsts, SetInsts, BranchInsts, RRRInsts,
           RRIInsts, StoreInsts, LoadInsts
  <2>2. Blank.word = ""
    BY DEF Blank
  <2> QED
    BY <1>4, <2>1, <2>2
<1> HIDE DEF i, l
<1>6. /\ i \in Instruction /\ Canonical(i) \in Line
      /\ Canonical(i) = l <=> l.exact /\ Len(l.args) = Arity(l.word)
      /\ PrintedWidth(i) \in Nat
      /\ Width(i.imm) <= 10 => PrintedWidth(i) <= MaxInstrStr - 1
  BY <1>2, <1>3, ParsedLine, Zenon
<1> QED
  BY <1>2, <1>3, <1>5, <1>6, Zenon DEF i, l

\* A printed line is not empty and belongs to an instruction.
LEMMA PrintedLine ==
  ASSUME LoaderInv, NEW k \in 1 .. Len(printed)
  PROVE  printed[k] # Blank /\ k \in 1 .. Len(instrs)
<1>1. LoaderTypeOK /\ ReadInv /\ LinesInv /\ CallInv /\ ParseInv /\ PrintedInv /\ EndInv
  BY DEF LoaderInv
<1>2. k \in 1 .. Len(instrs) /\ printed[k] = Canonical(instrs[k].inst)
  BY <1>1, Lengths DEF PrintedInv
<1>3. Canonical(instrs[k].inst) # Blank
  BY <1>2, ParsedInstruction
<1> QED
  BY <1>2, <1>3

-----------------------------------------------------------------------------

\* The arguments change the configuration and nothing else (main.c:50).
LEMMA ParseArgumentKeepsInv == ASSUME LoaderInv, ParseArgument PROVE LoaderInv'
<1>1. LoaderTypeOK /\ ReadInv /\ LinesInv /\ CallInv /\ ParseInv /\ PrintedInv /\ EndInv
  BY DEF LoaderInv
<1>2. LoaderTypeOK'
  <2>1. Head(argv) \in Argument /\ Tail(argv) \in Seq(Argument)
    BY <1>1, HeadTailProperties DEF LoaderTypeOK, ParseArgument
  <2>2. cfg' \in Configuration
    BY <1>1, <2>1 DEF LoaderTypeOK, ParseArgument, Argument, Configuration
  <2> QED
    BY <1>1, <2>1, <2>2 DEF ParseArgument, LoaderTypeOK
<1>3. ReadInv'
  BY <1>1 DEF ParseArgument, ReadInv, Reading
<1>4. LinesInv'
  BY <1>1 DEF ParseArgument, LinesInv, Reading
<1>5. CallInv'
  BY <1>1 DEF ParseArgument, CallInv, InParserLines
<1>6. ParseInv'
  BY <1>1 DEF ParseArgument, ParseInv, HeaderIs, Parsed, InParserLines, InListing, AddressOf
<1>7. PrintedInv'
  BY <1>1 DEF ParseArgument, PrintedInv, InParserLines, ShortNumbers
<1>8. EndInv'
  BY <1>1
     DEF ParseArgument, EndInv, ShortNumbers, Compared, InListing, SeparatedLinesNeverAssert,
     OnlyTrailingNewlineUnexplained
<1> QED
  BY <1>2, <1>3, <1>4, <1>5, <1>6, <1>7, <1>8 DEF LoaderInv

\* A piece that is read continues the beginning of the file (main.c:64-70).
LEMMA ReadKeepsInv == ASSUME LoaderInv, Read PROVE LoaderInv'
<1>1. LoaderTypeOK /\ ReadInv /\ LinesInv /\ CallInv /\ ParseInv /\ PrintedInv /\ EndInv
  BY DEF LoaderInv
<1>2. PICK n \in 1 .. Remaining : Len(program) + n <= Capacity /\ program' = AppendPiece(n)
  BY DEF Read
<1>3. /\ program' \in Seq(Line) /\ Len(program') <= Len(text)
      /\ \A k \in 1 .. Len(program') : program'[k] = text[k]
  <2> DEFINE piece == SubSeq(text, Len(program) + 1, Len(program) + n)
  <2>1. text \in Seq(Line) /\ Len(text) \in Nat /\ program \in Seq(Line) /\ Len(program) \in Nat
        /\ n \in Nat /\ Len(program) + n <= Len(text)
    BY <1>1, Lengths, <1>2 DEF LoaderTypeOK, ReadInv, Text, Remaining
  <2>2. \A k \in Len(program) + 1 .. Len(program) + n : text[k] \in Line
    BY <2>1, ElementOfSeq
  <2>3. /\ piece \in Seq(Line) /\ Len(piece) = n
        /\ \A k \in 1 .. n : piece[k] = text[Len(program) + k]
    <3>1. /\ piece \in Seq(Line)
          /\ Len(piece) = IF Len(program) + 1 <= Len(program) + n
                          THEN (Len(program) + n) - (Len(program) + 1) + 1 ELSE 0
          /\ \A k \in 1 .. (Len(program) + n) - (Len(program) + 1) + 1 :
               piece[k] = text[Len(program) + 1 + k - 1]
      BY <2>1, <2>2, SubSeqProperties
    <3> QED
      BY <1>2, <2>1, <3>1
  <2> HIDE DEF piece
  <2>4. /\ program \o piece \in Seq(Line) /\ Len(program \o piece) = Len(program) + n
        /\ \A k \in 1 .. Len(program) + n :
             (program \o piece)[k] =
               IF k <= Len(program) THEN program[k] ELSE piece[k - Len(program)]
    BY <2>1, <2>3, ConcatProperties
  <2>5. program' = program \o piece
    BY <1>2 DEF AppendPiece, piece
  <2>6. \A k \in 1 .. Len(program) : program[k] = text[k]
    BY <1>1 DEF ReadInv, Read
  <2> QED
    BY <2>1, <2>3, <2>4, <2>5, <2>6
<1>4. LoaderTypeOK'
  BY <1>1, <1>3 DEF Read, LoaderTypeOK
<1>5. ReadInv'
  BY <1>1, <1>3 DEF Read, ReadInv, Reading
<1>6. LinesInv'
  BY <1>1 DEF Read, LinesInv, Reading
<1>7. CallInv'
  BY <1>1 DEF Read, CallInv, InParserLines
<1>8. ParseInv'
  BY <1>1 DEF Read, ParseInv, HeaderIs, Parsed, InParserLines, InListing, AddressOf
<1>9. PrintedInv'
  BY <1>1 DEF Read, PrintedInv, InParserLines, ShortNumbers
<1>10. EndInv'
  BY <1>1
     DEF Read, EndInv, ShortNumbers, Compared, InListing, SeparatedLinesNeverAssert,
     OnlyTrailingNewlineUnexplained
<1> QED
  BY <1>4, <1>5, <1>6, <1>7, <1>8, <1>9, <1>10 DEF LoaderInv

\* A failing read ends everything (main.c:65-67).
LEMMA ReadFailsKeepsInv == ASSUME LoaderInv, ReadFails PROVE LoaderInv'
<1>1. LoaderTypeOK /\ ReadInv /\ LinesInv /\ CallInv /\ ParseInv /\ PrintedInv /\ EndInv
  BY DEF LoaderInv
<1>2. LoaderTypeOK'
  BY <1>1 DEF ReadFails, LoaderTypeOK, Stages, Ends
<1>3. ReadInv'
  BY <1>1 DEF ReadFails, ReadInv, Reading
<1>4. LinesInv'
  BY <1>1 DEF ReadFails, LinesInv, Reading
<1>5. CallInv'
  BY <1>1 DEF ReadFails, CallInv, InParserLines
<1>6. ParseInv'
  BY <1>1 DEF ReadFails, ParseInv, HeaderIs, Parsed, InParserLines, InListing, AddressOf
<1>7. PrintedInv'
  BY <1>1 DEF ReadFails, PrintedInv, InParserLines, ShortNumbers
<1>8. EndInv'
  BY <1>1
     DEF ReadFails, EndInv, ShortNumbers, Compared, InListing, SeparatedLinesNeverAssert,
     OnlyTrailingNewlineUnexplained
<1> QED
  BY <1>2, <1>3, <1>4, <1>5, <1>6, <1>7, <1>8 DEF LoaderInv

\* What is left of a line that is cut, or becomes of it when something follows, is a
\* line again, and of its word unless that was cut or lengthened too.
LEMMA CutsAndExtensions ==
  ASSUME NEW l \in Line
  PROVE  /\ Cuts(l) \subseteq Line /\ Extensions(l) \subseteq Line
         /\ \A m \in Cuts(l) \cup Extensions(l) : WordOf(m, l)
<1>1. /\ l.args \in Seq(Int) /\ Len(l.args) \in Nat /\ l.exact \in BOOLEAN
      /\ Blank \in Line /\ Garbage \in Line
  BY LenProperties, EmptySeq DEF Line, Blank, Garbage
<1>2. ASSUME NEW k \in 0 .. Len(l.args)
      PROVE  /\ [l EXCEPT !.args = SubSeq(l.args, 1, k), !.exact = FALSE] \in Line
             /\ WordOf([l EXCEPT !.args = SubSeq(l.args, 1, k), !.exact = FALSE], l)
  <2>1. SubSeq(l.args, 1, k) \in Seq(Int)
    BY <1>1, SubSeqProperties, ElementOfSeq
  <2> QED
    BY <2>1 DEF Line, WordOf
<1>3. ASSUME NEW m \in Int, NEW b \in BOOLEAN, Len(l.args) # 0
      PROVE  /\ [l EXCEPT !.args[Len(l.args)] = m, !.exact = b] \in Line
             /\ WordOf([l EXCEPT !.args[Len(l.args)] = m, !.exact = b], l)
             /\ [l EXCEPT !.args[Len(l.args)] = m] \in Line
             /\ WordOf([l EXCEPT !.args[Len(l.args)] = m], l)
  <2>1. [l.args EXCEPT ![Len(l.args)] = m] \in Seq(Int)
    BY <1>1, <1>3, ExceptSeq
  <2> QED
    BY <1>1, <2>1 DEF Line, WordOf
<1>4. ASSUME NEW m \in Cuts(l) PROVE m \in Line /\ WordOf(m, l)
  <2>1. CASE m \in {Blank, Garbage}
    <3>1. WordOf(Blank, l) /\ WordOf(Garbage, l)
      BY DEF Blank, Garbage, WordOf
    <3> QED
      BY <1>1, <2>1, <3>1
  <2>2. CASE \E k \in 0 .. Len(l.args) :
               m = [l EXCEPT !.args = SubSeq(l.args, 1, k), !.exact = FALSE]
    BY <1>2, <2>2
  <2>3. CASE /\ Len(l.args) # 0
             /\ \E v \in Shortened(l.args[Len(l.args)]) :
                  m = [l EXCEPT !.args[Len(l.args)] = v, !.exact = @ /\ l.word \notin FormatROR]
    <3>1. PICK v \in Shortened(l.args[Len(l.args)]) :
            m = [l EXCEPT !.args[Len(l.args)] = v, !.exact = @ /\ l.word \notin FormatROR]
      BY <2>3
    <3>2. l.args[Len(l.args)] \in Int
      BY <1>1, <2>3, ElementOfSeq
    <3>3. v \in Int
      <4>1. \A u \in Int, t \in {10, 100, 1000} : u \div t \in Int /\ -((-u) \div t) \in Int
        OBVIOUS
      <4>2. PICK t \in {10, 100, 1000} :
              v = IF l.args[Len(l.args)] < 0 THEN -((-l.args[Len(l.args)]) \div t)
                  ELSE l.args[Len(l.args)] \div t
        BY <3>1 DEF Shortened
      <4> QED
        BY <3>2, <4>1, <4>2
    <3>4. m = [l EXCEPT !.args[Len(l.args)] = v, !.exact = l.exact /\ l.word \notin FormatROR]
      BY <3>1
    <3>5. (l.exact /\ l.word \notin FormatROR) \in BOOLEAN
      OBVIOUS
    <3> QED
      BY <1>3, <2>3, <3>3, <3>4, <3>5
  <2> QED
    <3>1. \/ m \in {Blank, Garbage}
          \/ \E k \in IF l.word \in FormatROR THEN 0 .. Len(l.args) ELSE 0 .. Len(l.args) - 1 :
               m = [l EXCEPT !.args = SubSeq(l.args, 1, k), !.exact = FALSE]
          \/ /\ Len(l.args) # 0
             /\ \E v \in Shortened(l.args[Len(l.args)]) :
                  m = [l EXCEPT !.args[Len(l.args)] = v, !.exact = @ /\ l.word \notin FormatROR]
      BY <1>4, Zenon DEF Cuts
    <3>2. (IF l.word \in FormatROR THEN 0 .. Len(l.args) ELSE 0 .. Len(l.args) - 1)
            \subseteq 0 .. Len(l.args)
      BY <1>1
    <3> QED
      BY <2>1, <2>2, <2>3, <3>1, <3>2, Zenon
<1>5. ASSUME NEW m \in Extensions(l) PROVE m \in Line /\ WordOf(m, l)
  <2>1. CASE m = Garbage
    BY <1>1, <2>1 DEF Garbage, WordOf
  <2>2. CASE m = [l EXCEPT !.exact = FALSE]
    BY <2>2 DEF Line, WordOf
  <2>3. CASE /\ Len(l.args) # 0
             /\ m = [l EXCEPT !.args[Len(l.args)] = Lengthened(@)]
    <3>1. Lengthened(l.args[Len(l.args)]) \in Int
      BY <1>1, <2>3, ElementOfSeq DEF Lengthened
    <3>2. m = [l EXCEPT !.args[Len(l.args)] = Lengthened(l.args[Len(l.args)])]
      BY <2>3
    <3> QED
      BY <1>3, <2>3, <3>1, <3>2, Zenon
  <2>4. CASE /\ Len(l.args) # 0
             /\ m = [l EXCEPT !.args[Len(l.args)] = Longest(@), !.exact = FALSE]
    <3>1. Longest(l.args[Len(l.args)]) \in Int
      BY <1>1, <2>4, ElementOfSeq, LongAssumption DEF Longest
    <3>2. m = [l EXCEPT !.args[Len(l.args)] = Longest(l.args[Len(l.args)]), !.exact = FALSE]
      BY <2>4
    <3> QED
      BY <1>3, <2>4, <3>1, <3>2
  <2> QED
    BY <1>1, <1>5, <2>1, <2>2, <2>3, <2>4 DEF Extensions
<1> QED
  BY <1>4, <1>5

\* What is in the buffer is a text, and lines starts on it (main.c:64-73).
LEMMA ReadEndsKeepsInv == ASSUME LoaderInv, ReadEnds PROVE LoaderInv'
<1>1. LoaderTypeOK /\ ReadInv /\ LinesInv /\ CallInv /\ ParseInv /\ PrintedInv /\ EndInv
  BY DEF LoaderInv
<1>2. /\ program \in Seq(Line) /\ Len(program) \in Nat \ {0} /\ program # <<>>
      /\ Remaining = 0 => program = text
      /\ Remaining > 0 => Len(program) = Capacity
      /\ Len(text) = 1 => Remaining = 0
      /\ ~(Remaining < 0)
  <2>1. /\ program \in Seq(Line) /\ text \in Seq(Line) /\ Len(program) <= Len(text)
        /\ \A k \in 1 .. Len(program) : program[k] = text[k]
        /\ Capacity \in Nat \ {0} /\ Remaining = Len(text) - Len(program)
        /\ Remaining = 0 \/ Len(program) = Capacity
    BY <1>1, LoaderAssumption DEF LoaderTypeOK, ReadInv, Text, Remaining, ReadEnds
  <2>2. Len(program) \in Nat \ {0}
    BY Lengths, <2>1
  <2>3. ASSUME Remaining = 0 PROVE program = text
    BY Lengths, <2>1, <2>3, SeqEqual
  <2> QED
    BY Lengths, <2>1, <2>2, <2>3, EmptySeq
<1>3. \A l \in Line : /\ Cuts(l) \subseteq Line /\ Extensions(l) \subseteq Line
                     /\ \A m \in Cuts(l) \cup Extensions(l) : WordOf(m, l)
  BY CutsAndExtensions
<1>4. ASSUME NEW s \in Seq(Line), s # <<>>, NEW u \in Unterminated(s)
      PROVE  /\ u \in Seq(Line) /\ u # <<>>
             /\ WordOf(u[1], s[1])
  <2>1. Len(s) \in Nat \ {0} /\ s[Len(s)] \in Line /\ Garbage \in Line
    <3>1. Len(s) \in Nat \ {0}
      BY <1>4, EmptySeq
    <3>2. s[Len(s)] \in Line
      BY <3>1, ElementOfSeq
    <3>3. Garbage \in Line
      BY EmptySeq DEF Garbage, Line
    <3> QED
      BY <3>1, <3>2, <3>3
  <2>2. CASE u = Append(s, Garbage)
    <3>1. u \in Seq(Line) /\ Len(u) = Len(s) + 1 /\ u[1] = s[1]
      BY <2>1, <2>2
    <3> QED
      BY <2>1, <3>1, EmptySeq DEF WordOf
  <2>3. ASSUME NEW l \in Extensions(s[Len(s)]), u = [s EXCEPT ![Len(s)] = l]
        PROVE  /\ u \in Seq(Line) /\ u # <<>>
               /\ WordOf(u[1], s[1])
    <3>1. l \in Line /\ WordOf(l, s[Len(s)])
      BY <1>3, <2>1, <2>3
    <3>2. /\ u \in Seq(Line) /\ Len(u) = Len(s)
          /\ \A j \in 1 .. Len(s) : u[j] = IF j = Len(s) THEN l ELSE s[j]
      BY <2>1, <2>3, <3>1, ExceptSeq
    <3>3. WordOf(s[1], s[1])
      BY DEF WordOf
    <3>4. u[1] = IF 1 = Len(s) THEN l ELSE s[1]
      BY <2>1, <3>2
    <3> QED
      BY <2>1, <3>1, <3>2, <3>3, <3>4, EmptySeq
  <2> QED
    BY <1>4, <2>2, <2>3 DEF Unterminated, End
<1>5. /\ program' \in Seq(Line) /\ program' # <<>>
      /\ WordOf(program'[1], text[1])
  <2> DEFINE full == IF Remaining > 0
                     THEN {[program EXCEPT ![Capacity] = l] :
                             l \in Cuts(End(program)) \cup {End(program)}}
                     ELSE {program}
  <2>1. ASSUME NEW s \in full
        PROVE  /\ s \in Seq(Line) /\ s # <<>>
               /\ WordOf(s[1], text[1])
    <3>0. program[1] = text[1] /\ WordOf(text[1], text[1])
      <4>1. \A k \in 1 .. Len(program) : program[k] = text[k]
        BY <1>1 DEF ReadInv, ReadEnds
      <4>2. 1 \in 1 .. Len(program)
        BY <1>2
      <4> QED
        BY <4>1, <4>2 DEF WordOf
    <3>1. CASE Remaining > 0
      <4>1. PICK l \in Cuts(End(program)) \cup {End(program)} : s = [program EXCEPT ![Capacity] = l]
        BY <3>1
      <4>2. End(program) \in Line
        BY <1>2, ElementOfSeq DEF End
      <4>3. l \in Line /\ WordOf(l, program[Len(program)])
        BY <1>3, <4>1, <4>2 DEF End, WordOf
      <4>4. /\ s \in Seq(Line) /\ Len(s) = Len(program)
            /\ \A j \in 1 .. Len(program) : s[j] = IF j = Len(program) THEN l ELSE program[j]
        <5>1. s = [program EXCEPT ![Len(program)] = l]
          BY <1>2, <3>1, <4>1
        <5> QED
          BY <1>2, <4>3, <5>1, ExceptSeq
      <4>5. s[1] = IF 1 = Len(program) THEN l ELSE program[1]
        BY <1>2, <4>4
      <4> QED
        BY <1>2, <3>0, <4>3, <4>4, <4>5, EmptySeq
    <3>2. CASE ~(Remaining > 0)
      BY <1>2, <3>0, <3>2
    <3> QED
      BY <3>1, <3>2
  <2>2. program' \in full \/ \E s \in full : program' \in Unterminated(s)
    BY DEF ReadEnds, BufferContents
  <2> HIDE DEF full
  <2>3. ASSUME NEW s \in full, program' \in Unterminated(s)
        PROVE  /\ program' \in Seq(Line) /\ program' # <<>>
               /\ WordOf(program'[1], text[1])
    BY <1>4, <2>1, <2>3 DEF WordOf
  <2> QED
    BY <2>1, <2>2, <2>3
<1>6. stage' = "lines" /\ src' = program' /\ pos' = 0 /\ out' = <<>> /\ caller' = "parser"
  BY DEF ReadEnds, CallLines
<1>7. LoaderTypeOK'
  BY <1>1, <1>5, <1>6 DEF ReadEnds, LoaderTypeOK, Stages
<1>8. ReadInv'
  BY <1>1, <1>2, <1>5, <1>6 DEF ReadEnds, ReadInv, Reading
<1>9. LinesInv'
  BY <1>5, <1>6 DEF LinesInv, Reading
<1>10. CallInv'
  BY <1>1 DEF ReadEnds, CallLines, CallInv, InParserLines
<1>11. ParseInv'
  BY <1>1 DEF ReadEnds, CallLines, ParseInv, HeaderIs, Parsed, InParserLines, InListing, AddressOf
<1>12. PrintedInv'
  BY <1>1 DEF ReadEnds, CallLines, PrintedInv, InParserLines, ShortNumbers
<1>13. EndInv'
  BY <1>1
     DEF ReadEnds, CallLines, EndInv, ShortNumbers, Compared, InListing, SeparatedLinesNeverAssert,
     OnlyTrailingNewlineUnexplained
<1> QED
  BY <1>7, <1>8, <1>9, <1>10, <1>11, <1>12, <1>13 DEF LoaderInv

\* One turn of the loop of lines finds the next line that is not empty, or ends in
\* the assertion, for which the text has an empty line (utilities.c:60-66).
LEMMA NextTokenKeepsInv == ASSUME LoaderInv, NextToken PROVE LoaderInv'
<1>1. LoaderTypeOK /\ ReadInv /\ LinesInv /\ CallInv /\ ParseInv /\ PrintedInv /\ EndInv
  BY DEF LoaderInv
<1>2. \/ stage' = "assert" /\ pos' = pos /\ out' = out
         /\ \A k \in pos + 1 .. Len(src) : src[k] = Blank
      \/ \E k \in pos + 1 .. Len(src) :
           /\ src[k] # Blank /\ \A j \in pos + 1 .. k - 1 : src[j] = Blank
           /\ stage' = stage /\ pos' = k /\ out' = Append(out, k)
  BY DEF NextToken
<1>3. /\ stage = "lines" /\ ~Reading /\ Len(out) < CountLines(src)
      /\ pos \in 0 .. Len(src) /\ out \in Seq(1 .. Len(src))
      /\ src' = src /\ program' = program /\ caller' = caller
  BY <1>1 DEF NextToken, LoaderTypeOK, Reading, parserVars
<1>4. ASSUME NEW k \in pos + 1 .. Len(src), out' = Append(out, k)
      PROVE  /\ out' \in Seq(1 .. Len(src)) /\ Len(out') = Len(out) + 1
             /\ out'[Len(out) + 1] = k /\ \A j \in 1 .. Len(out) : out'[j] = out[j]
  <2>1. k \in 1 .. Len(src)
    BY Lengths, <1>3
  <2> QED
    BY Lengths, <1>3, <1>4, <2>1
<1>5. LoaderTypeOK'
  <2>1. pos' \in 0 .. Len(src) /\ out' \in Seq(1 .. Len(src))
    BY Lengths, <1>2, <1>3, <1>4
  <2>2. \A k \in DOMAIN out' : src[out'[k]] # Blank
    <3>1. CASE out' = out
      BY Domains, Elements, <3>1
    <3>2. ASSUME NEW k \in pos + 1 .. Len(src), src[k] # Blank, out' = Append(out, k)
          PROVE  \A j \in DOMAIN out' : src[out'[j]] # Blank
      <4>1. DOMAIN out' = 1 .. Len(out) + 1
        BY <1>4, <3>2, LenProperties
      <4> QED
        BY Lengths, Elements, <1>4, <3>2, <4>1
    <3> QED
      BY <1>2, <3>1, <3>2
  <2>3. stage' \in Stages
    BY <1>2, <1>3 DEF Stages, Ends
  <2> QED
    BY <1>1, <1>3, <2>1, <2>2, <2>3 DEF NextToken, parserVars, LoaderTypeOK
<1>6. ReadInv'
  BY <1>1 DEF NextToken, parserVars, ReadInv, Reading
<1>7. LinesInv'
  <2>1. CASE out' = out /\ pos' = pos
    BY <1>1, <1>3, <2>1 DEF LinesInv, Reading
  <2>2. ASSUME NEW k \in pos + 1 .. Len(src), src[k] # Blank,
               \A j \in pos + 1 .. k - 1 : src[j] = Blank,
               pos' = k, out' = Append(out, k)
        PROVE  LinesInv'
    <3>1. /\ Len(out') = Len(out) + 1 /\ out'[Len(out) + 1] = k
          /\ \A j \in 1 .. Len(out) : out'[j] = out[j] /\ out[j] \in Nat
      BY Elements, <1>4, <2>2
    <3>2. /\ Len(out) <= pos /\ src # <<>>
          /\ \A j \in 1 .. Len(out) : j <= out[j] /\ out[j] + Len(out) - j <= pos
          /\ pos = Len(out) \/ \E j \in 1 .. pos - 1 : src[j] = Blank
      BY <1>1, <1>3 DEF LinesInv
    <3>3. \A j \in 1 .. Len(out') : j <= out'[j] /\ out'[j] + Len(out') - j <= pos'
      <4>1. ASSUME NEW j \in 1 .. Len(out) PROVE j <= out'[j] /\ out'[j] + Len(out') - j <= k
        <5>1. /\ j <= out[j] /\ out[j] + Len(out) - j <= pos
              /\ out'[j] = out[j] /\ out[j] \in Nat /\ Len(out') = Len(out) + 1
          BY <3>1, <3>2
        <5>2. k \in Nat /\ pos \in Nat /\ pos + 1 <= k
          BY Lengths, <1>3
        <5> QED
          BY Lengths, <5>1, <5>2
      <4>2. Len(out) + 1 <= k
        BY Lengths, <1>3, <3>2
      <4> QED
        BY Lengths, <2>2, <3>1, <4>1, <4>2
    <3>4. pos' = Len(out') \/ \E j \in 1 .. pos' - 1 : src[j] = Blank
      <4>1. CASE k = pos + 1
        BY Lengths, <1>3, <2>2, <3>1, <3>2, <4>1
      <4>2. CASE k # pos + 1
        <5>1. pos + 1 \in 1 .. k - 1 /\ src[pos + 1] = Blank
          BY <1>3, <2>2, <4>2
        <5> QED
          BY <2>2, <5>1
      <4> QED
        BY <4>1, <4>2
    <3> QED
      BY Lengths, <1>3, <2>2, <3>1, <3>2, <3>3, <3>4 DEF LinesInv
  <2> QED
    BY <1>2, <2>1, <2>2
<1>8. CallInv'
  BY <1>1 DEF NextToken, parserVars, CallInv, InParserLines
<1>9. ParseInv'
  BY <1>1 DEF NextToken, parserVars, ParseInv, HeaderIs, Parsed, InParserLines, InListing, AddressOf
<1>10. PrintedInv'
  BY <1>1 DEF NextToken, parserVars, PrintedInv, InParserLines, ShortNumbers
<1>11. EndInv'
  <2>1. CASE stage' = stage
    BY <1>1, <2>1 DEF NextToken, parserVars, EndInv, ShortNumbers, Compared, InListing,
       SeparatedLinesNeverAssert, OnlyTrailingNewlineUnexplained
  <2>2. CASE stage' = "assert" /\ \A k \in pos + 1 .. Len(src) : src[k] = Blank
    <3>1. \E k \in 1 .. Len(src) - 1 : src[k] = Blank
      <4>1. CASE pos = Len(out)
        <5>1. src[Len(src)] = Blank
          BY <1>1, Lengths, NothingEmpty, LineCount, <1>3, <2>2, <4>1 DEF LoaderTypeOK
        <5>2. pos + 1 <= Len(src) - 1
          BY <1>1, Lengths, NothingEmpty, LineCount, <1>3, <4>1, <5>1 DEF LoaderTypeOK
        <5> QED
          BY <1>3, <2>2, <5>2
      <4>2. CASE pos # Len(out)
        BY <1>1, Lengths, <1>3, <4>2 DEF LinesInv
      <4> QED
        BY <4>1, <4>2
    <3>2. \E k \in 1 .. Len(program) - 1 : program[k] = Blank
      <4>1. CASE caller = "parser"
        BY <1>1, <1>3, <3>1, <4>1 DEF CallInv, InParserLines
      <4>2. CASE caller = "input"
        <5>1. src = Tail(program) /\ program # <<>> /\ program \in Seq(Line)
          BY <1>1, NothingEmpty, <1>3, <4>2 DEF CallInv, LoaderTypeOK
        <5>2. Len(src) = Len(program) - 1 /\ \A k \in 1 .. Len(src) : src[k] = program[k + 1]
          BY <5>1, HeadTailProperties
        <5>3. PICK k \in 1 .. Len(src) - 1 : src[k] = Blank
          BY <3>1
        <5>4. k + 1 \in 1 .. Len(program) - 1 /\ program[k + 1] = Blank
          BY Lengths, <5>2, <5>3
        <5> QED
          BY <5>4
      <4>3. CASE caller = "output"
        <5>1. src = printed
          BY <1>1, <1>3, <4>3 DEF CallInv
        <5> QED
          BY Lengths, PrintedLine, <3>1, <5>1
      <4> QED
        BY <1>1, <4>1, <4>2, <4>3 DEF LoaderTypeOK
    <3> QED
      BY <1>1, <1>3, <2>2, <3>2 DEF EndInv, ShortNumbers, Compared, InListing,
         SeparatedLinesNeverAssert,
         OnlyTrailingNewlineUnexplained
  <2> QED
    BY <1>2, <2>1, <2>2
<1> QED
  BY <1>5, <1>6, <1>7, <1>8, <1>9, <1>10, <1>11 DEF LoaderInv

\* No lines, no program (instructions.c:35).
LEMMA NoLinesKeepsInv == ASSUME LoaderInv, NoLines PROVE LoaderInv'
<1>1. LoaderTypeOK /\ ReadInv /\ LinesInv /\ CallInv /\ ParseInv /\ PrintedInv /\ EndInv
  BY DEF LoaderInv
<1>2. LoaderTypeOK'
  BY <1>1 DEF NoLines, parserVars, LinesDone, LoaderTypeOK, Stages, Ends
<1>3. ReadInv'
  BY <1>1 DEF NoLines, parserVars, LinesDone, ReadInv, Reading
<1>4. LinesInv'
  BY <1>1 DEF NoLines, parserVars, LinesDone, LinesInv, Reading
<1>5. CallInv'
  BY <1>1 DEF NoLines, parserVars, LinesDone, CallInv, InParserLines
<1>6. ParseInv'
  BY <1>1
     DEF NoLines, parserVars, LinesDone, ParseInv, HeaderIs, Parsed, InParserLines, InListing,
          AddressOf
<1>7. PrintedInv'
  BY <1>1 DEF NoLines, parserVars, LinesDone, PrintedInv, InParserLines, ShortNumbers
<1>8. EndInv'
  <2>1. stage = "lines" /\ src = program /\ CountLines(src) = 0
    BY <1>1, Lengths DEF NoLines, LinesDone, CallInv, InParserLines
  <2>2. src \in Seq(Line) /\ src # <<>>
    BY <1>1, NothingEmpty, <2>1 DEF LoaderTypeOK, Reading
  <2>3. Len(program) = 1
    <3>1. /\ Len(src) \in Nat \ {0} /\ CountLines(src) \in Nat
          /\ CountLines(src) >= Len(src) - 1
      BY LineCount, <2>2
    <3>2. CountLines(src) = 0
      BY <2>1
    <3> DEFINE n == Len(src)
               c == CountLines(src)
    <3>3. n = 1
      <4>1. n \in Nat \ {0} /\ c \in Nat /\ c >= n - 1 /\ c = 0
        BY <3>1, <3>2
      <4> HIDE DEF n, c
      <4> QED
        BY <4>1
    <3> QED
      BY <2>1, <3>3, Zenon
  <2>4. ~WellFormed(program)
    BY <2>3 DEF WellFormed
  <2> QED
    BY <1>1, <2>4 DEF NoLines, parserVars, WellFormed, EndInv, ShortNumbers, Compared, InListing,
       SeparatedLinesNeverAssert, OnlyTrailingNewlineUnexplained
<1> QED
  BY <1>2, <1>3, <1>4, <1>5, <1>6, <1>7, <1>8 DEF LoaderInv

\* The header becomes the configuration (instructions.c:40).
LEMMA ReadHeaderKeepsInv == ASSUME LoaderInv, ReadHeader PROVE LoaderInv'
<1>1. LoaderTypeOK /\ ReadInv /\ LinesInv /\ CallInv /\ ParseInv /\ PrintedInv /\ EndInv
  BY DEF LoaderInv
<1>2. /\ src = program /\ LineNo(1) = program[1] /\ stage = "lines" /\ caller = "parser"
      /\ Len(out) = CountLines(src) /\ Len(out) >= 1 /\ program[1] \in Line
  <2>1. /\ stage = "lines" /\ caller = "parser" /\ ~Reading
        /\ Len(out) = CountLines(src) /\ out # <<>>
    BY DEF ReadHeader, LinesDone, Reading
  <2>2. src = program /\ Len(out) >= 1
    BY <1>1, Lengths, <2>1, EmptySeq DEF CallInv, InParserLines, LoaderTypeOK
  <2>3. out[1] = 1
    BY Lengths, AllLinesFound, <2>1, <2>2
  <2>4. program[1] \in Line
    BY Lengths, Elements, NothingEmpty, <2>1
  <2> QED
    BY <2>1, <2>2, <2>3, <2>4 DEF LineNo
<1>3. /\ ParsesHeader(program[1])
      /\ cfg' = [cfg EXCEPT !.instr_lower = Wrap(program[1].args[1]),
                            !.instr_upper = Wrap(program[1].args[2]),
                            !.entry_address = Wrap(program[1].args[3]),
                            !.memory_sz = Wrap(program[1].args[4])]
  BY <1>2 DEF ReadHeader
<1>4. cfg \in Configuration
  BY <1>1 DEF LoaderTypeOK
<1>5. LoaderTypeOK'
  <2>1. \A k \in 1 .. 4 : program[1].args[k] \in Int
    <3>1. program[1].args \in Seq(Int) /\ Len(program[1].args) >= 4
      BY <1>2, <1>3 DEF Line, ParsesHeader
    <3> QED
      BY <3>1, ElementOfSeq, LenProperties
  <2>2. \A v \in Int : Wrap(v) \in Word
    <3>1. U64 \in Nat \ {0}
      BY WidthAssumption
    <3> QED
      BY <3>1 DEF Wrap, Word
  <2>3. cfg' \in Configuration
    <3>1. /\ Wrap(program[1].args[1]) \in Word /\ Wrap(program[1].args[2]) \in Word
          /\ Wrap(program[1].args[3]) \in Word /\ Wrap(program[1].args[4]) \in Word
      BY <2>1, <2>2
    <3> QED
      BY <1>3, <1>4, <3>1 DEF Configuration
  <2>4. stage' \in Stages
    BY DEF ReadHeader, Stages, Ends
  <2> QED
    BY <1>1, <2>3, <2>4 DEF ReadHeader, LoaderTypeOK
<1>6. ReadInv'
  BY <1>1 DEF ReadHeader, LinesDone, LineNo, ReadInv, Reading
<1>7. LinesInv'
  BY <1>1 DEF ReadHeader, LinesDone, LineNo, LinesInv, Reading
<1>8. CallInv'
  <2>1. instrs' = <<>> /\ Len(instrs') = 0 /\ stage' \in {"parse", "no memory"}
    BY <1>1, <1>2, EmptySeq DEF ReadHeader, ParseInv, InParserLines
  <2>2. out' = out /\ src' = src /\ program' = program /\ caller' = caller
    BY DEF ReadHeader
  <2>3. out # <<>> /\ Len(out) \in Nat
    BY Lengths DEF ReadHeader
  <2> QED
    <3>1. ~InParserLines' /\ (stage' = "parse" => Len(instrs') < Len(out'))
      <4>1. Len(instrs') = 0 /\ Len(out') = Len(out) /\ stage' # "lines"
        BY <2>1, <2>2
      <4> QED
        BY <1>2, <2>3, <4>1 DEF InParserLines
    <3> QED
      BY <1>2, <2>1, <2>2, <2>3, <3>1 DEF CallInv
<1>9. ParseInv'
  <2>1. instrs = <<>> /\ instrs' = <<>> /\ program' = program /\ stage' \in {"parse", "no memory"}
    BY <1>1, <1>2 DEF ReadHeader, ParseInv, InParserLines
  <2>2. /\ cfg'.instr_lower = Wrap(program[1].args[1])
        /\ cfg'.instr_upper = Wrap(program[1].args[2])
        /\ cfg'.entry_address = Wrap(program[1].args[3])
        /\ cfg'.memory_sz = Wrap(program[1].args[4])
    BY <1>3, <1>4 DEF Configuration
  <2>3. Len(instrs') = 0
    BY <2>1, EmptySeq
  <2>4. ~(stage' = "read") /\ ~InParserLines' /\ ~Parsed'
    BY <2>1 DEF InParserLines, Parsed, InListing
  <2> QED
    <3>1. \A k \in 1 .. Len(instrs') : FALSE
      BY <2>3
    <3> QED
      BY <1>3, <2>1, <2>2, <2>4, <3>1 DEF ParseInv, HeaderIs
<1>10. PrintedInv'
  BY <1>1 DEF ReadHeader, LinesDone, LineNo, PrintedInv, InParserLines, ShortNumbers
<1>11. EndInv'
  BY <1>1
     DEF ReadHeader, LinesDone, LineNo, EndInv, ShortNumbers, Compared, InListing,
        SeparatedLinesNeverAssert,
     OnlyTrailingNewlineUnexplained
<1> QED
  BY <1>5, <1>6, <1>7, <1>8, <1>9, <1>10, <1>11 DEF LoaderInv

\* A header that is none is refused (instructions.c:40-43).
LEMMA RejectHeaderKeepsInv == ASSUME LoaderInv, RejectHeader PROVE LoaderInv'
<1>1. LoaderTypeOK /\ ReadInv /\ LinesInv /\ CallInv /\ ParseInv /\ PrintedInv /\ EndInv
  BY DEF LoaderInv
<1>2. /\ src = program /\ LineNo(1) = program[1] /\ stage = "lines" /\ caller = "parser"
      /\ Len(out) = CountLines(src) /\ Len(out) >= 1 /\ program[1] \in Line
  <2>1. /\ stage = "lines" /\ caller = "parser" /\ ~Reading
        /\ Len(out) = CountLines(src) /\ out # <<>>
    BY DEF RejectHeader, LinesDone, Reading
  <2>2. src = program /\ Len(out) >= 1
    BY <1>1, Lengths, <2>1, EmptySeq DEF CallInv, InParserLines, LoaderTypeOK
  <2>3. out[1] = 1
    BY Lengths, AllLinesFound, <2>1, <2>2
  <2>4. program[1] \in Line
    BY Lengths, Elements, NothingEmpty, <2>1
  <2> QED
    BY <2>1, <2>2, <2>3, <2>4 DEF LineNo
<1>3. LoaderTypeOK'
  BY <1>1 DEF RejectHeader, LinesDone, LineNo, parserVars, LoaderTypeOK, Stages, Ends
<1>4. ReadInv'
  BY <1>1 DEF RejectHeader, LinesDone, LineNo, parserVars, ReadInv, Reading
<1>5. LinesInv'
  BY <1>1 DEF RejectHeader, LinesDone, LineNo, parserVars, LinesInv, Reading
<1>6. CallInv'
  BY <1>1 DEF RejectHeader, LinesDone, LineNo, parserVars, CallInv, InParserLines
<1>7. ParseInv'
  BY <1>1
     DEF RejectHeader, LinesDone, LineNo, parserVars, ParseInv, HeaderIs, Parsed, InParserLines,
     InListing, AddressOf
<1>8. PrintedInv'
  BY <1>1 DEF RejectHeader, LinesDone, LineNo, parserVars, PrintedInv, InParserLines, ShortNumbers
<1>9. EndInv'
  <2>1. ~WellFormed(program)
    BY <1>2 DEF RejectHeader, WellFormed
  <2> QED
    BY <1>1, <2>1 DEF RejectHeader, parserVars, EndInv, ShortNumbers, Compared, InListing,
       SeparatedLinesNeverAssert, OnlyTrailingNewlineUnexplained, WellFormed
<1> QED
  BY <1>3, <1>4, <1>5, <1>6, <1>7, <1>8, <1>9 DEF LoaderInv

\* A line becomes the next instruction or the end of the parsing (instructions.c:63).
LEMMA ParseLineKeepsInv == ASSUME LoaderInv, ParseLine PROVE LoaderInv'
<1>1. LoaderTypeOK /\ ReadInv /\ LinesInv /\ CallInv /\ ParseInv /\ PrintedInv /\ EndInv
  BY DEF LoaderInv
<1> DEFINE k == Len(instrs) + 1
           l == program[k + 1]
<1>2. /\ stage = "parse" /\ ~Reading /\ src = program /\ Len(out) = CountLines(src)
      /\ k + 1 <= Len(out) /\ Len(out) <= Len(program) /\ k \in Nat \ {0}
  <2>1. /\ stage = "parse" /\ ~Reading /\ src = program /\ Len(out) = CountLines(src)
        /\ k + 1 <= Len(out)
    <3>1. stage = "parse" /\ Len(instrs) + 1 < Len(out)
      BY DEF ParseLine
    <3>2. src = program /\ Len(out) = CountLines(src)
      BY <1>1, <3>1 DEF CallInv
    <3> QED
      BY Lengths, <3>1, <3>2 DEF Reading
  <2> QED
    BY <1>1, Lengths, NothingEmpty, LineCount, <2>1 DEF LoaderTypeOK
<1>3. LineNo(k + 1) = l /\ l \in Line
  BY Lengths, Elements, AllLinesFound, <1>2 DEF LineNo
<1>4. \/ /\ Parses(l) /\ stage' = stage
         /\ instrs' = Append(instrs, [inst |-> Decode(l), inst_addr |-> AddressOf(k)])
      \/ ~Parses(l) /\ stage' = "parse error" /\ instrs' = instrs
  BY <1>3 DEF ParseLine
<1>5. /\ UNCHANGED <<text, argv, cfg, program, src, caller, pos, out,
                     printed, off, inlines, shown, whole>>
      /\ printed = <<>> /\ off = 0 /\ Len(printed) = 0
  BY <1>1, <1>2 DEF ParseLine, PrintedInv
<1> HIDE DEF k, l
<1>6. ASSUME Parses(l)
      PROVE  /\ instrs' \in Seq(LoadedInstruction) /\ Len(instrs') = k
             /\ instrs'[k] = [inst |-> Decode(l), inst_addr |-> AddressOf(k)]
             /\ \A j \in 1 .. Len(instrs) : instrs'[j] = instrs[j]
             /\ Decode(l).rd <= 31 /\ Decode(l).rs1 <= 31 /\ Decode(l).rs2 <= 31
  <2>1. /\ Decode(l) \in Instruction
        /\ Decode(l).rd <= 31 /\ Decode(l).rs1 <= 31 /\ Decode(l).rs2 <= 31
    BY <1>3, <1>6, ParsedLine, Zenon
  <2>2. AddressOf(k) \in Word
    <3>1. U64 \in Nat \ {0}
      BY WidthAssumption
    <3>2. cfg.instr_lower + (k - 1) * 4 \in Int
      <4>1. cfg.instr_lower \in Word
        BY <1>1 DEF LoaderTypeOK, Configuration
      <4>2. cfg.instr_lower \in Int /\ k - 1 \in Int
        BY <1>2, <3>1, <4>1 DEF Word
      <4> QED
        BY <4>2
    <3> QED
      BY <3>1, <3>2 DEF AddressOf, Wrap, Word
  <2>3. [inst |-> Decode(l), inst_addr |-> AddressOf(k)] \in LoadedInstruction
    BY <2>1, <2>2 DEF LoadedInstruction
  <2> DEFINE new == [inst |-> Decode(l), inst_addr |-> AddressOf(k)]
  <2>4. /\ instrs' = Append(instrs, new)
        /\ new \in LoadedInstruction /\ instrs \in Seq(LoadedInstruction)
    BY <1>1, <1>4, <1>6, <2>3 DEF LoaderTypeOK
  <2> HIDE DEF new
  <2>5. /\ instrs' \in Seq(LoadedInstruction) /\ Len(instrs') = k /\ instrs'[k] = new
        /\ \A j \in 1 .. Len(instrs) : instrs'[j] = instrs[j]
    BY Lengths, <2>4 DEF k
  <2> QED
    BY <2>1, <2>5 DEF new
<1>7. LoaderTypeOK'
  <2>1. CASE Parses(l)
    <3>1. DOMAIN instrs' = 1 .. k
      BY <1>6, <2>1, LenProperties
    <3>2. instrs'[k].inst = Decode(l)
      BY <1>6, <2>1
    <3>3. \A j \in DOMAIN instrs' :
            LET i == instrs'[j].inst IN i.rd <= 31 /\ i.rs1 <= 31 /\ i.rs2 <= 31
      <4>1. \A j \in 1 .. Len(instrs) :
              instrs[j].inst.rd <= 31 /\ instrs[j].inst.rs1 <= 31 /\ instrs[j].inst.rs2 <= 31
        BY <1>1, Domains DEF LoaderTypeOK
      <4>2. \A j \in 1 .. k : j = k \/ j \in 1 .. Len(instrs)
        BY Lengths DEF k
      <4> QED
        BY <1>6, <2>1, <3>1, <3>2, <4>1, <4>2
    <3> QED
      BY <1>1, <1>2, <1>4, <1>5, <1>6, <2>1, <3>3 DEF LoaderTypeOK
  <2>2. CASE ~Parses(l)
    BY <1>1, <1>4, <1>5, <2>2 DEF LoaderTypeOK, Stages, Ends
  <2> QED
    BY <2>1, <2>2
<1>8. ReadInv'
  BY <1>1 DEF ParseLine, LineNo, ReadInv, Reading
<1>9. LinesInv'
  BY <1>1 DEF ParseLine, LineNo, LinesInv, Reading
<1>10. CallInv'
  <2>1. stage' = "parse" => Len(instrs') = k
    BY <1>4, <1>6
  <2> QED
    <3>1. caller = "parser" /\ out # <<>> /\ k < Len(out)
      BY <1>1, Lengths, <1>2 DEF CallInv
    <3>2. stage' \in {"parse", "parse error"}
      BY <1>2, <1>4
    <3> QED
      BY <1>2, <1>5, <2>1, <3>1, <3>2 DEF CallInv, InParserLines
<1>11. ParseInv'
  <2>1. \A j \in 1 .. Len(instrs) :
          /\ j < Len(program) /\ Parses(program[j + 1])
          /\ instrs[j] = [inst |-> Decode(program[j + 1]), inst_addr |-> AddressOf(j)]
    BY <1>1 DEF ParseInv
  <2>2. \A j \in 1 .. Len(instrs') :
          /\ j < Len(program) /\ Parses(program[j + 1])
          /\ instrs'[j] = [inst |-> Decode(program[j + 1]), inst_addr |-> AddressOf(j)]
    <3>1. CASE Parses(l)
      <4>1. Len(instrs') = k /\ k < Len(program) /\ Parses(program[k + 1])
        BY Lengths, <1>2, <1>6, <3>1 DEF l
      <4>2. instrs'[k] = [inst |-> Decode(program[k + 1]), inst_addr |-> AddressOf(k)]
        BY <1>6, <3>1 DEF l
      <4>3. \A j \in 1 .. k : j = k \/ j \in 1 .. Len(instrs)
        BY Lengths DEF k
      <4> QED
        BY <1>6, <2>1, <3>1, <4>1, <4>2, <4>3
    <3>2. CASE ~Parses(l)
      BY <1>4, <2>1, <3>2
    <3> QED
      BY <3>1, <3>2
  <2>3. \A j : AddressOf(j)' = AddressOf(j)
    BY <1>5 DEF AddressOf
  <2> QED
    BY <1>1, <1>2, <1>4, <1>5, <2>2, <2>3 DEF ParseInv, HeaderIs, Parsed, InParserLines, InListing
<1>12. PrintedInv'
  <2>1. Len(instrs') \in Nat
    BY Lengths, <1>4, <1>6, <1>2
  <2>2. stage' \in {"parse", "parse error"} /\ printed' = <<>> /\ Len(printed') = 0 /\ off' = 0
    BY <1>2, <1>4, <1>5
  <2>3. Len(printed') = 0 /\ off' = 0
    BY <2>2
  <2>4. off' <= (MaxInstrStr - 1) * Len(printed')
    BY <2>3 DEF MaxInstrStr
  <2>5. Len(printed') <= Len(instrs') /\ \A j \in 1 .. Len(printed') : FALSE
    BY <2>1, <2>3
  <2> QED
    BY <2>2, <2>4, <2>5 DEF PrintedInv
<1>13. EndInv'
  <2>1. stage' = "parse error" => ~WellFormed(program)
    <3>1. ASSUME WellFormed(program) PROVE Parses(l)
      <4>1. /\ l.word \in InstNo /\ Len(l.args) = Arity(l.word)
            /\ \A j \in RegisterArgs(l.word) : l.args[j] >= 0 /\ l.args[j] < 32
        BY Lengths, <1>2, <3>1 DEF WellFormed, l
      <4>2. RegisterArgs(l.word) \subseteq 1 .. Arity(l.word)
        BY <4>1, RegistersAmongNumbers
      <4>3. l.args \in Seq(Int)
        BY <1>3 DEF Line
      <4>4. ASSUME NEW j \in RegisterArgs(l.word) PROVE l.args[j] \in 0 .. 31
        <5> DEFINE x == l.args[j]
        <5>1. j \in 1 .. Len(l.args)
          BY <4>1, <4>2, Zenon
        <5>2. x \in Int
          BY <4>3, <5>1, ElementOfSeq
        <5>3. x >= 0 /\ x < 32
          BY <4>1, Zenon
        <5> HIDE DEF x
        <5>4. x \in 0 .. 31
          BY <5>2, <5>3
        <5> QED
          BY <5>4, Zenon DEF x
      <4>5. Len(l.args) >= Arity(l.word)
        <5> DEFINE n == Len(l.args)
        <5>1. n \in Nat /\ n = Arity(l.word)
          BY <4>1, <4>3, LenProperties
        <5> HIDE DEF n
        <5>2. n >= Arity(l.word)
          BY <5>1
        <5> QED
          BY <5>2, Zenon DEF n
      <4> QED
        BY <4>1, <4>4, <4>5, Zenon DEF Parses
    <3> QED
      BY <1>2, <1>4, <3>1
  <2> QED
    BY <1>1, <1>2, <1>4, <1>5, <2>1 DEF EndInv, ShortNumbers, Compared, InListing,
       SeparatedLinesNeverAssert,
       OnlyTrailingNewlineUnexplained, WellFormed
<1> QED
  BY <1>7, <1>8, <1>9, <1>10, <1>11, <1>12, <1>13 DEF LoaderInv

\* Behind the last line there is an instruction for every line (instructions.c:63).
LEMMA ParseDoneKeepsInv == ASSUME LoaderInv, ParseDone PROVE LoaderInv'
<1>1. LoaderTypeOK /\ ReadInv /\ LinesInv /\ CallInv /\ ParseInv /\ PrintedInv /\ EndInv
  BY DEF LoaderInv
<1>2. LoaderTypeOK'
  BY <1>1 DEF ParseDone, parserVars, LoaderTypeOK, Stages, Ends
<1>3. ReadInv'
  BY <1>1 DEF ParseDone, parserVars, ReadInv, Reading
<1>4. LinesInv'
  BY <1>1 DEF ParseDone, parserVars, LinesInv, Reading
<1>5. CallInv'
  BY <1>1 DEF ParseDone, parserVars, CallInv, InParserLines
<1>6. ParseInv'
  <2>1. Len(instrs) + 1 = CountLines(program) /\ stage = "parse"
    BY <1>1, Lengths DEF ParseDone, CallInv
  <2> QED
    BY <1>1, <2>1 DEF ParseDone, parserVars, ParseInv, HeaderIs, Parsed, InParserLines, InListing,
       AddressOf, CountLines
<1>7. PrintedInv'
  BY <1>1 DEF ParseDone, parserVars, PrintedInv, InParserLines, ShortNumbers
<1>8. EndInv'
  BY <1>1
     DEF ParseDone, parserVars, EndInv, ShortNumbers, Compared, InListing,
        SeparatedLinesNeverAssert,
     OnlyTrailingNewlineUnexplained
<1> QED
  BY <1>2, <1>3, <1>4, <1>5, <1>6, <1>7, <1>8 DEF LoaderInv

\* Without an instruction the file was a header, with or without a newline, and
\* anything but the assertion needs the newline (utilities.c:296, main.c:73-93).
LEMMA StringifyNothingKeepsInv == ASSUME LoaderInv, StringifyNothing PROVE LoaderInv'
<1>1. LoaderTypeOK /\ ReadInv /\ LinesInv /\ CallInv /\ ParseInv /\ PrintedInv /\ EndInv
  BY DEF LoaderInv
<1>2. LoaderTypeOK'
  BY <1>1 DEF StringifyNothing, parserVars, LoaderTypeOK, Stages, Ends
<1>3. ReadInv'
  BY <1>1 DEF StringifyNothing, parserVars, ReadInv, Reading
<1>4. LinesInv'
  BY <1>1 DEF StringifyNothing, parserVars, LinesInv, Reading
<1>5. CallInv'
  BY <1>1 DEF StringifyNothing, parserVars, CallInv, InParserLines
<1>6. ParseInv'
  BY <1>1 DEF StringifyNothing, parserVars, ParseInv, HeaderIs, Parsed, InParserLines, InListing,
       AddressOf
<1>7. PrintedInv'
  BY <1>1 DEF StringifyNothing, parserVars, PrintedInv, InParserLines, ShortNumbers
<1>8. EndInv'
  <2>1. /\ stage = "stringify" /\ instrs = <<>> /\ UNCHANGED <<program, instrs, printed, shown>>
        /\ \/ Len(program) = 1 /\ stage' = "assert"
           \/ Len(program) # 1 /\ stage' \in {"emulate", "assert", "mismatch"}
    BY DEF StringifyNothing, parserVars
  <2>2. ASSUME Len(program) # 1 PROVE HeaderOnly(program) /\ End(program) = Blank
    <3>1. ParsesHeader(program[1]) /\ Len(instrs) + 1 = CountLines(program)
      BY <1>1, <2>1 DEF ParseInv, Parsed
    <3>2. program \in Seq(Line) /\ program # <<>> /\ Len(instrs) = 0
      BY <1>1, <2>1, NothingEmpty DEF LoaderTypeOK, Reading
    <3>3. Len(program) = 2 /\ program[Len(program)] = Blank
      <4> DEFINE n == Len(program)
                 c == CountLines(program)
      <4>1. n \in Nat \ {0} /\ c >= n - 1 /\ c \in Nat /\ (c = n <=> program[n] # Blank)
        BY <3>2, LineCount
      <4>2. c = 1 /\ n # 1
        BY <2>2, <3>1, <3>2
      <4> HIDE DEF n, c
      <4>3. n = 2 /\ program[n] = Blank
        BY <4>1, <4>2
      <4> QED
        BY <4>3 DEF n
    <3> QED
      BY <3>1, <3>3 DEF HeaderOnly, End
  <2> QED
    BY <1>1, <2>1, <2>2 DEF EndInv, ShortNumbers, Compared, InListing, SeparatedLinesNeverAssert,
       OnlyTrailingNewlineUnexplained
<1> QED
  BY <1>2, <1>3, <1>4, <1>5, <1>6, <1>7, <1>8 DEF LoaderInv

\* One more instruction is printed, within its 25 characters unless its number is
\* long (utilities.c:264).
LEMMA StringifyNextKeepsInv == ASSUME LoaderInv, StringifyNext PROVE LoaderInv'
<1>1. LoaderTypeOK /\ ReadInv /\ LinesInv /\ CallInv /\ ParseInv /\ PrintedInv /\ EndInv
  BY DEF LoaderInv
<1> DEFINE k == Len(printed) + 1
           i == instrs[k].inst
<1>2. /\ stage = "stringify" /\ k \in 1 .. Len(instrs)
      /\ printed' = Append(printed, Canonical(i)) /\ off' = off + PrintedWidth(i)
      /\ stage' = stage \/ (stage' = "undefined" /\ ~(off' < StringSize))
      /\ UNCHANGED <<text, argv, cfg, program, src, caller, pos, out,
                     instrs, inlines, shown, whole>>
  BY Lengths DEF StringifyNext
<1>3. /\ Canonical(i) \in Line /\ PrintedWidth(i) \in Nat
      /\ Width(i.imm) <= 10 => PrintedWidth(i) <= MaxInstrStr - 1
  BY ParsedInstruction, <1>2
<1>4. /\ printed' \in Seq(Line) /\ Len(printed') = k /\ printed'[k] = Canonical(i)
      /\ \A j \in 1 .. Len(printed) : printed'[j] = printed[j]
  <2>1. printed \in Seq(Line)
    BY <1>1 DEF LoaderTypeOK
  <2> HIDE DEF i
  <2> QED
    BY Lengths, <1>2, <1>3, <2>1
<1> HIDE DEF k, i
<1>5. LoaderTypeOK'
  <2>1. off' \in Nat
    BY <1>1, <1>2, <1>3 DEF LoaderTypeOK
  <2> QED
    BY <1>1, <1>2, <1>4, <2>1 DEF LoaderTypeOK, Stages, Ends
<1>6. ReadInv'
  BY <1>1, <1>2 DEF ReadInv, Reading
<1>7. LinesInv'
  BY <1>1, <1>2 DEF LinesInv, Reading
<1>8. CallInv'
  BY <1>1, <1>2 DEF CallInv, InParserLines
<1>9. ParseInv'
  BY <1>1, <1>2 DEF ParseInv, HeaderIs, Parsed, InParserLines, InListing, AddressOf
<1>10. ShortNumbers => off' <= (MaxInstrStr - 1) * Len(printed')
  <2>1. ASSUME ShortNumbers PROVE Width(i.imm) <= 10
    BY Domains, <1>2, <2>1 DEF ShortNumbers, i
  <2>2. ShortNumbers => off <= (MaxInstrStr - 1) * Len(printed)
    BY <1>1 DEF PrintedInv
  <2>3. off \in Nat
    BY <1>1 DEF LoaderTypeOK
  <2>4. Len(printed') = Len(printed) + 1
    BY <1>4 DEF k
  <2> QED
    BY Lengths, <1>2, <1>3, <2>1, <2>2, <2>3, <2>4, SMT DEF MaxInstrStr
<1>11. PrintedInv'
  <2>1. Len(printed') <= Len(instrs)
    BY <1>2, <1>4
  <2>2. \A j \in 1 .. Len(printed') : printed'[j] = Canonical(instrs[j].inst)
    <3>1. \A j \in 1 .. k : j = k \/ j \in 1 .. Len(printed)
      BY Lengths DEF k
    <3>2. \A j \in 1 .. Len(printed) : printed[j] = Canonical(instrs[j].inst)
      BY <1>1 DEF PrintedInv
    <3>3. printed'[k] = Canonical(instrs[k].inst)
      BY <1>4 DEF i
    <3> QED
      BY <1>4, <3>1, <3>2, <3>3
  <2> QED
    BY <1>2, <1>10, <2>1, <2>2 DEF PrintedInv, InParserLines, ShortNumbers
<1>12. EndInv'
  <2>1. stage' = "undefined" => ~ShortNumbers
    <3> SUFFICES ASSUME stage' = "undefined", ShortNumbers PROVE FALSE
      OBVIOUS
    <3> DEFINE p == Len(printed')
               n == Len(instrs)
    <3>1. off' <= (MaxInstrStr - 1) * p
      BY <1>10
    <3>2. ~(off' < n * MaxInstrStr)
      BY <1>2 DEF StringSize
    <3>3. p \in Nat /\ n \in Nat /\ p <= n /\ n >= 1 /\ off' \in Nat
      BY Lengths, <1>2, <1>4, <1>5 DEF LoaderTypeOK
    <3> HIDE DEF p, n
    <3> QED
      BY <3>1, <3>2, <3>3 DEF MaxInstrStr
  <2> QED
    BY <1>1, <1>2, <2>1 DEF EndInv, ShortNumbers, Compared, InListing, SeparatedLinesNeverAssert,
       OnlyTrailingNewlineUnexplained
<1> QED
  BY <1>5, <1>6, <1>7, <1>8, <1>9, <1>11, <1>12 DEF LoaderInv

\* main compares what was read with what was printed (main.c:77).
LEMMA CompareKeepsInv == ASSUME LoaderInv, Compare PROVE LoaderInv'
<1>1. LoaderTypeOK /\ ReadInv /\ LinesInv /\ CallInv /\ ParseInv /\ PrintedInv /\ EndInv
  BY DEF LoaderInv
<1>2. /\ stage = "stringify" /\ instrs # <<>> /\ Len(printed) = Len(instrs)
      /\ UNCHANGED parserVars /\ text' = text
      /\ IF Tail(program) = printed
         THEN stage' = "emulate" /\ UNCHANGED <<src, caller, pos, out>>
         ELSE CallLines(Tail(program), "input")
  BY DEF Compare
<1>3. Tail(program) \in Seq(Line) /\ Tail(program) # <<>>
  <2>1. program \in Seq(Line) /\ program # <<>> /\ Len(instrs) + 1 = CountLines(program)
    BY <1>1, NothingEmpty, <1>2 DEF LoaderTypeOK, Reading, ParseInv, Parsed
  <2>2. Len(instrs) >= 1
    BY <1>1, Lengths, <1>2, EmptySeq DEF LoaderTypeOK
  <2>3. Len(program) >= 2
    BY Lengths, LineCount, <2>1, <2>2
  <2>4. Tail(program) \in Seq(Line) /\ Len(Tail(program)) = Len(program) - 1
    BY <2>1, HeadTailProperties
  <2>5. Len(Tail(program)) # 0
    BY Lengths, <2>3, <2>4
  <2>6. Len(<<>>) = 0
    OBVIOUS
  <2> QED
    BY <2>4, <2>5, <2>6, Zenon
<1>4. LoaderTypeOK'
  <2>1. CASE Tail(program) = printed
    BY <1>1, <1>2, <2>1 DEF LoaderTypeOK, parserVars, Stages, Ends
  <2>2. CASE Tail(program) # printed
    <3>1. /\ stage' = "lines" /\ caller' = "input" /\ src' = Tail(program) /\ pos' = 0
          /\ out' = <<>>
      BY <1>2, <2>2 DEF CallLines
    <3>2. Len(src') \in Nat /\ out' \in Seq(1 .. Len(src')) /\ DOMAIN out' = {}
      BY <1>3, <3>1, LenProperties, EmptySeq
    <3> QED
      BY <1>1, <1>2, <1>3, <3>1, <3>2 DEF LoaderTypeOK, parserVars, Stages
  <2> QED
    BY <2>1, <2>2
<1>5. ReadInv'
  BY <1>1 DEF Compare, CallLines, parserVars, ReadInv, Reading
<1>6. LinesInv'
  <2>1. CASE Tail(program) = printed
    BY <1>1, <1>2, <2>1 DEF LinesInv, Reading
  <2>2. CASE Tail(program) # printed
    BY <1>2, <1>3, <2>2, EmptySeq DEF CallLines, LinesInv
  <2> QED
    BY <2>1, <2>2
<1>7. CallInv'
  BY <1>1 DEF Compare, CallLines, parserVars, CallInv, InParserLines
<1>8. ParseInv'
  BY <1>1
     DEF Compare, CallLines, parserVars, ParseInv, HeaderIs, Parsed, InParserLines, InListing,
          AddressOf
<1>9. PrintedInv'
  BY <1>1 DEF Compare, CallLines, parserVars, PrintedInv, InParserLines, ShortNumbers
<1>10. EndInv'
  BY <1>1
     DEF Compare, CallLines, parserVars, EndInv, ShortNumbers, Compared, InListing,
        SeparatedLinesNeverAssert,
     OnlyTrailingNewlineUnexplained
<1> QED
  BY <1>4, <1>5, <1>6, <1>7, <1>8, <1>9, <1>10 DEF LoaderInv

\* The lines of the input are kept for the listing (main.c:19-22).
LEMMA ListInputKeepsInv == ASSUME LoaderInv, ListInput PROVE LoaderInv'
<1>1. LoaderTypeOK /\ ReadInv /\ LinesInv /\ CallInv /\ ParseInv /\ PrintedInv /\ EndInv
  BY DEF LoaderInv
<1>2. /\ stage = "lines" /\ caller = "input" /\ ~Reading
      /\ src = Tail(program) /\ Len(out) = CountLines(src)
      /\ inlines' = [k \in DOMAIN out |-> src[out[k]]]
      /\ \/ /\ stage' = "lines" /\ caller' = "output" /\ src' = printed
            /\ pos' = 0 /\ out' = <<>>
         \/ off >= StringSize /\ stage' = "undefined" /\ UNCHANGED <<src, caller, pos, out>>
      /\ UNCHANGED <<text, argv, cfg, program, instrs, printed, off, shown, whole>>
  BY <1>1 DEF ListInput, LinesDone, CallLines, LineNo, CallInv, Reading
<1>3. printed \in Seq(Line) /\ printed # <<>>
  BY <1>1, Lengths, <1>2, EmptySeq DEF LoaderTypeOK, EndInv, ShortNumbers, Compared, InListing
<1>4. /\ inlines' \in Seq(Line) /\ Len(inlines') = Len(out)
      /\ \A k \in 1 .. Len(out) : inlines'[k] = src[k]
  <2>1. \A k \in 1 .. Len(out) : src[out[k]] = src[k] /\ src[out[k]] \in Line
    BY Elements, AllLinesFound, <1>2
  <2>2. inlines' = [k \in 1 .. Len(out) |-> src[out[k]]]
    BY Domains, <1>2
  <2> QED
    BY Lengths, <2>1, <2>2
<1>5. LoaderTypeOK'
  <2>1. /\ out' \in Seq(1 .. Len(src')) /\ pos' \in 0 .. Len(src') /\ src' \in Seq(Line)
        /\ \A k \in DOMAIN out' : src'[out'[k]] # Blank
    <3>1. CASE src' = printed /\ pos' = 0 /\ out' = <<>>
      BY <1>3, <3>1, EmptySeq, LenProperties
    <3>2. CASE UNCHANGED <<src, caller, pos, out>>
      BY <1>1, <3>2 DEF LoaderTypeOK
    <3> QED
      BY <1>2, <3>1, <3>2
  <2>2. stage' \in Stages /\ caller' \in {"parser", "input", "output"}
    BY <1>2 DEF Stages, Ends
  <2>3. UNCHANGED <<argv, cfg, program, instrs, printed, off, shown, whole>>
    BY <1>2
  <2> QED
    BY <1>1, <1>4, <2>1, <2>2, <2>3 DEF LoaderTypeOK
<1>6. ReadInv'
  BY <1>1, <1>2 DEF ReadInv, Reading
<1>7. LinesInv'
  <2>1. CASE src' = printed /\ pos' = 0 /\ out' = <<>>
    BY <1>3, <2>1, EmptySeq DEF LinesInv
  <2>2. CASE UNCHANGED <<src, caller, pos, out>>
    BY <1>1, <1>2, <2>2 DEF LinesInv, Reading
  <2> QED
    BY <1>2, <2>1, <2>2
<1>8. CallInv'
  <2>1. /\ Len(src) = Len(program) - 1 /\ src \in Seq(Line) /\ src # <<>>
        /\ \A k \in 1 .. Len(src) : src[k] = program[k + 1]
    BY <1>1, NothingEmpty, <1>2, HeadTailProperties DEF LoaderTypeOK
  <2>2. src[Len(src)] = program[Len(program)]
    BY Lengths, NothingEmpty, <1>2, <2>1
  <2>3. CountLines(src) = CountLines(program) - 1
    BY Lengths, <2>1, <2>2 DEF CountLines, End
  <2>4. \A k \in 1 .. Len(out) : k \in 1 .. Len(src)
    <3>1. CountLines(src) <= Len(src)
      BY LineCount, <2>1
    <3> QED
      BY Lengths, <1>2, <3>1
  <2> QED
    BY <1>1, <1>2, <1>4, <2>1, <2>3, <2>4 DEF CallInv, InParserLines, CountLines
<1>9. ParseInv'
  BY <1>1, <1>2 DEF ParseInv, HeaderIs, Parsed, InParserLines, InListing, AddressOf
<1>10. PrintedInv'
  BY <1>1, <1>2 DEF PrintedInv, InParserLines, ShortNumbers
<1>11. EndInv'
  <2>1. off >= StringSize => ~ShortNumbers
    <3> SUFFICES ASSUME off >= StringSize, ShortNumbers PROVE FALSE
      OBVIOUS
    <3> DEFINE n == Len(instrs)
    <3>1. off <= (MaxInstrStr - 1) * n
      BY <1>1, <1>2 DEF PrintedInv, EndInv, Compared, InListing
    <3>2. off >= n * MaxInstrStr
      BY DEF StringSize
    <3>3. n \in Nat /\ n >= 1 /\ off \in Nat
      BY <1>1, <1>2, Lengths, EmptySeq DEF LoaderTypeOK, EndInv, InListing
    <3> HIDE DEF n
    <3> QED
      BY <3>1, <3>2, <3>3 DEF MaxInstrStr
  <2> QED
    BY <1>1, <1>2, <2>1 DEF EndInv, ShortNumbers, Compared, InListing, SeparatedLinesNeverAssert,
       OnlyTrailingNewlineUnexplained
<1> QED
  BY <1>5, <1>6, <1>7, <1>8, <1>9, <1>10, <1>11 DEF LoaderInv

\* Both listings have a line per instruction, and something is listed unless the
\* difference is a newline at the end (main.c:23-33).
LEMMA ListDifferencesKeepsInv == ASSUME LoaderInv, ListDifferences PROVE LoaderInv'
<1>1. LoaderTypeOK /\ ReadInv /\ LinesInv /\ CallInv /\ ParseInv /\ PrintedInv /\ EndInv
  BY DEF LoaderInv
<1>2. /\ stage = "lines" /\ caller = "output" /\ ~Reading
      /\ Len(out) = CountLines(src) /\ src = printed
      /\ Len(inlines) = CountLines(program) - 1
      /\ \A k \in 1 .. Len(inlines) : inlines[k] = program[k + 1]
      /\ UNCHANGED <<text, argv, cfg, program, src, caller, pos, out,
                     instrs, printed, off, inlines, whole>>
  BY <1>1 DEF ListDifferences, LinesDone, CallInv, Reading
<1>3. /\ Len(printed) = Len(instrs) /\ instrs # <<>> /\ Tail(program) # printed
      /\ Len(instrs) + 1 = CountLines(program)
  BY <1>1, <1>2 DEF EndInv, ShortNumbers, Compared, InListing, ParseInv, Parsed
<1>4. Len(out) = Len(printed)
  <2>1. printed \in Seq(Line) /\ printed # <<>>
    BY <1>1, Lengths, <1>3, EmptySeq DEF LoaderTypeOK
  <2>2. Len(printed) \in 1 .. Len(printed)
    BY Lengths, <2>1, EmptySeq
  <2>3. printed[Len(printed)] # Blank
    BY PrintedLine, <2>2
  <2> QED
    BY LineCount, <1>2, <2>1, <2>3
<1>5. stage' = "mismatch" /\ shown' = Differ /\ Len(inlines) = Len(out)
  BY Lengths, <1>2, <1>3, <1>4 DEF ListDifferences
<1>6. LoaderTypeOK'
  <2>1. shown' \subseteq Nat
    BY Lengths, Domains, <1>5 DEF Differ
  <2> QED
    BY <1>1, <1>2, <1>5, <2>1 DEF LoaderTypeOK, Stages, Ends
<1>7. ReadInv'
  BY <1>1 DEF ListDifferences, LinesDone, ReadInv, Reading
<1>8. LinesInv'
  BY <1>1 DEF ListDifferences, LinesDone, LinesInv, Reading
<1>9. CallInv'
  BY <1>1 DEF ListDifferences, LinesDone, CallInv, InParserLines
<1>10. ParseInv'
  BY <1>1 DEF ListDifferences, LinesDone, ParseInv, HeaderIs, Parsed, InParserLines, InListing,
       AddressOf
<1>11. PrintedInv'
  BY <1>1 DEF ListDifferences, LinesDone, PrintedInv, InParserLines, ShortNumbers
<1>12. EndInv'
  <2>1. ASSUME shown' = {}, End(program) # Blank PROVE FALSE
    <3>1. program \in Seq(Line) /\ program # <<>> /\ Len(program) = CountLines(program)
      BY <1>1, Lengths, NothingEmpty, LineCount, <1>2, <2>1 DEF LoaderTypeOK, End
    <3>2. /\ Tail(program) \in Seq(Line) /\ Len(Tail(program)) = Len(printed)
          /\ \A k \in 1 .. Len(printed) : Tail(program)[k] = program[k + 1]
      BY Lengths, <1>3, <3>1, HeadTailProperties
    <3>3. \A k \in 1 .. Len(out) : inlines[k] = LineNo(k)
      BY Domains, <1>5, <2>1 DEF Differ
    <3>4. \A k \in 1 .. Len(printed) : Tail(program)[k] = printed[k]
      BY AllLinesFound, <1>2, <1>4, <1>5, <3>2, <3>3 DEF LineNo
    <3>5. printed \in Seq(Line)
      BY <1>1 DEF LoaderTypeOK
    <3> QED
      BY <1>3, <3>2, <3>4, <3>5, SeqEqual
  <2> QED
    BY <1>1, <1>2, <1>3, <1>5, <2>1 DEF EndInv, ShortNumbers, Compared, InListing,
       SeparatedLinesNeverAssert,
       OnlyTrailingNewlineUnexplained, End
<1> QED
  BY <1>6, <1>7, <1>8, <1>9, <1>10, <1>11, <1>12 DEF LoaderInv

\* A step of somebody else changes nothing.
LEMMA StutterKeepsInv == ASSUME LoaderInv, UNCHANGED vars PROVE LoaderInv'
<1>1. LoaderTypeOK /\ ReadInv /\ LinesInv /\ CallInv /\ ParseInv /\ PrintedInv /\ EndInv
  BY DEF LoaderInv
<1>2. LoaderTypeOK'
  BY <1>1 DEF vars, loaderVars, LoaderTypeOK, Stages, Ends
<1>3. ReadInv'
  BY <1>1 DEF vars, loaderVars, ReadInv, Reading
<1>4. LinesInv'
  BY <1>1 DEF vars, loaderVars, LinesInv, Reading
<1>5. CallInv'
  BY <1>1 DEF vars, loaderVars, CallInv, InParserLines
<1>6. ParseInv'
  BY <1>1 DEF vars, loaderVars, ParseInv, HeaderIs, Parsed, InParserLines, InListing, AddressOf
<1>7. PrintedInv'
  BY <1>1 DEF vars, loaderVars, PrintedInv, InParserLines, ShortNumbers
<1>8. EndInv'
  BY <1>1
     DEF vars, loaderVars, EndInv, ShortNumbers, Compared, InListing, SeparatedLinesNeverAssert,
     OnlyTrailingNewlineUnexplained
<1> QED
  BY <1>2, <1>3, <1>4, <1>5, <1>6, <1>7, <1>8 DEF LoaderInv

-----------------------------------------------------------------------------
\* Every step of the loader keeps the invariant.
LEMMA LoaderStep == LoaderInv /\ [Next]_vars => LoaderInv'
BY ParseArgumentKeepsInv, ReadKeepsInv, ReadFailsKeepsInv, ReadEndsKeepsInv,
   NextTokenKeepsInv, NoLinesKeepsInv, ReadHeaderKeepsInv, RejectHeaderKeepsInv,
   ParseLineKeepsInv, ParseDoneKeepsInv, StringifyNothingKeepsInv, StringifyNextKeepsInv,
   CompareKeepsInv, ListInputKeepsInv, ListDifferencesKeepsInv, StutterKeepsInv
DEF Next

\* The loader begins with the invariant, whatever file it is given.
LEMMA StartInv == ASSUME Start, text \in Text PROVE LoaderInv
<1>1. /\ stage = "read" /\ program = <<>> /\ src = <<>> /\ out = <<>> /\ instrs = <<>>
      /\ printed = <<>> /\ inlines = <<>> /\ caller = "parser" /\ pos = 0 /\ off = 0
      /\ shown = {} /\ whole = TRUE /\ argv \in Commands /\ cfg = DefaultConfiguration
  BY DEF Start
<1>2. Len(<<>>) = 0 /\ DOMAIN <<>> = {} /\ \A S : <<>> \in Seq(S)
  OBVIOUS
<1>3. cfg \in Configuration
  BY <1>1, WidthAssumption DEF DefaultConfiguration, Configuration, Word
<1>4. argv \in Seq(Argument)
  BY <1>1, LoaderAssumption
<1>5. LoaderTypeOK
  BY <1>1, <1>2, <1>3, <1>4 DEF LoaderTypeOK, Stages
<1>6. ReadInv
  <2>1. Len(text) \in Nat
    BY LenProperties DEF Text
  <2> QED
    BY <1>1, <1>2, <2>1 DEF ReadInv, Reading
<1>7. LinesInv /\ CallInv
  BY <1>1 DEF LinesInv, CallInv, Reading, InParserLines
<1>8. ParseInv
  BY <1>1, <1>2 DEF ParseInv, Parsed, InListing
<1>9. PrintedInv
  BY <1>1, <1>2 DEF PrintedInv, MaxInstrStr
<1>10. EndInv
  BY <1>1 DEF EndInv, ShortNumbers, Compared, InListing,
     SeparatedLinesNeverAssert, OnlyTrailingNewlineUnexplained
<1> QED
  BY <1>5, <1>6, <1>7, <1>8, <1>9, <1>10 DEF LoaderInv

\* The loader on its own, given any program file.
THEOREM LoaderInvariant == Spec => []LoaderInv
<1>1. Init => LoaderInv
  BY StartInv, LoaderAssumption DEF Init
<1> QED
  BY <1>1, LoaderStep, PTL DEF Spec

-----------------------------------------------------------------------------
\* The copy that lines makes starts with its first line (utilities.c:74-81).
LEMMA CopyIsFreed == LoaderInv => FreeLinesFreesTheCopy
<1> SUFFICES ASSUME LoaderInv, stage = "parse" \/ (LinesDone("parser") /\ out # <<>>)
             PROVE  out[1] = 1
  BY DEF FreeLinesFreesTheCopy
<1>1. LoaderTypeOK /\ ReadInv /\ LinesInv /\ CallInv /\ ParseInv /\ PrintedInv /\ EndInv
  BY DEF LoaderInv
<1>2. ~Reading /\ Len(out) = CountLines(src) /\ out # <<>>
  BY <1>1 DEF Reading, LinesDone, CallInv
<1>3. out \in Seq(1 .. Len(src))
  BY <1>1 DEF LoaderTypeOK
<1>4. Len(out) # 0
  BY <1>2, <1>3, EmptySeq
<1>5. 1 \in 1 .. Len(out)
  BY Lengths, <1>4
<1> QED
  BY <1>2, <1>5, AllLinesFound

\* 25 characters for each instruction leave room for the NUL (utilities.c:246-258).
LEMMA PrintedFits == LoaderInv => StringifyFits
<1> SUFFICES ASSUME LoaderInv, ShortNumbers, printed # <<>> PROVE off + 1 <= StringSize
  BY DEF StringifyFits
<1> DEFINE p == Len(printed)
           n == Len(instrs)
<1>1. printed \in Seq(Line) /\ off \in Nat
  BY DEF LoaderInv, LoaderTypeOK
<1>2. p # 0
  BY <1>1, EmptySeq
<1>3. p \in Nat /\ n \in Nat
  BY Lengths
<1>4. p <= n /\ off <= (MaxInstrStr - 1) * p
  BY DEF LoaderInv, PrintedInv
<1>5. StringSize = n * MaxInstrStr
  BY DEF StringSize
<1> HIDE DEF p, n
<1> QED
  BY <1>1, <1>2, <1>3, <1>4, <1>5 DEF MaxInstrStr

\* In a program file no line is empty, and each is the printed form of the
\* instruction it is parsed to.
LEMMA WellFormedLines ==
  ASSUME LoaderInv, ~Reading, WellFormed(program)
  PROVE  /\ \A k \in 1 .. Len(program) : program[k] # Blank
         /\ CountLines(program) = Len(program)
         /\ \A k \in 1 .. Len(instrs) : Canonical(instrs[k].inst) = program[k + 1]
<1>1. Blank.word = "" /\ Blank.word # "0x"
  BY DEF Blank
<1>2. "" \notin InstNo
  BY DEF InstNo, ComputeInsts, MemInsts, ControlInsts, SetInsts, BranchInsts, RRRInsts,
         RRIInsts, StoreInsts, LoadInsts
<1>3. Len(program) \in Nat /\ Len(program) > 1
  BY Lengths DEF WellFormed
<1>4. \A k \in 1 .. Len(program) : program[k] # Blank
  <2> SUFFICES ASSUME NEW k \in 1 .. Len(program) PROVE program[k] # Blank
    OBVIOUS
  <2>1. CASE k = 1
    BY <1>1, <2>1 DEF WellFormed, ParsesHeader
  <2>2. CASE k \in 2 .. Len(program)
    BY <1>1, <1>2, <2>2 DEF WellFormed
  <2> QED
    BY <1>3, <2>1, <2>2
<1>5. CountLines(program) = Len(program)
  <2>1. program \in Seq(Line) /\ program # <<>>
    BY NothingEmpty DEF LoaderInv, LoaderTypeOK
  <2>2. program[Len(program)] # Blank
    BY <1>3, <1>4
  <2> QED
    BY <2>1, <2>2, LineCount
<1>6. ASSUME NEW k \in 1 .. Len(instrs) PROVE Canonical(instrs[k].inst) = program[k + 1]
  <2>1. /\ k < Len(program)
        /\ Canonical(instrs[k].inst) = program[k + 1]
           <=> program[k + 1].exact /\ Len(program[k + 1].args) = Arity(program[k + 1].word)
    BY ParsedInstruction
  <2>2. k + 1 \in 2 .. Len(program)
    BY Lengths, <2>1
  <2>3. program[k + 1].exact /\ Len(program[k + 1].args) = Arity(program[k + 1].word)
    BY <2>2 DEF WellFormed
  <2> QED
    BY <2>1, <2>3
<1> QED
  BY <1>4, <1>5, <1>6

\* What is run is a program file, or a header with nothing behind it (main.c:77-88).
LEMMA OnlyProgramFilesRun ==
  ASSUME LoaderInv, stage = "emulate"
  PROVE  \/ instrs = <<>> /\ HeaderOnly(program)
         \/ /\ instrs # <<>> /\ WellFormed(program) /\ Len(instrs) = Len(program) - 1
            /\ \A k \in 1 .. Len(instrs) : Canonical(instrs[k].inst) = program[k + 1]
<1> SUFFICES ASSUME instrs # <<>>
             PROVE  /\ WellFormed(program) /\ Len(instrs) = Len(program) - 1
                    /\ \A k \in 1 .. Len(instrs) : Canonical(instrs[k].inst) = program[k + 1]
  BY DEF LoaderInv, EndInv, Compared
<1>1. /\ Len(printed) = Len(instrs) /\ Tail(program) = printed
      /\ ParsesHeader(program[1])
      /\ \A k \in 1 .. Len(printed) : printed[k] = Canonical(instrs[k].inst)
      /\ instrs \in Seq(LoadedInstruction) /\ program \in Seq(Line)
  <2>1. Len(printed) = Len(instrs) /\ Tail(program) = printed
    BY DEF LoaderInv, EndInv, Compared
  <2>2. ParsesHeader(program[1])
    BY DEF LoaderInv, ParseInv, Parsed
  <2>3. /\ \A k \in 1 .. Len(printed) : printed[k] = Canonical(instrs[k].inst)
        /\ instrs \in Seq(LoadedInstruction) /\ program \in Seq(Line)
    BY DEF LoaderInv, LoaderTypeOK, PrintedInv
  <2> QED
    BY <2>1, <2>2, <2>3
<1>2. program # <<>> /\ Len(program) \in Nat /\ Len(instrs) \in Nat
  BY NothingEmpty, Lengths DEF Reading
<1>3. /\ Len(Tail(program)) = Len(program) - 1
      /\ \A k \in 1 .. Len(Tail(program)) : Tail(program)[k] = program[k + 1]
  BY <1>1, <1>2, HeadTailProperties
<1>4. Len(instrs) = Len(program) - 1
  BY <1>1, <1>3
<1>5. \A k \in 1 .. Len(instrs) : Canonical(instrs[k].inst) = program[k + 1]
  BY <1>1, <1>3
<1>6. Len(instrs) # 0
  BY <1>1, EmptySeq
<1>7. ASSUME NEW k \in 2 .. Len(program)
      PROVE  /\ program[k].word \in InstNo /\ program[k].exact
             /\ Len(program[k].args) = Arity(program[k].word)
             /\ \A j \in RegisterArgs(program[k].word) : program[k].args[j] >= 0
                                                         /\ program[k].args[j] < 32
  <2> DEFINE m == k - 1
  <2>1. m \in 1 .. Len(instrs) /\ program[m + 1] = program[k]
    BY <1>2, <1>4
  <2>2. /\ Parses(program[m + 1])
        /\ Canonical(instrs[m].inst) = program[m + 1]
           <=> program[m + 1].exact /\ Len(program[m + 1].args) = Arity(program[m + 1].word)
    BY <2>1, ParsedInstruction
  <2>3. Canonical(instrs[m].inst) = program[m + 1]
    BY <1>5, <2>1
  <2> HIDE DEF m
  <2>4. program[m + 1].exact /\ Len(program[m + 1].args) = Arity(program[m + 1].word)
    BY <2>2, <2>3
  <2>5. program[m + 1].word \in InstNo
    BY <2>2 DEF Parses
  <2>6. ASSUME NEW j \in RegisterArgs(program[m + 1].word)
        PROVE  program[m + 1].args[j] >= 0 /\ program[m + 1].args[j] < 32
    <3> DEFINE x == program[m + 1].args[j]
    <3>1. x \in 0 .. 31
      BY <2>2, Zenon DEF Parses
    <3> HIDE DEF x
    <3>2. x >= 0 /\ x < 32
      BY <3>1
    <3> QED
      BY <3>2, Zenon DEF x
  <2> QED
    BY <2>1, <2>4, <2>5, <2>6, Zenon
<1>8. WellFormed(program)
  BY <1>1, <1>2, <1>4, <1>6, <1>7 DEF WellFormed
<1> QED
  BY <1>4, <1>5, <1>8

\* There is one instruction less than there are lines.
LEMMA OneLess == ASSUME NEW n \in Nat, NEW m \in Nat, n = m + 1 PROVE n - 1 = m /\ (n > 1 => m # 0)
OBVIOUS

\* A text of several lines has a second, and those before the last are lines.
LEMMA Several ==
  ASSUME NEW n \in Nat, n > 1 PROVE n # 1 /\ 2 \in 1 .. n /\ 1 .. n - 1 \subseteq 1 .. n
OBVIOUS

\* A program file is not refused, unless there is no memory for it or a number in
\* it is so long that printing leaves the buffer (main.c:64-88).
LEMMA ProgramFilesRun ==
  ASSUME LoaderInv, stage \in {"parse error", "mismatch", "assert"}
  PROVE  ~WellFormed(program)
<1> SUFFICES ASSUME WellFormed(program) PROVE FALSE
  OBVIOUS
<1>1. ~Reading
  BY DEF Reading
<1>2. /\ \A k \in 1 .. Len(program) : program[k] # Blank
      /\ CountLines(program) = Len(program)
      /\ \A k \in 1 .. Len(instrs) : Canonical(instrs[k].inst) = program[k + 1]
  BY <1>1, WellFormedLines
<1>3. Len(program) \in Nat /\ Len(program) > 1 /\ Len(instrs) \in Nat
  BY Lengths DEF WellFormed
<1>4. ~HeaderOnly(program)
  <2> SUFFICES ASSUME HeaderOnly(program) PROVE FALSE
    OBVIOUS
  <2>1. Len(program) = 2 /\ program[2] = Blank
    BY DEF HeaderOnly
  <2>2. 2 \in 1 .. Len(program)
    BY <1>3, Several, Zenon
  <2> QED
    BY <1>2, <2>1, <2>2, Zenon
<1>5. CASE stage = "parse error"
  BY <1>5 DEF LoaderInv, EndInv
<1>6. CASE stage = "assert"
  <2>1. Len(program) = 1 \/ \E k \in 1 .. Len(program) - 1 : program[k] = Blank
    BY <1>4, <1>6 DEF LoaderInv, EndInv, SeparatedLinesNeverAssert
  <2>2. Len(program) # 1 /\ 1 .. Len(program) - 1 \subseteq 1 .. Len(program)
    BY <1>3, Several, Zenon
  <2> QED
    BY <1>2, <2>1, <2>2, Zenon
<1>7. CASE stage = "mismatch"
  <2>1. /\ Len(printed) = Len(instrs) /\ Tail(program) # printed
    BY <1>4, <1>7 DEF LoaderInv, EndInv, Compared
  <2>2. /\ Len(instrs) + 1 = CountLines(program)
        /\ \A k \in 1 .. Len(printed) : printed[k] = Canonical(instrs[k].inst)
        /\ printed \in Seq(Line) /\ program \in Seq(Line)
    BY <1>7 DEF LoaderInv, LoaderTypeOK, ParseInv, Parsed, PrintedInv
  <2>3. program # <<>>
    BY <1>1, NothingEmpty
  <2>4. /\ Tail(program) \in Seq(Line) /\ Len(Tail(program)) = Len(program) - 1
        /\ \A k \in 1 .. Len(Tail(program)) : Tail(program)[k] = program[k + 1]
    BY <2>2, <2>3, HeadTailProperties
  <2>5. Len(Tail(program)) = Len(printed)
    <3> DEFINE n == Len(program)
               m == Len(instrs)
    <3>1. n = m + 1
      BY <1>2, <2>2, Zenon
    <3>2. n - 1 = m
      <4>1. n \in Nat /\ m \in Nat
        BY <1>3
      <4> HIDE DEF n, m
      <4> QED
        BY <3>1, <4>1, OneLess, Zenon
    <3> QED
      BY <2>1, <2>4, <3>2, Zenon
  <2>6. \A k \in 1 .. Len(Tail(program)) : Tail(program)[k] = printed[k]
    BY <1>2, <2>1, <2>2, <2>4, <2>5
  <2> QED
    BY <2>1, <2>2, <2>4, <2>5, <2>6, SeqEqual
<1> QED
  BY <1>5, <1>6, <1>7

\* Exactly the program files are run, apart from headers with nothing behind them
\* and from numbers too long for the buffer.
LEMMA RunsProgramFiles == LoaderInv => RunsExactlyTheProgramFiles
<1> SUFFICES ASSUME LoaderInv, whole, stage \in Ends \ {"read error", "no memory"}
             PROVE  /\ stage = "emulate" => WellFormed(text) \/ HeaderOnly(text)
                    /\ WellFormed(text) => \/ stage = "emulate"
                                           \/ stage = "undefined" /\ ~ShortNumbers
  BY DEF RunsExactlyTheProgramFiles
<1>1. program = text
  BY DEF LoaderInv, ReadInv, Reading, Ends
<1>2. stage \in {"emulate", "undefined", "parse error", "mismatch", "assert"}
  BY DEF Ends
<1>3. stage = "undefined" => ~ShortNumbers
  BY DEF LoaderInv, EndInv
<1> QED
  BY <1>1, <1>2, <1>3, OnlyProgramFilesRun, ProgramFilesRun

-----------------------------------------------------------------------------
\* Reducing a sum, one of its terms may be reduced before.
LEMMA WrapOfSum == ASSUME NEW a \in Int, NEW b \in Int PROVE Wrap(Wrap(a) + b) = Wrap(a + b)
<1>1. U64 \in Nat \ {0}
  BY WidthAssumption
<1> QED
  BY <1>1, ResidueOfSum DEF Wrap

\* The emulator is given what the file says.
LEMMA EmulatesText == LoaderInv => EmulatesWhatIsWritten
<1> SUFFICES ASSUME LoaderInv, stage = "emulate", whole
             PROVE  /\ IF HeaderOnly(text) THEN instrs = <<>> ELSE Len(instrs) = Len(text) - 1
                    /\ \A k \in DOMAIN instrs :
                         /\ Canonical(instrs[k].inst) = text[k + 1]
                         /\ instrs[k].inst_addr = Wrap(text[1].args[1] + 4 * k - 4)
                    /\ HeaderIs(text[1])
  BY DEF EmulatesWhatIsWritten
<1>1. program = text
  BY DEF LoaderInv, ReadInv, Reading
<1>2. /\ IF HeaderOnly(program) THEN instrs = <<>> ELSE Len(instrs) = Len(program) - 1
      /\ \A k \in 1 .. Len(instrs) : Canonical(instrs[k].inst) = program[k + 1]
  <2>1. CASE instrs = <<>> /\ HeaderOnly(program)
    BY <2>1
  <2>2. CASE /\ WellFormed(program) /\ Len(instrs) = Len(program) - 1
             /\ \A k \in 1 .. Len(instrs) : Canonical(instrs[k].inst) = program[k + 1]
    <3>1. ~HeaderOnly(program)
      <4>1. \A k \in 1 .. Len(program) : program[k] # Blank
        BY <2>2, WellFormedLines DEF Reading
      <4> QED
        BY <4>1 DEF HeaderOnly
    <3> QED
      BY <2>2, <3>1
  <2> QED
    BY <2>1, <2>2, OnlyProgramFilesRun
<1>3. /\ ParsesHeader(program[1])
      /\ HeaderIs(program[1])
  BY DEF LoaderInv, ParseInv, Parsed
<1>4. program[1].args[1] \in Int
  <2>1. program[1] \in Line
    BY Lengths, Elements, NothingEmpty DEF Reading
  <2>2. program[1].args \in Seq(Int) /\ Len(program[1].args) >= 4
    BY <1>3, <2>1 DEF Line, ParsesHeader
  <2> QED
    BY <2>2, ElementOfSeq
<1>5. ASSUME NEW k \in 1 .. Len(instrs)
      PROVE  instrs[k].inst_addr = Wrap(program[1].args[1] + 4 * k - 4)
  <2>1. instrs[k].inst_addr = AddressOf(k)
    <3>1. instrs[k] = [inst |-> Decode(program[k + 1]), inst_addr |-> AddressOf(k)]
      BY DEF LoaderInv, ParseInv
    <3> QED
      BY <3>1
  <2>2. k \in Int /\ (k - 1) * 4 \in Int
    BY Lengths
  <2>3. AddressOf(k) = Wrap(program[1].args[1] + (k - 1) * 4)
    BY <1>3, <1>4, <2>2, WrapOfSum DEF AddressOf, HeaderIs
  <2>4. program[1].args[1] + (k - 1) * 4 = program[1].args[1] + 4 * k - 4
    BY <1>4, <2>2
  <2> QED
    BY <2>1, <2>3, <2>4, Zenon
<1> QED
  BY Domains, <1>1, <1>2, <1>3, <1>5
=============================================================================

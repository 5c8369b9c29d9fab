--------------------------- MODULE Toolchain_proofs ---------------------------
(***************************************************************************)
(* Proofs about the way of a program to the emulator, for every set of     *)
(* binaries and program files, every size of the buffer and every width of *)
(* the machine word.                                                       *)
(*                                                                         *)
(* The loader's invariant is kept by its own actions (Loader_proofs) and   *)
(* by the converter because that changes the file only while the loader    *)
(* has not begun.  ConverterInv says so, and what each stage of the        *)
(* conversion has established.                                             *)
(***************************************************************************)
EXTENDS Toolchain, Loader_proofs, WellFoundedInduction

Converting == conv \in {"addresses", "fixups", "output", "printed"}

\* What the two parts of the conversion establish: the header has the numbers of
\* the binary, and the lines are those of its code, fixed.
HeaderMade ==
  /\ header[1] \in Nat /\ header[2] \in Nat /\ header[3] \in Nat /\ header[4] \in Nat
  /\ header[1] = object.spans[1].vaddr
  /\ header[2] = UpperAddress(object.spans[1])
  /\ header[3] = object.start
  /\ Len(object.spans) \in 1 .. 2 /\ header[4] = UpperAddress(End(object.spans))
BodyMade ==
  /\ Contiguous(object.code)
  /\ body = [k \in DOMAIN object.code |-> Fixup(k - 1, object.code[k].line)]

ConverterInv ==
  /\ conv \in Conversions /\ object \in Objects \cup {NoObject}
  /\ Converting => object \in Objects /\ stage = "read" /\ program = <<>>
  /\ object \in Objects =>
       /\ conv = "failed" => text \in {<<Blank>>, <<Garbage, Garbage, Blank>>}
       /\ conv \in {"fixups", "output", "printed", "written"} => HeaderMade
       /\ conv \in {"output", "printed", "written"} => BodyMade
       /\ conv = "written" => text = ProgramFile
       /\ conv = "timed out" =>
            \/ text = <<Blank>>
            \/ HeaderMade /\ BodyMade /\ text \in Beginnings(ProgramFile)

-----------------------------------------------------------------------------
\* The loader only reads the file.
LEMMA FileIsOnlyRead == Next => text' = text
BY DEF Next, ParseArgument, Read, ReadFails, ReadEnds, NextToken, NoLines, ReadHeader,
       RejectHeader, ParseLine, ParseDone, StringifyNothing, StringifyNext, Compare,
       ListInput, ListDifferences

\* Before it has read anything, the file may change.
LEMMA NotYetRead ==
  ASSUME LoaderInv, stage = "read", program = <<>>, UNCHANGED loaderVars, text' \in Text
  PROVE  LoaderInv'
<1>1. LoaderTypeOK /\ ReadInv /\ LinesInv /\ CallInv /\ ParseInv /\ PrintedInv /\ EndInv
  BY DEF LoaderInv
<1>2. Len(program) = 0
  OBVIOUS
<1>3. Len(text') \in Nat
  BY LenProperties DEF Text
<1>4. LoaderTypeOK'
  BY <1>1 DEF loaderVars, LoaderTypeOK, Stages, Ends
<1>5. ReadInv'
  BY <1>1, <1>2, <1>3 DEF loaderVars, ReadInv, Reading
<1>6. LinesInv'
  BY <1>1 DEF loaderVars, LinesInv, Reading
<1>7. CallInv'
  BY <1>1 DEF loaderVars, CallInv, InParserLines
<1>8. ParseInv'
  BY <1>1 DEF loaderVars, ParseInv, HeaderIs, Parsed, InParserLines, InListing, AddressOf
<1>9. PrintedInv'
  BY <1>1 DEF loaderVars, PrintedInv, InParserLines, ShortNumbers
<1>10. EndInv'
  BY <1>1 DEF loaderVars, EndInv, ShortNumbers, Compared, InListing, SeparatedLinesNeverAssert,
     OnlyTrailingNewlineUnexplained
<1> QED
  BY <1>4, <1>5, <1>6, <1>7, <1>8, <1>9, <1>10 DEF LoaderInv

\* What a conversion that is given up leaves begins with no header.
LEMMA ShortFiles ==
  /\ Blank \in Line /\ Garbage \in Line
  /\ \A t \in {<<Blank>>, <<Garbage, Garbage, Blank>>} :
       t \in Text /\ t[1].word \in {"", "other"}
<1>1. Blank \in Line /\ Garbage \in Line
  BY DEF Blank, Garbage, Line
<1>2. ASSUME NEW a \in Line, NEW b \in Line, NEW c \in Line
      PROVE  /\ <<a>> \in Seq(Line) /\ Len(<<a>>) = 1 /\ <<a>>[1] = a
             /\ <<a, b, c>> \in Seq(Line) /\ Len(<<a, b, c>>) = 3 /\ <<a, b, c>>[1] = a
  OBVIOUS
<1>3. <<Blank>> # <<>> /\ <<Garbage, Garbage, Blank>> # <<>>
  BY <1>1, <1>2, EmptySeq
<1>4. Blank.word = "" /\ Garbage.word = "other"
  BY DEF Blank, Garbage
<1>5. /\ <<Blank>> \in Text /\ <<Blank>>[1] = Blank
      /\ <<Garbage, Garbage, Blank>> \in Text /\ <<Garbage, Garbage, Blank>>[1] = Garbage
  BY <1>1, <1>2, <1>3, Zenon DEF Text
<1>6. ASSUME NEW t \in {<<Blank>>, <<Garbage, Garbage, Blank>>}
      PROVE  t \in Text /\ t[1].word \in {"", "other"}
  <2>1. CASE t = <<Blank>>
    BY <1>4, <1>5, <2>1
  <2>2. CASE t = <<Garbage, Garbage, Blank>>
    BY <1>4, <1>5, <2>2
  <2> QED
    BY <2>1, <2>2
<1> QED
  BY <1>1, <1>6, Zenon

\* A beginning of a text is a text, whose lines but the last are those of the
\* whole.
LEMMA BeginningOfText ==
  ASSUME NEW s \in Text, NEW t \in Beginnings(s)
  PROVE  /\ t \in Text /\ Len(t) \in 1 .. Len(s)
         /\ \A k \in 1 .. Len(t) - 1 : t[k] = s[k]
         /\ WordOf(t[Len(t)], s[Len(t)])
<1>1. PICK n \in DOMAIN s :
        \E l \in Cuts(s[n]) \cup {s[n]} : t = Append(SubSeq(s, 1, n - 1), l)
  BY DEF Beginnings
<1>2. s \in Seq(Line) /\ Len(s) \in Nat /\ n \in 1 .. Len(s) /\ s[n] \in Line
  BY <1>1, LenProperties, ElementOfSeq DEF Text
<1>3. PICK l \in Cuts(s[n]) \cup {s[n]} : t = Append(SubSeq(s, 1, n - 1), l)
  BY <1>1
<1>4. l \in Line /\ WordOf(l, s[n])
  BY <1>2, CutsAndExtensions DEF WordOf
<1> DEFINE p == SubSeq(s, 1, n - 1)
<1>5. p \in Seq(Line) /\ Len(p) = n - 1 /\ \A k \in 1 .. n - 1 : p[k] = s[k]
  <2>1. \A k \in 1 .. n - 1 : s[k] \in Line
    BY <1>2, ElementOfSeq
  <2>2. /\ p \in Seq(Line)
        /\ Len(p) = IF 1 <= n - 1 THEN (n - 1) - 1 + 1 ELSE 0
        /\ \A k \in 1 .. (n - 1) - 1 + 1 : p[k] = s[1 + k - 1]
    BY <1>2, <2>1, SubSeqProperties
  <2> QED
    BY <1>2, <2>2
<1> HIDE DEF p
<1>6. /\ t \in Seq(Line) /\ Len(t) = n /\ t[n] = l
      /\ \A k \in 1 .. n - 1 : t[k] = p[k]
  BY <1>2, <1>4, <1>5, <1>3 DEF p
<1> QED
  BY <1>2, <1>4, <1>5, <1>6, EmptySeq DEF Text

\* A branch or JAL that is fixed has another last number; everything else stays
\* (obj_create.py:109-134).
LEMMA FixupOfLine ==
  ASSUME NEW i \in Int, NEW l \in Line
  PROVE  /\ Fixup(i, l) \in Line
         /\ Fixup(i, l).word = l.word /\ Fixup(i, l).exact = l.exact
         /\ Len(Fixup(i, l).args) = Len(l.args)
         /\ \A j \in 1 .. Len(l.args) - 1 : Fixup(i, l).args[j] = l.args[j]
         /\ l.word \notin Transfers => Fixup(i, l) = l
         /\ l.word \in Transfers /\ l.args # <<>> =>
              Fixup(i, l).args[Len(l.args)] = l.args[Len(l.args)] - i * 4
<1>1. CASE l.word \notin Transfers
  BY <1>1 DEF Fixup
<1>2. CASE l.word \in Transfers /\ l.args # <<>>
  <2> DEFINE n == Len(l.args)
             s == [l.args EXCEPT ![n] = @ - i * 4]
  <2>1. l.args \in Seq(Int) /\ l.args # <<>>
    BY <1>2 DEF Line
  <2>2. n \in Nat \ {0} /\ l.args[n] \in Int
    BY <2>1, EmptySeq, ElementOfSeq
  <2>3. s \in Seq(Int) /\ Len(s) = n /\ \A j \in 1 .. n - 1 : s[j] = l.args[j]
    BY <2>1, <2>2, ExceptSeq
  <2>4. s[n] = l.args[n] - i * 4
    BY <2>1, <2>2
  <2>5. Fixup(i, l) = [l EXCEPT !.args = s]
    BY <1>2 DEF Fixup, Line
  <2> HIDE DEF s
  <2>6. /\ Fixup(i, l) \in Line /\ Fixup(i, l).args = s
        /\ Fixup(i, l).word = l.word /\ Fixup(i, l).exact = l.exact
    BY <2>3, <2>5 DEF Line
  <2> QED
    BY <1>2, <2>3, <2>6, <2>4
<1>3. CASE l.word \in Transfers /\ l.args = <<>>
  <2> DEFINE v == l.args[0] - i * 4
  <2>1. Len(l.args) = 0 /\ DOMAIN l.args = {}
    BY <1>3
  <2>2. [l.args EXCEPT ![0] = v] = l.args
    BY <1>3, <2>1
  <2>3. Fixup(i, l) = [l EXCEPT !.args = l.args]
    BY <1>3, <2>1, <2>2, Zenon DEF Fixup
  <2>4. Fixup(i, l) = l
    BY <2>3, Zenon DEF Line
  <2> QED
    BY <1>3, <2>4
<1> QED
  BY <1>1, <1>2, <1>3, Zenon

\* What the converter writes is a text: a header and the fixed lines
\* (obj_create.py:143-149).
LEMMA ProgramFileLines ==
  ASSUME object \in Objects,
         header[1] \in Nat, header[2] \in Nat, header[3] \in Nat, header[4] \in Nat,
         body = [k \in DOMAIN object.code |-> Fixup(k - 1, object.code[k].line)]
  PROVE  /\ object.code \in Seq([addr : Nat, line : Line])
         /\ \A k \in 1 .. Len(object.code) : object.code[k].line \in Line
         /\ ProgramFile \in Text /\ ProgramFile[1] = FirstLine
         /\ ProgramFile[1].word = "0x" /\ Len(ProgramFile[1].args) = 4
         /\ ProgramFile[1].args = <<header[1], header[2], header[3], header[4]>>
         /\ object.code = <<>> => Len(ProgramFile) = 2 /\ ProgramFile[2] = Blank
         /\ object.code # <<>> =>
              /\ Len(ProgramFile) = Len(object.code) + 1
              /\ \A k \in 1 .. Len(object.code) :
                   ProgramFile[k + 1] = Fixup(k - 1, object.code[k].line)
<1> DEFINE code == object.code
           rest == IF body = <<>> THEN <<Blank>> ELSE body
<1>1. code \in Seq([addr : Nat, line : Line])
  BY ObjectAssumption DEF Object
<1>2. Len(code) \in Nat /\ DOMAIN code = 1 .. Len(code)
  BY <1>1, LenProperties
<1>3. \A k \in 1 .. Len(code) : code[k].line \in Line
  <2> SUFFICES ASSUME NEW k \in 1 .. Len(code) PROVE code[k].line \in Line
    OBVIOUS
  <2>1. code[k] \in [addr : Nat, line : Line]
    BY <1>1, <1>2, ElementOfSeq
  <2> QED
    BY <2>1
<1>4. \A k \in 1 .. Len(code) : Fixup(k - 1, code[k].line) \in Line
  <2>1. \A i \in Int, l \in Line : Fixup(i, l) \in Line
    BY FixupOfLine
  <2>2. \A k \in 1 .. Len(code) : k - 1 \in Int
    BY <1>2
  <2> QED
    BY <1>3, <2>1, <2>2, Zenon
<1>5. body = [k \in 1 .. Len(code) |-> Fixup(k - 1, code[k].line)]
  BY <1>2
<1> HIDE DEF code
<1>6. body \in Seq(Line) /\ Len(body) = Len(code)
  <2>1. body \in [1 .. Len(code) -> Line]
    BY <1>4, <1>5, Zenon
  <2>2. body \in Seq(Line)
    BY <1>2, <2>1, SeqDef
  <2>3. Len(body) \in Nat /\ DOMAIN body = 1 .. Len(body) /\ DOMAIN body = 1 .. Len(code)
    BY <2>1, <2>2, LenProperties
  <2> QED
    BY <1>2, <2>2, <2>3
<1>7. rest \in Seq(Line) /\ Len(rest) \in Nat
  BY <1>6, ShortFiles, LenProperties DEF Text
<1>8. FirstLine \in Line /\ FirstLine.word = "0x" /\ Len(FirstLine.args) = 4
  <2>1. /\ header[1] \in Int /\ header[2] \in Int /\ header[3] \in Int /\ header[4] \in Int
    OBVIOUS
  <2>2. <<header[1], header[2], header[3], header[4]>> \in Seq(Int)
    BY <2>1
  <2>3. Len(<<header[1], header[2], header[3], header[4]>>) = 4
    OBVIOUS
  <2> QED
    BY <2>2, <2>3 DEF FirstLine, HeaderLine, Line
<1>9. <<FirstLine>> \in Seq(Line) /\ Len(<<FirstLine>>) = 1 /\ <<FirstLine>>[1] = FirstLine
  BY <1>8
<1>10. ProgramFile = <<FirstLine>> \o rest
  BY DEF ProgramFile
<1> HIDE DEF rest
<1>11. /\ ProgramFile \in Seq(Line) /\ Len(ProgramFile) = 1 + Len(rest)
       /\ \A k \in 1 .. 1 + Len(rest) :
            ProgramFile[k] = IF k <= 1 THEN <<FirstLine>>[k] ELSE rest[k - 1]
  BY <1>7, <1>9, <1>10, ConcatProperties
<1>12. ProgramFile # <<>>
  BY <1>7, <1>11, EmptySeq
<1>13. ProgramFile[1] = FirstLine
  BY <1>7, <1>9, <1>11
<1>14. ASSUME code # <<>>
       PROVE  /\ Len(ProgramFile) = Len(code) + 1
              /\ \A k \in 1 .. Len(code) : ProgramFile[k + 1] = Fixup(k - 1, code[k].line)
  <2>1. rest = body
    <3>1. Len(body) # 0
      BY <1>1, <1>6, <1>14, EmptySeq
    <3>2. Len(<<>>) = 0
      OBVIOUS
    <3> QED
      BY <3>1, <3>2, Zenon DEF rest
  <2>2. Len(rest) = Len(code)
    BY <1>6, <2>1
  <2>3. ASSUME NEW k \in 1 .. Len(code) PROVE ProgramFile[k + 1] = Fixup(k - 1, code[k].line)
    <3>1. ProgramFile[k + 1] = rest[k]
      BY <1>2, <1>7, <1>11, <2>2
    <3>2. rest[k] = Fixup(k - 1, code[k].line)
      BY <1>5, <2>1, Zenon
    <3> QED
      BY <3>1, <3>2
  <2>4. Len(ProgramFile) = Len(code) + 1
    BY <1>2, <1>7, <1>11, <2>2
  <2> QED
    BY <2>3, <2>4
<1>15. FirstLine.args = <<header[1], header[2], header[3], header[4]>>
  BY DEF FirstLine, HeaderLine
<1>16. ASSUME code = <<>> PROVE Len(ProgramFile) = 2 /\ ProgramFile[2] = Blank
  <2>1. Len(body) = 0 /\ body = <<>>
    BY <1>6, <1>16, EmptySeq
  <2>2. rest = <<Blank>>
    BY <2>1 DEF rest
  <2>3. Len(rest) = 1 /\ rest[1] = Blank
    BY <2>2
  <2> QED
    BY <1>11, <2>3
<1> QED
  BY <1>1, <1>3, <1>8, <1>11, <1>12, <1>13, <1>14, <1>15, <1>16 DEF Text, code

-----------------------------------------------------------------------------
\* Both begin with their invariants.
LEMMA ToolchainStart == ToolchainInit => LoaderInv /\ ConverterInv
<1> SUFFICES ASSUME ToolchainInit PROVE LoaderInv /\ ConverterInv
  OBVIOUS
<1>1. Start /\ stage = "read" /\ program = <<>>
  BY DEF ToolchainInit, Start
<1>2. CASE ConverterInit
  <2>1. text = <<Blank>> /\ object \in Objects /\ conv = "addresses"
    BY <1>2 DEF ConverterInit
  <2>2. LoaderInv
    BY <1>1, <2>1, ShortFiles, StartInv
  <2> QED
    BY <1>1, <2>1, <2>2 DEF ConverterInv, Converting, Conversions
<1>3. CASE text \in Files /\ object = NoObject /\ conv = "written"
  <2>1. LoaderInv
    BY <1>1, <1>3, LoaderAssumption, StartInv
  <2> QED
    BY <1>3, <2>1, SourceAssumption
       DEF ConverterInv, Converting, Conversions, ConversionEnds
<1> QED
  BY <1>2, <1>3 DEF ToolchainInit

\* A conversion that is given up leaves nothing to run.
LEMMA FailStep ==
  ASSUME LoaderInv, ConverterInv, Converting, UNCHANGED loaderVars,
         Fail(<<Blank>>) \/ Fail(<<Garbage, Garbage, Blank>>)
  PROVE  LoaderInv' /\ ConverterInv'
<1>1. /\ object \in Objects /\ stage = "read" /\ program = <<>>
      /\ object' = object /\ conv' = "failed"
      /\ text' \in {<<Blank>>, <<Garbage, Garbage, Blank>>}
  BY DEF ConverterInv, Fail
<1>2. LoaderInv'
  BY <1>1, ShortFiles, NotYetRead
<1> QED
  BY <1>1, <1>2 DEF ConverterInv, Converting, Conversions, ConversionEnds

\* Every step of the converter keeps both invariants.
LEMMA ConvertStep ==
  ASSUME LoaderInv, ConverterInv, Convert, UNCHANGED loaderVars
  PROVE  LoaderInv' /\ ConverterInv'
<1>1. /\ Converting /\ object \in Objects /\ stage = "read" /\ program = <<>>
      /\ stage' = "read" /\ program' = <<>>
  BY DEF ConverterInv, Converting, Convert, BinaryAddresses, InstructionFixups, OutputProgram,
     Exit, TimeOut, Conversions, loaderVars
<1>2. CASE Fail(<<Blank>>) \/ Fail(<<Garbage, Garbage, Blank>>)
  BY <1>1, <1>2, FailStep
<1>3. CASE BinaryAddresses /\ ~Fail(<<Blank>>) /\ ~Fail(<<Garbage, Garbage, Blank>>)
  <2> DEFINE spans == object.spans
             code  == spans[1]
             bss   == IF Len(spans) = 1 THEN [vaddr |-> UpperAddress(code), memsz |-> 0]
                      ELSE spans[2]
  <2>1. /\ Len(spans) \in 1 .. 2 /\ conv' = "fixups" /\ UNCHANGED <<object, body, text>>
        /\ header' = <<code.vaddr, UpperAddress(code), object.start, UpperAddress(bss)>>
    BY <1>3 DEF BinaryAddresses
  <2>2. object \in Object
    BY <1>1, ObjectAssumption
  <2>3. spans \in Seq(Span) /\ object.start \in Nat
    BY <2>2 DEF Object
  <2>4. code \in Span
    BY <2>1, <2>3, ElementOfSeq
  <2>5. Len(spans) = 2 => spans[2] \in Span
    BY <2>3, ElementOfSeq
  <2>6. \A s \in Span : s.vaddr \in Nat /\ UpperAddress(s) \in Nat
    BY DEF Span, UpperAddress
  <2>7. [vaddr |-> UpperAddress(code), memsz |-> 0] \in Span
    BY <2>4, <2>6 DEF Span
  <2>8. bss \in Span
    <3>1. CASE Len(spans) = 1
      BY <2>7, <3>1
    <3>2. CASE Len(spans) = 2
      BY <2>5, <3>2
    <3> QED
      BY <2>1, <3>1, <3>2
  <2>9. /\ Len(object.spans) \in 1 .. 2
         /\ UpperAddress(bss) = UpperAddress(End(object.spans))
    <3>1. CASE Len(spans) = 1
      <4>1. bss = [vaddr |-> UpperAddress(code), memsz |-> 0] /\ End(spans) = code
        BY <3>1 DEF End
      <4>2. UpperAddress(bss) = UpperAddress(code) + 0 /\ UpperAddress(code) \in Nat
        BY <2>4, <2>6, <4>1 DEF UpperAddress
      <4> QED
        BY <2>1, <4>1, <4>2
    <3>2. CASE Len(spans) = 2
      BY <2>1, <3>2 DEF End
    <3> QED
      BY <2>1, <3>1, <3>2
  <2> HIDE DEF spans, code, bss
  <2>10. header'[1] \in Nat /\ header'[2] \in Nat /\ header'[3] \in Nat /\ header'[4] \in Nat
    <3>1. /\ code.vaddr \in Nat /\ UpperAddress(code) \in Nat /\ object.start \in Nat
          /\ UpperAddress(bss) \in Nat
      BY <2>3, <2>4, <2>6, <2>8
    <3> QED
      BY <2>1, <3>1
  <2>11. /\ header'[1] = object.spans[1].vaddr
         /\ header'[2] = UpperAddress(object.spans[1])
         /\ header'[3] = object.start
         /\ header'[4] = UpperAddress(End(object.spans))
    <3>1. header'[4] = UpperAddress(bss)
      BY <2>1
    <3> QED
      BY <2>1, <2>9, <3>1 DEF spans, code
  <2>12. text' \in Text
    BY <2>1 DEF LoaderInv, ReadInv
  <2>13. LoaderInv'
    BY <1>1, <2>12, NotYetRead
  <2> QED
    BY <1>1, <2>1, <2>9, <2>10, <2>11, <2>13
    DEF ConverterInv, Converting, Conversions, HeaderMade
<1>4. CASE InstructionFixups /\ ~Fail(<<Blank>>) /\ ~Fail(<<Garbage, Garbage, Blank>>)
  <2>1. /\ conv = "fixups" /\ conv' = "output" /\ UNCHANGED <<object, header, text>>
        /\ Contiguous(object.code)
        /\ body' = [k \in DOMAIN object.code |-> Fixup(k - 1, object.code[k].line)]
    BY <1>4 DEF InstructionFixups
  <2>2. text' \in Text
    BY <2>1 DEF LoaderInv, ReadInv
  <2>3. LoaderInv'
    BY <1>1, <2>2, NotYetRead
  <2> QED
    BY <1>1, <2>1, <2>3 DEF ConverterInv, Converting, Conversions, HeaderMade, BodyMade
<1>5. CASE OutputProgram
  <2>1. /\ conv = "output" /\ conv' = "printed" /\ UNCHANGED <<object, header, body, text>>
    BY <1>5 DEF OutputProgram
  <2>2. LoaderInv'
    BY <1>1, <2>1, NotYetRead DEF LoaderInv, ReadInv
  <2> QED
    BY <1>1, <2>1, <2>2 DEF ConverterInv, Converting, Conversions, HeaderMade, BodyMade
<1>6. conv = "printed" => HeaderMade /\ BodyMade /\ ProgramFile \in Text
  BY <1>1, ProgramFileLines DEF ConverterInv, HeaderMade, BodyMade
<1>7. CASE Exit
  <2>1. /\ conv = "printed" /\ conv' = "written" /\ UNCHANGED <<object, header, body>>
        /\ text' = ProgramFile
    BY <1>7 DEF Exit
  <2>2. LoaderInv'
    BY <1>1, <1>6, <2>1, NotYetRead
  <2>3. text' = ProgramFile' /\ HeaderMade' /\ BodyMade'
    BY <1>6, <2>1 DEF ProgramFile, FirstLine, HeaderMade, BodyMade
  <2> QED
    BY <1>1, <2>1, <2>2, <2>3 DEF ConverterInv, Converting, Conversions, ConversionEnds
<1>8. CASE TimeOut
  <2>1. /\ conv' = "timed out" /\ UNCHANGED <<object, header, body>>
        /\ \/ text' = <<Blank>>
           \/ conv = "printed" /\ text' \in Beginnings(ProgramFile)
    BY <1>8 DEF TimeOut, Written
  <2>2. text' \in Text
    BY <1>6, <2>1, ShortFiles, BeginningOfText
  <2>3. LoaderInv'
    BY <1>1, <2>2, NotYetRead
  <2>4. \/ text' = <<Blank>>
        \/ HeaderMade' /\ BodyMade' /\ text' \in Beginnings(ProgramFile')
    BY <1>6, <2>1 DEF ProgramFile, FirstLine, HeaderMade, BodyMade
  <2> QED
    BY <1>1, <2>1, <2>3, <2>4 DEF ConverterInv, Converting, Conversions, ConversionEnds
<1> QED
  BY <1>2, <1>3, <1>4, <1>5, <1>7, <1>8 DEF Convert

\* Every step of the loader does, once the conversion is over.
LEMMA LoadStep == ASSUME LoaderInv, ConverterInv, Load PROVE LoaderInv' /\ ConverterInv'
<1>1. LoaderInv'
  BY LoaderStep DEF Load
<1>2. text' = text /\ UNCHANGED converterVars /\ conv \in ConversionEnds
  BY FileIsOnlyRead DEF Load
<1>3. ProgramFile' = ProgramFile /\ (HeaderMade => HeaderMade') /\ (BodyMade => BodyMade')
  BY <1>2 DEF converterVars, ProgramFile, FirstLine, HeaderMade, BodyMade
<1> QED
  BY <1>1, <1>2, <1>3 DEF ConverterInv, Converting, ConversionEnds, converterVars

\* The invariant of the way of a program to the emulator.
THEOREM ToolchainInvariant == ToolchainSpec => [](LoaderInv /\ ConverterInv)
<1>1. ASSUME LoaderInv /\ ConverterInv, [ToolchainNext]_toolchainVars
      PROVE  (LoaderInv /\ ConverterInv)'
  <2>1. CASE Convert /\ UNCHANGED loaderVars
    BY <1>1, <2>1, ConvertStep
  <2>2. CASE Load
    BY <1>1, <2>2, LoadStep
  <2>3. CASE UNCHANGED toolchainVars
    <3>1. UNCHANGED vars /\ UNCHANGED converterVars /\ UNCHANGED loaderVars /\ text' = text
      BY <2>3 DEF toolchainVars, vars
    <3>2. LoaderInv'
      BY <1>1, <3>1, LoaderStep
    <3>3. ConverterInv'
      BY <1>1, <3>1
         DEF ConverterInv, Converting, converterVars, loaderVars, ProgramFile, FirstLine,
         HeaderMade, BodyMade
    <3> QED
      BY <3>2, <3>3
  <2> QED
    BY <1>1, <2>1, <2>2, <2>3 DEF ToolchainNext
<1> QED
  BY <1>1, ToolchainStart, PTL DEF ToolchainSpec

-----------------------------------------------------------------------------
\* Whatever is on standard input and however it is read, the emulator is given
\* a configuration and instructions of the types it relies on.
THEOREM LoaderTypeCorrect == ToolchainSpec => []LoaderTypeOK
<1>1. LoaderInv => LoaderTypeOK
  BY DEF LoaderInv
<1> QED
  BY <1>1, ToolchainInvariant, PTL

\* free_lines frees the whole copy that lines made.
THEOREM CopiesAreFreed == ToolchainSpec => []FreeLinesFreesTheCopy
BY CopyIsFreed, ToolchainInvariant, PTL

\* No text without an empty line before its end, and with more than a header and
\* its newline, makes an assertion fail.
THEOREM OnlyEmptyLinesAssert == ToolchainSpec => []SeparatedLinesNeverAssert
<1>1. LoaderInv => SeparatedLinesNeverAssert
  BY DEF LoaderInv, EndInv
<1> QED
  BY <1>1, ToolchainInvariant, PTL

\* Printing stays in its buffer, whatever the instructions are, as long as their
\* numbers have ten characters, which is as far as it goes: see
\* ElevenCharactersOverrun.
THEOREM PrintingFits == ToolchainSpec => []StringifyFits
BY PrintedFits, ToolchainInvariant, PTL

\* A program that is refused without an explanation ends with a newline.
THEOREM RefusalsAreExplained == ToolchainSpec => []OnlyTrailingNewlineUnexplained
<1>1. LoaderInv => OnlyTrailingNewlineUnexplained
  BY DEF LoaderInv, EndInv
<1> QED
  BY <1>1, ToolchainInvariant, PTL

\* The files that are run are the program files, for every file, buffer and
\* way of reading: a header with nothing behind it may be run as well, and a file
\* with a number too long for the print buffer may end in it.
THEOREM ExactlyTheProgramFilesRun == ToolchainSpec => []RunsExactlyTheProgramFiles
BY RunsProgramFiles, ToolchainInvariant, PTL

\* What is run is what the file says.
THEOREM TheProgramIsRun == ToolchainSpec => []EmulatesWhatIsWritten
BY EmulatesText, ToolchainInvariant, PTL

-----------------------------------------------------------------------------
\* A converted binary of supported instructions is a program file.
LEMMA ConvertedIsWellFormed ==
  ASSUME ConverterInv, Converted, Supported(object.code) PROVE WellFormed(text)
<1> DEFINE code == object.code
<1>1. /\ object \in Objects /\ text = ProgramFile
      /\ header[1] \in Nat /\ header[2] \in Nat /\ header[3] \in Nat /\ header[4] \in Nat
      /\ body = [k \in DOMAIN object.code |-> Fixup(k - 1, object.code[k].line)]
  BY DEF ConverterInv, HeaderMade, BodyMade, Converted
<1>2. code # <<>>
  BY DEF Supported
<1>3. /\ code \in Seq([addr : Nat, line : Line])
      /\ \A k \in 1 .. Len(code) : code[k].line \in Line
      /\ text[1].word = "0x" /\ Len(text[1].args) = 4
      /\ Len(text) = Len(code) + 1
      /\ \A k \in 1 .. Len(code) : text[k + 1] = Fixup(k - 1, code[k].line)
  BY <1>1, <1>2, ProgramFileLines
<1>4. Len(code) \in Nat \ {0} /\ DOMAIN code = 1 .. Len(code)
  BY <1>2, <1>3, EmptySeq, LenProperties
<1>5. ASSUME NEW l \in Line, Parses(l), l = Canonical(Decode(l)), NEW i \in Int
      PROVE  /\ Fixup(i, l).word \in InstNo /\ Fixup(i, l).exact
             /\ Len(Fixup(i, l).args) = Arity(Fixup(i, l).word)
             /\ \A j \in RegisterArgs(Fixup(i, l).word) :
                  Fixup(i, l).args[j] \in 0 .. 31
  <2>1. /\ l.word \in InstNo /\ l.exact /\ Len(l.args) = Arity(l.word)
        /\ RegisterArgs(l.word) \subseteq 1 .. Arity(l.word)
        /\ \A j \in RegisterArgs(l.word) : l.args[j] \in 0 .. 31
    BY <1>5, ParsedLine DEF Parses
  <2>2. /\ Fixup(i, l).word = l.word /\ Fixup(i, l).exact = l.exact
        /\ Len(Fixup(i, l).args) = Len(l.args)
        /\ \A j \in 1 .. Len(l.args) - 1 : Fixup(i, l).args[j] = l.args[j]
        /\ l.word \notin Transfers => Fixup(i, l) = l
    BY <1>5, FixupOfLine
  <2>3. CASE l.word \notin Transfers
    BY <2>1, <2>2, <2>3
  <2>4. CASE l.word \in Transfers
    <3>1. RegisterArgs(l.word) \subseteq 1 .. Arity(l.word) - 1
      <4>1. CASE l.word \in BranchInsts
        <5>1. /\ l.word \in FormatRRI /\ l.word \notin FormatRRR /\ l.word \notin FormatROR
              /\ l.word \notin FormatRI /\ l.word # "ECALL"
          BY <4>1 DEF FormatRRR, FormatRRI, FormatROR, FormatRI, BranchInsts, RRRInsts, RRIInsts,
             MemInsts, LoadInsts, StoreInsts
        <5>2. Arity(l.word) = 3 /\ RegisterArgs(l.word) = {1, 2}
          BY <5>1, Zenon DEF Arity, RegisterArgs
        <5> QED
          BY <5>2
      <4>2. CASE l.word = "JAL"
        <5>1. /\ l.word \notin FormatRRR /\ l.word \notin FormatRRI /\ l.word \notin FormatROR
              /\ l.word \in FormatRI /\ l.word # "ECALL"
          BY <4>2 DEF FormatRRR, FormatRRI, FormatROR, FormatRI, BranchInsts, RRRInsts, RRIInsts,
             MemInsts, LoadInsts, StoreInsts
        <5>2. Arity(l.word) = 2 /\ RegisterArgs(l.word) = {1}
          BY <5>1, Zenon DEF Arity, RegisterArgs
        <5> QED
          BY <5>2
      <4> QED
        BY <2>4, <4>1, <4>2 DEF Transfers
    <3>2. RegisterArgs(l.word) \subseteq 1 .. Len(l.args) - 1
      BY <2>1, <3>1, Zenon
    <3>3. \A j \in RegisterArgs(l.word) : Fixup(i, l).args[j] = l.args[j]
      BY <2>2, <3>2, Zenon
    <3> QED
      BY <2>1, <2>2, <3>3, Zenon
  <2> QED
    BY <2>3, <2>4
<1>6. ASSUME NEW k \in 2 .. Len(text)
      PROVE  /\ text[k].word \in InstNo /\ text[k].exact
             /\ Len(text[k].args) = Arity(text[k].word)
             /\ \A j \in RegisterArgs(text[k].word) : text[k].args[j] \in 0 .. 31
  <2> DEFINE m == k - 1
             l == code[m].line
  <2>1. m \in 1 .. Len(code) /\ m + 1 = k /\ m - 1 \in Int
    BY <1>3, <1>4
  <2>2. l \in Line /\ text[m + 1] = Fixup(m - 1, l)
    BY <1>3, <2>1
  <2>3. Parses(l) /\ l = Canonical(Decode(l))
    BY <1>4, <2>1, Zenon DEF Supported
  <2>4. text[k] = Fixup(m - 1, l)
    BY <2>1, <2>2
  <2> HIDE DEF m, l
  <2> QED
    BY <1>5, <2>1, <2>2, <2>3, <2>4, Zenon
<1>7. ASSUME NEW k \in 2 .. Len(text), NEW j \in RegisterArgs(text[k].word)
      PROVE  text[k].args[j] >= 0 /\ text[k].args[j] < 32
  <2> DEFINE x == text[k].args[j]
  <2>1. x \in 0 .. 31
    BY <1>6, Zenon
  <2> HIDE DEF x
  <2>2. x >= 0 /\ x < 32
    BY <2>1
  <2> QED
    BY <2>2, Zenon DEF x
<1>8. Len(text) > 1
  BY <1>3, <1>4
<1>9. ParsesHeader(text[1])
  BY <1>3 DEF ParsesHeader
<1> QED
  BY <1>6, <1>7, <1>8, <1>9, Zenon DEF WellFormed

\* The emulator accepts every converted binary of supported instructions, or its
\* print buffer does not hold the numbers of one.
THEOREM ConverterAndLoaderAgree == ToolchainSpec => []ConvertedObjectsLoad
<1>1. LoaderInv /\ ConverterInv => ConvertedObjectsLoad
  <2> SUFFICES ASSUME LoaderInv, ConverterInv, Converted, whole, Supported(object.code)
               PROVE  /\ stage \notin {"parse error", "mismatch", "assert"}
                      /\ stage = "undefined" => ~ShortNumbers
    BY DEF ConvertedObjectsLoad
  <2>1. WellFormed(text)
    BY ConvertedIsWellFormed
  <2>2. ~Reading => program = text
    BY DEF LoaderInv, ReadInv
  <2>3. stage \in {"parse error", "mismatch", "assert"} => ~Reading
    BY DEF Reading
  <2>4. stage = "undefined" => ~ShortNumbers
    BY DEF LoaderInv, EndInv
  <2> QED
    BY <2>1, <2>2, <2>3, <2>4, ProgramFilesRun
<1> QED
  BY <1>1, ToolchainInvariant, PTL

\* Code whose instructions are four bytes apart has no gap.
LEMMA ContiguousHasNoGap ==
  ASSUME NEW code \in Seq([addr : Nat, line : Line]), Contiguous(code) PROVE ~Gap(code)
<1> SUFFICES ASSUME NEW k \in 2 .. Len(code), code[k].addr - code[k - 1].addr # 4
             PROVE  FALSE
  BY DEF Gap
<1> DEFINE m == k - 1
<1>1. m \in 1 .. Len(code) - 1 /\ m \in 1 .. Len(code) /\ m + 1 = k
  BY LenProperties
<1>2. code[m].addr + 4 = code[m + 1].addr
  BY <1>1 DEF Contiguous
<1>3. code[m].addr \in Nat
  <2> HIDE DEF m
  <2>1. code[m] \in [addr : Nat, line : Line]
    BY <1>1, ElementOfSeq, Zenon
  <2> QED
    BY <2>1
<1>4. code[k].addr = code[m].addr + 4
  BY <1>1, <1>2
<1> QED
  BY <1>3, <1>4

\* What is run of a beginning of a converter's output are its first instructions,
\* the last of them perhaps cut, under its header.
LEMMA BeginningRuns ==
  ASSUME LoaderInv, object \in Objects, HeaderMade, BodyMade, text \in Beginnings(ProgramFile),
         stage = "emulate", whole
  PROVE  /\ HeaderIs(FirstLine) /\ Len(instrs) <= Len(body)
         /\ \A k \in 1 .. Len(instrs) - 1 : Canonical(instrs[k].inst) = body[k]
<1> DEFINE n == Len(instrs)
           b == Len(body)
           t == Len(text)
<1>1. /\ object.code \in Seq([addr : Nat, line : Line]) /\ ProgramFile \in Text
      /\ ProgramFile[1] = FirstLine
      /\ object.code = <<>> => Len(ProgramFile) = 2 /\ ProgramFile[2] = Blank
      /\ object.code # <<>> =>
           /\ Len(ProgramFile) = Len(object.code) + 1
           /\ \A k \in 1 .. Len(object.code) :
                ProgramFile[k + 1] = Fixup(k - 1, object.code[k].line)
  BY ProgramFileLines DEF HeaderMade, BodyMade
<1>2. b = Len(object.code) /\ b \in Nat /\ (object.code = <<>> <=> b = 0)
      /\ \A k \in 1 .. b : body[k] = Fixup(k - 1, object.code[k].line)
  <2> DEFINE f(k) == Fixup(k - 1, object.code[k].line)
  <2>1. DOMAIN object.code = 1 .. Len(object.code) /\ Len(object.code) \in Nat
    BY <1>1, LenProperties
  <2>2. body = [k \in 1 .. Len(object.code) |-> f(k)]
    BY <2>1 DEF BodyMade
  <2> HIDE DEF f
  <2>3. Len(body) = Len(object.code)
    BY <2>1, <2>2
  <2>4. \A k \in 1 .. Len(object.code) : body[k] = f(k)
    BY <2>2
  <2>5. object.code = <<>> <=> Len(object.code) = 0
    BY <1>1, EmptySeq
  <2> QED
    BY <2>1, <2>3, <2>4, <2>5 DEF f
<1>3. /\ t \in 1 .. Len(ProgramFile) /\ WordOf(text[t], ProgramFile[t])
      /\ \A k \in 1 .. t - 1 : text[k] = ProgramFile[k]
  BY <1>1, BeginningOfText
<1>4. /\ HeaderIs(text[1])
      /\ IF HeaderOnly(text) THEN instrs = <<>> ELSE n = t - 1
      /\ \A k \in DOMAIN instrs : Canonical(instrs[k].inst) = text[k + 1]
  BY EmulatesText DEF EmulatesWhatIsWritten
<1>5. program = text /\ DOMAIN instrs = 1 .. n /\ n \in Nat
  BY LenProperties DEF LoaderInv, LoaderTypeOK, ReadInv, Reading
<1>6. WellFormed(text) \/ (HeaderOnly(text) /\ instrs = <<>>)
  BY <1>5, OnlyProgramFilesRun
<1>7. t > 1
  BY <1>6 DEF WellFormed, HeaderOnly
<1>8. ASSUME WellFormed(text) PROVE object.code # <<>>
  <2> SUFFICES ASSUME object.code = <<>> PROVE FALSE
    OBVIOUS
  <2>1. Len(ProgramFile) = 2 /\ ProgramFile[2] = Blank
    BY <1>1
  <2>2. t \in 1 .. 2
    BY <1>3, <2>1
  <2>3. t = 2
    BY <1>7, <2>2
  <2>4. WordOf(text[2], Blank) /\ 2 \in 2 .. Len(text)
    BY <1>3, <2>1, <2>3
  <2>5. text[2].word \in InstNo
    BY <1>8, <2>4 DEF WellFormed
  <2>6. text[2].word \in {"", "other"}
    BY <2>4 DEF WordOf, Blank
  <2> QED
    BY <2>5, <2>6 DEF InstNo, ComputeInsts, MemInsts, ControlInsts, SetInsts, BranchInsts,
       RRRInsts, RRIInsts, StoreInsts, LoadInsts
<1>9. HeaderIs(FirstLine)
  BY <1>1, <1>3, <1>4, <1>7
<1> HIDE DEF n, b, t
<1>10. CASE instrs = <<>>
  <2>1. n = 0
    BY <1>10 DEF n
  <2> QED
    BY <1>2, <1>9, <2>1 DEF n, b
<1>11. CASE instrs # <<>>
  <2>1. n = t - 1 /\ object.code # <<>>
    BY <1>4, <1>6, <1>8, <1>11
  <2>2. n <= b
    BY <1>1, <1>2, <1>3, <1>5, <2>1
  <2>3. ASSUME NEW k \in 1 .. n - 1 PROVE Canonical(instrs[k].inst) = body[k]
    <3>1. k \in 1 .. n /\ k \in 1 .. b /\ k + 1 \in 1 .. t - 1
      BY <1>2, <1>3, <1>5, <2>1, <2>2
    <3> QED
      BY <1>1, <1>2, <1>3, <1>4, <1>5, <2>1, <3>1
  <2> QED
    BY <1>9, <2>2, <2>3 DEF n, b
<1> QED
  BY <1>10, <1>11

\* Nothing of a failed conversion, or of a binary whose instructions are not four
\* bytes apart, is ever run, and of a conversion that was timed out nothing but a
\* beginning of the program, for every binary and every moment of the time-out.
THEOREM OnlyConvertedCodeIsRun == ToolchainSpec => []OnlyConvertedCodeRuns
<1>1. LoaderInv /\ ConverterInv => OnlyConvertedCodeRuns
  <2> SUFFICES ASSUME LoaderInv, ConverterInv, object \in Objects, stage = "emulate"
               PROVE  /\ conv # "failed" /\ ~Gap(object.code)
                      /\ conv = "timed out" /\ whole =>
                           /\ HeaderIs(FirstLine) /\ Len(instrs) <= Len(body)
                           /\ \A k \in 1 .. Len(instrs) - 1 :
                                Canonical(instrs[k].inst) = body[k]
    BY DEF OnlyConvertedCodeRuns
  <2>1. ParsesHeader(program[1]) /\ WordOf(program[1], text[1])
    BY DEF LoaderInv, ReadInv, ParseInv, Reading, Parsed
  <2>2. text \notin {<<Blank>>, <<Garbage, Garbage, Blank>>}
    <3> SUFFICES ASSUME text \in {<<Blank>>, <<Garbage, Garbage, Blank>>} PROVE FALSE
      OBVIOUS
    <3>1. text[1].word \in {"", "other"}
      BY ShortFiles
    <3> QED
      BY <2>1, <3>1 DEF WordOf, ParsesHeader
  <2>3. /\ conv = "written" \/ conv = "timed out"
        /\ BodyMade
        /\ conv = "timed out" => HeaderMade /\ text \in Beginnings(ProgramFile)
    BY <2>2 DEF ConverterInv, Converting, Conversions, ConversionEnds
  <2>4. object.code \in Seq([addr : Nat, line : Line])
    BY ObjectAssumption DEF Object
  <2>5. ~Gap(object.code)
    BY <2>3, <2>4, ContiguousHasNoGap DEF BodyMade
  <2> QED
    BY <2>3, <2>5, BeginningRuns
<1> QED
  BY <1>1, ToolchainInvariant, PTL

-----------------------------------------------------------------------------
\* The binary lies in the address space of the machine: no address of its code
\* and no end of a load span has more than 64 bits, as in every ELF64 file
\* that can be loaded.
InAddressSpace(o) ==
  /\ \A k \in DOMAIN o.code : o.code[k].addr < U64
  /\ \A k \in DOMAIN o.spans : UpperAddress(o.spans[k]) < U64

\* Every set of natural numbers has a smallest element, the form of induction
\* that needs no operator.
LEMMA SmallestNumber ==
  ASSUME NEW T \in SUBSET Nat, T # {} PROVE \E x \in T : \A y \in T : x <= y
<1>1. PICK x \in T : \A y \in T : ~(<<y, x>> \in OpToRel(<, Nat))
  BY WFMin, NatLessThanWellFounded
<1>2. ASSUME NEW y \in T PROVE x <= y
  <2>1. x \in Nat /\ y \in Nat
    OBVIOUS
  <2>2. ~(y < x)
    BY <1>1, <2>1 DEF OpToRel
  <2> QED
    BY <2>1, <2>2
<1> QED
  BY <1>2

\* Code without a gap that starts at 0 has every instruction at four times its
\* place.
LEMMA AddressesOfCode ==
  ASSUME NEW code \in Seq([addr : Nat, line : Line]), Contiguous(code), code[1].addr = 0,
         NEW k \in 1 .. Len(code)
  PROVE  code[k].addr = 4 * (k - 1)
<1> DEFINE T == {j \in 1 .. Len(code) : code[j].addr # 4 * (j - 1)}
<1>1. Len(code) \in Nat
  OBVIOUS
<1>2. SUFFICES ASSUME T # {} PROVE FALSE
  OBVIOUS
<1>3. T \in SUBSET Nat
  BY <1>1
<1>4. PICK x \in T : \A y \in T : x <= y
  BY <1>2, <1>3, SmallestNumber
<1>5. x \in 1 .. Len(code) /\ code[x].addr # 4 * (x - 1) /\ x # 1
  BY <1>4
<1> DEFINE p == x - 1
<1>6. p \in 1 .. Len(code) - 1 /\ p + 1 = x /\ p \in 1 .. Len(code)
  BY <1>1, <1>5
<1>7. p \notin T
  BY <1>3, <1>4, <1>6
<1>8. code[p].addr = 4 * (p - 1)
  BY <1>6, <1>7
<1>9. code[p].addr + 4 = code[p + 1].addr
  BY <1>6 DEF Contiguous
<1> QED
  BY <1>5, <1>6, <1>8, <1>9

\* In the line that is printed for a branch or JAL the last number is imm.
LEMMA PrintedTarget ==
  ASSUME NEW i \in Instruction, i.inst_no \in Transfers
  PROVE  /\ Len(Canonical(i).args) # 0
         /\ Canonical(i).args[Len(Canonical(i).args)] = i.imm
<1>1. i.imm \in Int /\ i.rd \in Nat /\ i.rs1 \in Nat
  BY DEF Instruction
<1>2. CASE i.inst_no \in BranchInsts
  <2>1. /\ i.inst_no \in FormatRRI /\ i.inst_no \notin FormatRRR /\ i.inst_no \notin FormatROR
        /\ i.inst_no \notin FormatRI /\ i.inst_no # "ECALL"
    BY <1>2 DEF FormatRRR, FormatRRI, FormatROR, FormatRI, BranchInsts, RRRInsts, RRIInsts,
       MemInsts, LoadInsts, StoreInsts
  <2>2. Canonical(i).args = <<i.rd, i.rs1, i.imm>>
    BY <2>1, Zenon DEF Canonical
  <2> QED
    BY <2>2
<1>3. CASE i.inst_no = "JAL"
  <2>1. /\ i.inst_no \notin FormatRRR /\ i.inst_no \notin FormatRRI
        /\ i.inst_no \notin FormatROR /\ i.inst_no \in FormatRI /\ i.inst_no # "ECALL"
    BY <1>3 DEF FormatRRR, FormatRRI, FormatROR, FormatRI, BranchInsts, RRRInsts, RRIInsts,
       MemInsts, LoadInsts, StoreInsts
  <2>2. Canonical(i).args = <<i.rd, i.imm>>
    BY <2>1, Zenon DEF Canonical
  <2> QED
    BY <2>2
<1> QED
  BY <1>2, <1>3 DEF Transfers

\* A small number is its own residue.
LEMMA SmallWord == ASSUME NEW v \in Nat, v < U64 PROVE Wrap(v) = v
<1>1. U64 \in Nat \ {0} /\ v \in 0 .. U64 - 1
  BY WidthAssumption
<1> QED
  BY <1>1, OwnResidue DEF Wrap

\* The data a binary reserves in the address space is memory of the emulator:
\* the header's last number, taken for a size, reaches at least as far as the
\* address it is, because the memory starts at the end of the code and not
\* before 0 (obj_create.py:71 and memory.c:145-151).
THEOREM ReservedDataIsEmulated ==
  ToolchainSpec => [](InAddressSpace(object) => ReservedDataIsMemory)
<1>1. LoaderInv /\ ConverterInv => (InAddressSpace(object) => ReservedDataIsMemory)
  <2> SUFFICES ASSUME LoaderInv, ConverterInv, InAddressSpace(object), stage = "emulate", whole,
                      Converted, Len(object.spans) = 2,
                      object.spans[2].vaddr >= cfg.instr_upper
               PROVE  ReservedMemory \subseteq EmulatedMemory
    BY DEF ReservedDataIsMemory
  <2> DEFINE bss == object.spans[2]
  <2>1. /\ object \in Objects /\ text = ProgramFile
        /\ header[1] \in Nat /\ header[2] \in Nat /\ header[3] \in Nat /\ header[4] \in Nat
        /\ header[4] = UpperAddress(End(object.spans))
        /\ body = [k \in DOMAIN object.code |-> Fixup(k - 1, object.code[k].line)]
    BY DEF ConverterInv, HeaderMade, BodyMade, Converted
  <2>2. object.spans \in Seq(Span)
    BY <2>1, ObjectAssumption DEF Object
  <2>3. bss \in Span /\ End(object.spans) = bss /\ 2 \in DOMAIN object.spans
    BY <2>2, ElementOfSeq DEF End
  <2>4. bss.vaddr \in Nat /\ bss.memsz \in Nat /\ header[4] = bss.vaddr + bss.memsz
    BY <2>1, <2>3 DEF Span, UpperAddress
  <2>5. header[4] < U64
    BY <2>1, <2>3 DEF InAddressSpace
  <2>6. text[1].args[4] = header[4]
    BY <2>1, ProgramFileLines
  <2>7. cfg.memory_sz = header[4]
    <3>1. cfg.memory_sz = Wrap(text[1].args[4])
      BY EmulatesText DEF EmulatesWhatIsWritten, HeaderIs
    <3> QED
      BY <2>1, <2>5, <2>6, <3>1, SmallWord
  <2>8. cfg.instr_upper \in Nat
    BY DEF LoaderInv, LoaderTypeOK, Configuration, Word
  <2> HIDE DEF bss
  <2>9. ASSUME NEW a \in bss.vaddr .. bss.vaddr + bss.memsz - 1 PROVE a \in EmulatedMemory
    BY <2>4, <2>7, <2>8, <2>9 DEF EmulatedMemory, bss
  <2> QED
    BY <2>3, <2>9 DEF ReservedMemory
<1> QED
  BY <1>1, ToolchainInvariant, PTL

\* A line that is fixed is empty only if it was.
LEMMA FixedIsNotBlank ==
  ASSUME NEW l \in Line, Fixup(0, l) = Blank PROVE l = Blank
<1>1. Fixup(0, l).word = l.word /\ (l.word \notin Transfers => Fixup(0, l) = l)
  BY FixupOfLine
<1>2. Blank.word = "" /\ "" \notin Transfers
  BY DEF Blank, Transfers, BranchInsts
<1> QED
  BY <1>1, <1>2

\* What is run of a converted binary are its lines, fixed, in their order.
LEMMA LoadedCode ==
  ASSUME LoaderInv, ConverterInv, stage = "emulate", whole, Converted
  PROVE  /\ object.code \in Seq([addr : Nat, line : Line]) /\ Contiguous(object.code)
         /\ Len(object.code) \in Nat /\ Len(instrs) = Len(object.code)
         /\ DOMAIN instrs = 1 .. Len(object.code) /\ DOMAIN object.code = 1 .. Len(object.code)
         /\ text[1].args = <<header[1], header[2], header[3], header[4]>>
         /\ \A k \in 1 .. Len(object.code) :
              /\ object.code[k].line \in Line /\ instrs[k].inst \in Instruction
              /\ instrs[k].inst = Decode(Fixup(k - 1, object.code[k].line))
              /\ Canonical(instrs[k].inst) = Fixup(k - 1, object.code[k].line)
              /\ instrs[k].inst_addr = Wrap(text[1].args[1] + 4 * k - 4)
<1> DEFINE code == object.code
<1>1. /\ object \in Objects /\ text = ProgramFile /\ Contiguous(code)
      /\ header[1] \in Nat /\ header[2] \in Nat /\ header[3] \in Nat /\ header[4] \in Nat
      /\ body = [m \in DOMAIN object.code |-> Fixup(m - 1, object.code[m].line)]
  BY DEF ConverterInv, HeaderMade, BodyMade, Converted
<1>2. /\ code \in Seq([addr : Nat, line : Line])
      /\ \A m \in 1 .. Len(code) : code[m].line \in Line
      /\ text[1].args = <<header[1], header[2], header[3], header[4]>>
      /\ text[1].word = "0x" /\ Len(text[1].args) = 4
      /\ code = <<>> => Len(text) = 2 /\ text[2] = Blank
      /\ code # <<>> =>
           /\ Len(text) = Len(code) + 1
           /\ \A m \in 1 .. Len(code) : text[m + 1] = Fixup(m - 1, code[m].line)
  BY <1>1, ProgramFileLines
<1>3. /\ IF HeaderOnly(text) THEN instrs = <<>> ELSE Len(instrs) = Len(text) - 1
      /\ \A m \in DOMAIN instrs :
           /\ Canonical(instrs[m].inst) = text[m + 1]
           /\ instrs[m].inst_addr = Wrap(text[1].args[1] + 4 * m - 4)
  BY EmulatesText DEF EmulatesWhatIsWritten
<1>4. DOMAIN instrs = 1 .. Len(instrs) /\ Len(instrs) \in Nat /\ program = text
  BY LenProperties DEF LoaderInv, LoaderTypeOK, ReadInv, Reading
<1>5. ASSUME NEW m \in 1 .. Len(instrs)
      PROVE  instrs[m].inst \in Instruction /\ instrs[m].inst = Decode(text[m + 1])
  BY <1>4, ParsedInstruction
<1>6. HeaderOnly(text) <=> code = <<>>
  <2>1. ASSUME code = <<>> PROVE HeaderOnly(text)
    BY <1>2, <2>1 DEF HeaderOnly, ParsesHeader
  <2>2. ASSUME code # <<>>, HeaderOnly(text) PROVE FALSE
    <3>1. Len(code) \in Nat /\ DOMAIN code = 1 .. Len(code)
      BY <1>2, LenProperties
    <3>2. Len(text) = 2 /\ text[2] = Blank /\ Len(text) = Len(code) + 1
      BY <1>2, <2>2, Zenon DEF HeaderOnly
    <3> HIDE DEF code
    <3>3. Len(code) = 1 /\ text[2] = Blank /\ 1 \in 1 .. Len(code) /\ 1 \in DOMAIN code
      BY <3>1, <3>2
    <3>4. code[1].line \in Line /\ code[1].line # Blank
      BY <1>1, <1>2, <3>3, ObjectAssumption DEF code
    <3>5. Fixup(0, code[1].line) = Blank
      <4>1. text[1 + 1] = Fixup(1 - 1, code[1].line)
        BY <1>2, <2>2, <3>3, Zenon
      <4> QED
        BY <3>3, <4>1
    <3> QED
      BY <3>4, <3>5, FixedIsNotBlank
  <2> QED
    BY <2>1, <2>2
<1>7. Len(code) \in Nat /\ Len(instrs) = Len(code) /\ DOMAIN code = 1 .. Len(code)
  <2>1. Len(code) \in Nat /\ DOMAIN code = 1 .. Len(code)
    BY <1>2, LenProperties
  <2>2. Len(instrs) = Len(code)
    BY <1>2, <1>3, <1>6, <2>1
  <2> QED
    BY <2>1, <2>2
<1>8. \A m \in 1 .. Len(code) : text[m + 1] = Fixup(m - 1, code[m].line)
  <2> SUFFICES ASSUME NEW m \in 1 .. Len(code) PROVE code # <<>>
    BY <1>2
  <2> QED
    BY <1>7
<1> HIDE DEF code
<1>9. ASSUME NEW m \in 1 .. Len(code)
      PROVE  /\ code[m].line \in Line /\ instrs[m].inst \in Instruction
             /\ instrs[m].inst = Decode(Fixup(m - 1, code[m].line))
             /\ Canonical(instrs[m].inst) = Fixup(m - 1, code[m].line)
             /\ instrs[m].inst_addr = Wrap(text[1].args[1] + 4 * m - 4)
  <2>1. m \in DOMAIN instrs /\ m \in 1 .. Len(instrs)
    BY <1>4, <1>7
  <2>2. text[m + 1] = Fixup(m - 1, code[m].line)
    BY <1>8, Zenon
  <2>3. instrs[m].inst = Decode(text[m + 1]) /\ Canonical(instrs[m].inst) = text[m + 1]
    BY <1>3, <1>5, <2>1, Zenon
  <2> QED
    BY <1>2, <1>3, <1>5, <2>1, <2>2, <2>3, Zenon
<1> QED
  BY <1>1, <1>2, <1>4, <1>7, <1>9, Zenon DEF code

\* What the emulator adds to the address of a transfer leads to where the
\* binary's transfer went, for every binary whose code starts at 0: the
\* distances are counted in lines, the addresses in words of the machine, and
\* the two agree as long as the code lies in the address space
\* (obj_create.py:109-134 and instructions.c:85).
THEOREM TransfersArrive ==
  ToolchainSpec => [](InAddressSpace(object) => TransfersReachTheirTargets)
<1>1. LoaderInv /\ ConverterInv => (InAddressSpace(object) => TransfersReachTheirTargets)
  <2> DEFINE code == object.code
  <2> SUFFICES ASSUME LoaderInv, ConverterInv, InAddressSpace(object), stage = "emulate", whole,
                      Converted, AtZero, NEW k \in DOMAIN instrs, NEW j \in DOMAIN instrs,
                      instrs[k].inst.inst_no \in Transfers,
                      Target(code[k].line) = code[j].addr
               PROVE  instrs[k].inst_addr + instrs[k].inst.imm = instrs[j].inst_addr
    BY Zenon DEF TransfersReachTheirTargets
  <2>1. /\ code \in Seq([addr : Nat, line : Line]) /\ Contiguous(code)
        /\ Len(code) \in Nat /\ DOMAIN instrs = 1 .. Len(code) /\ DOMAIN code = 1 .. Len(code)
        /\ \A m \in 1 .. Len(code) :
             /\ code[m].line \in Line /\ instrs[m].inst \in Instruction
             /\ Canonical(instrs[m].inst) = Fixup(m - 1, code[m].line)
             /\ instrs[m].inst_addr = Wrap(text[1].args[1] + 4 * m - 4)
    BY LoadedCode
  <2>2. header[1] = 0 /\ code[1].addr = 0
    BY DEF ConverterInv, HeaderMade, Converted, AtZero
  <2>3. text[1].args[1] = 0
    BY <2>2, LoadedCode
  <2>4. k \in 1 .. Len(code) /\ j \in 1 .. Len(code) /\ k \in Nat /\ j \in Nat
    <3>1. /\ Len(code) \in Nat /\ k \in 1 .. Len(code) /\ j \in 1 .. Len(code)
      BY <2>1, Zenon
    <3> HIDE DEF code
    <3> QED
      BY <3>1
  <2> HIDE DEF code
  <2>5. ASSUME NEW m \in 1 .. Len(code)
        PROVE  code[m].addr = 4 * (m - 1) /\ instrs[m].inst_addr = 4 * (m - 1)
    <3>1. code[m].addr = 4 * (m - 1)
      BY <2>1, <2>2, AddressesOfCode
    <3>2. code[m].addr < U64
      BY <2>1 DEF InAddressSpace, code
    <3>3. m \in Nat /\ 4 * (m - 1) \in Nat
      <4>1. Len(code) \in Nat
        BY <2>1, Zenon
      <4> QED
        BY <4>1
    <3>4. instrs[m].inst_addr = Wrap(text[1].args[1] + 4 * m - 4)
      BY <2>1, Zenon
    <3>5. text[1].args[1] + 4 * m - 4 = 4 * (m - 1)
      BY <2>3, <3>3
    <3> QED
      BY <3>1, <3>2, <3>3, <3>4, <3>5, SmallWord
  <2> DEFINE i == instrs[k].inst
             l == code[k].line
             f == Fixup(k - 1, l)
  <2>6. i \in Instruction /\ Canonical(i) = f /\ l \in Line /\ k - 1 \in Int
    BY <2>1, <2>4
  <2>7. Len(f.args) # 0 /\ f.args[Len(f.args)] = i.imm /\ i.imm \in Int
    <3>1. i.inst_no \in Transfers
      OBVIOUS
    <3> HIDE DEF i, f
    <3> QED
      BY <2>6, <3>1, PrintedTarget DEF Instruction
  <2>8. f.word = i.inst_no
    BY <2>6 DEF Canonical
  <2> HIDE DEF f, l
  <2>9. /\ f.word = l.word /\ Len(f.args) = Len(l.args)
        /\ l.word \in Transfers /\ l.args # <<>> =>
             f.args[Len(l.args)] = l.args[Len(l.args)] - (k - 1) * 4
    BY <2>6, FixupOfLine DEF f
  <2>10. l.args # <<>>
    <3>1. Len(l.args) # 0 /\ Len(<<>>) = 0
      BY <2>7, <2>9
    <3> QED
      BY <3>1, Zenon
  <2>11. i.imm = l.args[Len(l.args)] - (k - 1) * 4
    BY <2>7, <2>8, <2>9, <2>10
  <2>12. l.args[Len(l.args)] = 4 * (j - 1)
    BY <2>4, <2>5, Zenon DEF Target, l
  <2>13. /\ instrs[k].inst_addr = 4 * (k - 1) /\ instrs[j].inst_addr = 4 * (j - 1)
    BY <2>4, <2>5
  <2> QED
    BY <2>4, <2>11, <2>12, <2>13
<1> QED
  BY <1>1, ToolchainInvariant, PTL

-----------------------------------------------------------------------------
\* The formats of the transfers.
LEMMA TransferFormats ==
  /\ \A op \in BranchInsts :
       /\ op \in FormatRRI /\ op \notin FormatRRR /\ op \notin FormatROR
       /\ op \notin FormatRI /\ op # "ECALL"
  /\ "JAL" \in FormatRI /\ "JAL" \notin FormatRRR /\ "JAL" \notin FormatRRI
  /\ "JAL" \notin FormatROR
BY DEF FormatRRR, FormatRRI, FormatROR, FormatRI, BranchInsts, RRRInsts, RRIInsts, MemInsts,
   LoadInsts, StoreInsts

\* A fixed line that prints as it is written is the instruction of the binary,
\* with the distance in the place of the address (obj_create.py:109-134 and
\* instructions.c:40-87).
LEMMA LoadedIsFixed ==
  ASSUME NEW l \in Line, NEW n \in Int, NEW i \in Instruction,
         i = Decode(Fixup(n, l)), Canonical(i) = Fixup(n, l)
  PROVE  /\ i.inst_no = l.word
         /\ l.word \notin Transfers => i = Decode(l)
         /\ l.word \in Transfers =>
              /\ i.inst_no = Decode(l).inst_no /\ i.rd = Decode(l).rd
              /\ i.rs1 = Decode(l).rs1 /\ i.rs2 = Decode(l).rs2
              /\ i.imm = Decode(l).imm - n * 4 /\ Decode(l).imm \in Int
<1> DEFINE f == Fixup(n, l)
           d == Decode(l)
<1>1. /\ f \in Line /\ f.word = l.word /\ Len(f.args) = Len(l.args)
      /\ \A j \in 1 .. Len(l.args) - 1 : f.args[j] = l.args[j]
      /\ l.word \notin Transfers => f = l
      /\ l.word \in Transfers /\ l.args # <<>> =>
           f.args[Len(l.args)] = l.args[Len(l.args)] - n * 4
  BY FixupOfLine
<1>2. i.inst_no = l.word /\ f.args = Canonical(i).args /\ i = Decode(f)
  <2>1. f = Canonical(i) /\ i = Decode(f)
    OBVIOUS
  <2> HIDE DEF f
  <2>2. Canonical(i).word = i.inst_no
    BY DEF Canonical
  <2> QED
    BY <1>1, <2>1, <2>2
<1>3. l.args \in Seq(Int)
  BY DEF Line
<1>4. CASE l.word \notin Transfers
  BY <1>1, <1>2, <1>4
<1> HIDE DEF f, d
<1>5. CASE l.word \in BranchInsts
  <2>1. f.args = <<i.rd, i.rs1, i.imm>>
    BY <1>2, <1>5, TransferFormats, Zenon DEF Canonical
  <2>2. Len(f.args) = 3 /\ Len(l.args) = 3 /\ l.args # <<>> /\ l.args[3] \in Int
    BY <1>1, <1>3, <2>1
  <2> DEFINE v == l.args[3] - n * 4
  <2>3. f.args[1] = l.args[1] /\ f.args[2] = l.args[2] /\ f.args[3] = v
    <3>1. 1 \in 1 .. Len(l.args) - 1 /\ 2 \in 1 .. Len(l.args) - 1
      BY <2>2
    <3>2. l.word \in Transfers
      BY <1>5 DEF Transfers
    <3> QED
      BY <1>1, <2>2, <3>1, <3>2
  <2>4. d = RRI(l.word, l.args[1], l.args[2], l.args[3])
    BY <1>5, TransferFormats, Zenon DEF Decode, d
  <2>5. i = RRI(f.word, f.args[1], f.args[2], f.args[3])
    BY <1>1, <1>2, <1>5, TransferFormats, Zenon DEF Decode
  <2> HIDE DEF v
  <2>6. /\ i.inst_no = d.inst_no /\ i.rd = d.rd /\ i.rs1 = d.rs1 /\ i.rs2 = d.rs2
        /\ i.imm = v /\ d.imm = l.args[3]
    BY <1>1, <2>3, <2>4, <2>5 DEF RRI
  <2> QED
    BY <1>2, <1>5, <2>2, <2>6 DEF v, d, f, Transfers
<1>6. CASE l.word = "JAL"
  <2>1. f.args = <<i.rd, i.imm>>
    BY <1>2, <1>6, TransferFormats, Zenon DEF Canonical
  <2>2. Len(f.args) = 2 /\ Len(l.args) = 2 /\ l.args # <<>> /\ l.args[2] \in Int
    BY <1>1, <1>3, <2>1
  <2> DEFINE v == l.args[2] - n * 4
  <2>3. f.args[1] = l.args[1] /\ f.args[2] = v
    <3>1. 1 \in 1 .. Len(l.args) - 1
      BY <2>2
    <3>2. l.word \in Transfers
      BY <1>6 DEF Transfers
    <3> QED
      BY <1>1, <2>2, <3>1, <3>2
  <2>4. d = RI(l.word, l.args[1], l.args[2])
    BY <1>6, TransferFormats, Zenon DEF Decode, d
  <2>5. i = RI(f.word, f.args[1], f.args[2])
    BY <1>1, <1>2, <1>6, TransferFormats, Zenon DEF Decode
  <2> HIDE DEF v
  <2>6. /\ i.inst_no = d.inst_no /\ i.rd = d.rd /\ i.rs1 = d.rs1 /\ i.rs2 = d.rs2
        /\ i.imm = v /\ d.imm = l.args[2]
    BY <1>1, <2>3, <2>4, <2>5 DEF RI
  <2> QED
    BY <1>2, <1>6, <2>2, <2>6 DEF v, d, f, Transfers
<1> QED
  BY <1>4, <1>5, <1>6 DEF Transfers, d

\* A distance between multiples of four is one.
LEMMA WholeDistances ==
  ASSUME NEW t \in Int, NEW n \in Int, t % 4 = 0 PROVE (t - n * 4) % 4 = 0
<1>1. (t - n * 4) % 4 = t % 4
  <2> DEFINE a == t - n * 4
             m == -n
  <2>1. a \in Int /\ m \in Int /\ a = t + 4 * m /\ 4 \in Nat \ {0}
    OBVIOUS
  <2> HIDE DEF a, m
  <2>2. a % 4 = t % 4
    BY <2>1, SameResidue, Zenon
  <2> QED
    BY <2>2 DEF a
<1> QED
  BY <1>1

\* An address of 32 bits is a word.
LEMMA AddressFitsWord == U32 \in Nat /\ U64 \in Nat /\ U32 <= U64
<1>1. \A u \in Nat \ {0, 1} : u * u \in Nat \ {0, 1} /\ u <= u * u
  <2> TAKE u \in Nat \ {0, 1}
  <2>1. u * (u - 2) >= 0 /\ u * (u - 2) = u * u - 2 * u
    OBVIOUS
  <2> QED
    BY <2>1
<1>2. U8 \in Nat \ {0, 1} /\ U16 = U8 * U8 /\ U32 = U16 * U16 /\ U64 = U32 * U32
  BY WidthAssumption
<1> QED
  BY <1>1, <1>2

\* The emulator's side of the interface and the converter's meet: what is made of
\* a binary for the emulator is an input on which emulator and RV64I agree, for
\* every such binary and every width of the machine (obj_create.py:109-149,
\* main.c:63-91 and processor.c:22-30).
THEOREM ConvertedBinariesAreEmulated == ToolchainSpec => []ConvertedBinariesConform
<1>1. LoaderInv /\ ConverterInv => ConvertedBinariesConform
  <2> DEFINE code == object.code
             prog == LoadedProgram
             top  == object.spans[1].memsz
             data == UpperAddress(End(object.spans))
  <2> SUFFICES ASSUME LoaderInv, ConverterInv, stage = "emulate", whole, Converted,
                      Emulable(object)
               PROVE  Honest(cfg, prog) /\ StaticInput(cfg, prog, 32, 12)
    BY Zenon DEF ConvertedBinariesConform
  <2>1. /\ Len(code) \in Nat /\ DOMAIN instrs = 1 .. Len(code) /\ DOMAIN code = 1 .. Len(code)
        /\ text[1].args = <<header[1], header[2], header[3], header[4]>>
    BY LoadedCode
  <2>2. \A k \in 1 .. Len(code) :
          /\ code[k].line \in Line /\ instrs[k].inst \in Instruction
          /\ instrs[k].inst = Decode(Fixup(k - 1, code[k].line))
          /\ Canonical(instrs[k].inst) = Fixup(k - 1, code[k].line)
    BY LoadedCode
  <2>3. /\ object.spans[1].vaddr = 0 /\ top <= 4 * Len(code)
        /\ top + 4 <= U32 /\ top + data < U64
        /\ object.start < U32 /\ object.start % 4 = 0
    BY DEF Emulable
  <2>4. \A k \in 1 .. Len(code) :
          /\ Encodable(Decode(code[k].line), 32, 12) /\ Static(Decode(code[k].line))
          /\ Decode(code[k].line).inst_no \in Transfers =>
               /\ Decode(code[k].line).imm \in 0 .. U32 - 1
               /\ Decode(code[k].line).imm % 4 = 0
    BY <2>1, Zenon DEF Emulable
  <2>5. /\ top \in Nat /\ data \in Nat /\ object.start \in Nat
        /\ header[1] = 0 /\ header[2] = top /\ header[3] = object.start /\ header[4] = data
    <3>1. /\ object \in Object /\ Len(object.spans) \in 1 .. 2
          /\ header[1] = object.spans[1].vaddr /\ header[2] = UpperAddress(object.spans[1])
          /\ header[3] = object.start /\ header[4] = data /\ header[4] \in Nat
      BY ObjectAssumption DEF ConverterInv, HeaderMade, BodyMade, Converted
    <3>2. object.spans \in Seq(Span) /\ object.start \in Nat
      BY <3>1 DEF Object
    <3>3. object.spans[1] \in Span
      BY <3>1, <3>2, ElementOfSeq
    <3>4. top \in Nat
      BY <3>3 DEF Span
    <3> QED
      BY <2>3, <3>1, <3>2, <3>4 DEF UpperAddress
  <2>6. prog = [k \in 1 .. Len(code) |-> instrs[k].inst]
    BY <2>1, Zenon DEF LoadedProgram
  <2>7. Len(prog) = Len(code) /\ DOMAIN prog = 1 .. Len(code)
    <3>1. prog \in [1 .. Len(code) -> Instruction]
      BY <2>2, <2>6, Zenon
    <3>2. prog \in Seq(Instruction)
      BY <2>1, <3>1, SeqDef
    <3> QED
      BY <2>1, <3>1, <3>2, LenProperties
  <2> HIDE DEF code, prog, top, data
  <2>8. U32 \in Nat /\ U64 \in Nat /\ U32 <= U64
    BY AddressFitsWord
  <2>9. /\ cfg.instr_lower = 0 /\ cfg.instr_upper = top
        /\ cfg.entry_address = object.start /\ cfg.memory_sz = data
    <3>1. HeaderIs(text[1])
      BY EmulatesText DEF EmulatesWhatIsWritten
    <3>2. /\ text[1].args[1] = 0 /\ text[1].args[2] = top
          /\ text[1].args[3] = object.start /\ text[1].args[4] = data
      BY <2>1, <2>5
    <3>3. 0 < U64 /\ top < U64 /\ object.start < U64 /\ data < U64
      BY <2>3, <2>5, <2>8
    <3>4. /\ Wrap(0) = 0 /\ Wrap(top) = top /\ Wrap(object.start) = object.start
          /\ Wrap(data) = data
      BY <2>5, <3>3, SmallWord
    <3> QED
      BY <3>1, <3>2, <3>4 DEF HeaderIs
  <2>10. Honest(cfg, prog)
    BY <2>3, <2>7, <2>9, <2>1 DEF Honest
  <2>11. ASSUME NEW k \in 1 .. Len(code)
         PROVE  /\ Encodable(prog[k], 32, 12) /\ Static(prog[k])
                /\ prog[k].inst_no \in BranchInsts \cup {"JAL"} =>
                     /\ prog[k].imm % 4 = 0
                     /\ 0 + 4 * (k - 1) + prog[k].imm \in 0 .. U32 - 1
    <3> DEFINE l == code[k].line
               i == instrs[k].inst
               d == Decode(l)
               n == k - 1
    <3>1. n \in Int /\ k \in Int
      BY <2>1
    <3>2. prog[k] = i
      BY <2>6
    <3>3. /\ l \in Line /\ i \in Instruction
          /\ i = Decode(Fixup(n, l)) /\ Canonical(i) = Fixup(n, l)
      BY <2>2, Zenon
    <3>4. /\ Encodable(d, 32, 12) /\ Static(d)
          /\ d.inst_no \in Transfers => d.imm \in 0 .. U32 - 1 /\ d.imm % 4 = 0
      BY <2>4, Zenon
    <3> HIDE DEF l, i, n
    <3>5. /\ i.inst_no = l.word
          /\ l.word \notin Transfers => i = Decode(l)
          /\ l.word \in Transfers =>
               /\ i.inst_no = d.inst_no /\ i.rd = d.rd /\ i.rs1 = d.rs1 /\ i.rs2 = d.rs2
               /\ i.imm = d.imm - n * 4 /\ d.imm \in Int
      BY <3>1, <3>3, LoadedIsFixed
    <3> HIDE DEF d
    <3>6. CASE l.word \notin Transfers
      <4>1. i = d /\ i.inst_no \notin Transfers
        BY <3>5, <3>6 DEF d
      <4> QED
        BY <3>2, <3>4, <4>1 DEF Transfers
    <3>7. CASE l.word \in Transfers
      <4>1. i.inst_no \notin {"JALR", "SRLW", "SRLIW", "LUI", "AUIPC"}
        BY <3>5, <3>7 DEF Transfers, BranchInsts
      <4>2. Encodable(i, 32, 12)
        BY <3>4, <3>5, <3>7, <4>1 DEF Encodable
      <4>3. Static(i)
        BY <4>1 DEF Static
      <4>4. d.imm \in 0 .. U32 - 1 /\ d.imm % 4 = 0
        BY <3>4, <3>5, <3>7
      <4>5. i.imm % 4 = 0
        BY <3>1, <3>5, <3>7, <4>4, WholeDistances
      <4>6. 0 + 4 * (k - 1) + i.imm = d.imm
        BY <3>1, <3>5, <3>7 DEF n
      <4> QED
        BY <3>2, <4>2, <4>3, <4>4, <4>5, <4>6
    <3> QED
      BY <3>6, <3>7
  <2>12. StaticInput(cfg, prog, 32, 12)
    <3>1. cfg.instr_upper + cfg.memory_sz < U64 /\ cfg.instr_upper + 4 <= U32
      BY <2>3, <2>9
    <3>2. cfg.entry_address < U32 /\ (cfg.entry_address - cfg.instr_lower) % 4 = 0
      <4>1. object.start - 0 = object.start
        BY <2>5
      <4> QED
        BY <2>3, <2>9, <4>1
    <3> QED
      BY <2>7, <2>9, <2>11, <3>1, <3>2, Zenon DEF StaticInput
  <2> QED
    BY <2>10, <2>12
<1> QED
  BY <1>1, ToolchainInvariant, PTL

-----------------------------------------------------------------------------
\* The numbers of the loops.
LEMMA LoopsInOrder ==
  ASSUME NEW c, NEW s, NEW who
  PROVE  /\ s = "read" =>
              /\ c = "addresses" => LoopOf(c, s, who) = 10
              /\ c = "fixups" => LoopOf(c, s, who) = 9
              /\ c = "output" => LoopOf(c, s, who) = 8
              /\ c = "printed" => LoopOf(c, s, who) = 7
              /\ c \in ConversionEnds => LoopOf(c, s, who) = 6
         /\ c \in ConversionEnds =>
              /\ s = "lines" => LoopOf(c, s, who) =
                   IF who = "parser" THEN 5 ELSE IF who = "input" THEN 2 ELSE 1
              /\ s = "parse" => LoopOf(c, s, who) = 4
              /\ s = "stringify" => LoopOf(c, s, who) = 3
              /\ s \in Ends => LoopOf(c, s, who) = 0
<1>1. ASSUME s = "read"
      PROVE  /\ c = "addresses" => LoopOf(c, s, who) = 10
             /\ c = "fixups" => LoopOf(c, s, who) = 9
             /\ c = "output" => LoopOf(c, s, who) = 8
             /\ c = "printed" => LoopOf(c, s, who) = 7
             /\ c \in ConversionEnds => LoopOf(c, s, who) = 6
  BY <1>1, Zenon DEF LoopOf, Ends, ConversionEnds
<1>2. ASSUME c \in ConversionEnds
      PROVE  /\ s = "lines" => LoopOf(c, s, who) =
                  IF who = "parser" THEN 5 ELSE IF who = "input" THEN 2 ELSE 1
             /\ s = "parse" => LoopOf(c, s, who) = 4
             /\ s = "stringify" => LoopOf(c, s, who) = 3
             /\ s \in Ends => LoopOf(c, s, who) = 0
  BY <1>2, Zenon DEF LoopOf, Ends, ConversionEnds
<1> QED
  BY <1>1, <1>2

\* The turns of the current loop are counted.
LEMMA TurnsAreCounted ==
  ASSUME LoaderInv
  PROVE  /\ TurnsLeft \in Nat
         /\ stage = "read" => TurnsLeft = Len(argv) + (Len(text) - Len(program))
         /\ stage = "lines" => TurnsLeft = Len(src) - pos
         /\ stage = "parse" => TurnsLeft = Len(out) - Len(instrs)
         /\ stage = "stringify" => TurnsLeft = Len(instrs) - Len(printed)
<1>1. /\ stage = "read" => TurnsLeft = Len(argv) + (Len(text) - Len(program))
      /\ stage = "lines" => TurnsLeft = Len(src) - pos
      /\ stage = "parse" => TurnsLeft = Len(out) - Len(instrs)
      /\ stage = "stringify" => TurnsLeft = Len(instrs) - Len(printed)
      /\ stage \in Ends => TurnsLeft = 0
  BY Zenon DEF TurnsLeft, Remaining, Ends
<1>2. LoaderTypeOK /\ ReadInv /\ CallInv /\ PrintedInv
  BY DEF LoaderInv
<1>3. /\ stage = "read" => Len(program) <= Len(text)
      /\ stage = "parse" => Len(instrs) < Len(out)
      /\ Len(printed) <= Len(instrs) /\ pos \in 0 .. Len(src) /\ Len(argv) \in Nat
      /\ stage \in {"read", "lines", "parse", "stringify"} \cup Ends
  BY <1>2, LenProperties DEF LoaderTypeOK, ReadInv, CallInv, PrintedInv, Stages
<1> QED
  BY <1>1, <1>3, Lengths

\* A step of the converter leads to its next part, or to the loader.
LEMMA ConvertCounts ==
  ASSUME ConverterInv, Convert, UNCHANGED loaderVars
  PROVE  LoopsLeft' \in 0 .. LoopsLeft - 1
<1>1. /\ Converting /\ stage = "read" /\ stage' = "read"
      /\ \/ conv = "addresses" /\ conv' \in {"fixups", "failed", "timed out"}
         \/ conv = "fixups" /\ conv' \in {"output", "failed", "timed out"}
         \/ conv = "output" /\ conv' \in {"printed", "timed out"}
         \/ conv = "printed" /\ conv' \in {"written", "timed out"}
  BY DEF ConverterInv, Converting, Convert, BinaryAddresses, InstructionFixups, OutputProgram,
     Exit, TimeOut, Fail, Conversions, loaderVars
<1>2. conv \in {"addresses", "fixups", "output", "printed"} /\ LoopsLeft =
        IF conv = "addresses" THEN 10
        ELSE IF conv = "fixups" THEN 9 ELSE IF conv = "output" THEN 8 ELSE 7
  BY <1>1, LoopsInOrder DEF LoopsLeft
<1>3. LoopsLeft' =
        IF conv' = "fixups" THEN 9
        ELSE IF conv' = "output" THEN 8 ELSE IF conv' = "printed" THEN 7 ELSE 6
  BY <1>1, LoopsInOrder DEF LoopsLeft, ConversionEnds
<1>4. CASE conv = "addresses"
  <2>1. LoopsLeft = 10 /\ LoopsLeft' \in {6, 9}
    BY <1>1, <1>2, <1>3, <1>4
  <2> QED
    BY <2>1
<1>5. CASE conv = "fixups"
  <2>1. LoopsLeft = 9 /\ LoopsLeft' \in {6, 8}
    BY <1>1, <1>2, <1>3, <1>5
  <2> QED
    BY <2>1
<1>6. CASE conv = "output"
  <2>1. LoopsLeft = 8 /\ LoopsLeft' \in {6, 7}
    BY <1>1, <1>2, <1>3, <1>6
  <2> QED
    BY <2>1
<1>7. CASE conv = "printed"
  <2>1. LoopsLeft = 7 /\ LoopsLeft' = 6
    BY <1>1, <1>2, <1>3, <1>7
  <2> QED
    BY <2>1
<1> QED
  BY <1>2, <1>4, <1>5, <1>6, <1>7

\* A step of the loader leads to a later loop or is a turn of the one it is in.
LEMMA LoadCounts ==
  ASSUME LoaderInv, ConverterInv, Load
  PROVE  \/ LoopsLeft' \in 0 .. LoopsLeft - 1
         \/ LoopsLeft' = LoopsLeft /\ TurnsLeft' < TurnsLeft
<1>1. /\ conv \in ConversionEnds /\ conv' = conv
      /\ LoopsLeft = LoopOf(conv, stage, caller) /\ LoopsLeft' = LoopOf(conv, stage', caller')
      /\ caller \in {"parser", "input", "output"} /\ Len(argv) \in Nat /\ pos \in 0 .. Len(src)
  BY LenProperties DEF Load, converterVars, LoopsLeft, LoaderInv, LoaderTypeOK
<1>2. /\ stage = "read" => LoopsLeft = 6
      /\ stage = "lines" =>
           LoopsLeft = IF caller = "parser" THEN 5 ELSE IF caller = "input" THEN 2 ELSE 1
      /\ stage = "parse" => LoopsLeft = 4
      /\ stage = "stringify" => LoopsLeft = 3
  BY <1>1, LoopsInOrder
<1>3. /\ stage' = "read" => LoopsLeft' = 6
      /\ stage' = "lines" =>
           LoopsLeft' = IF caller' = "parser" THEN 5 ELSE IF caller' = "input" THEN 2 ELSE 1
      /\ stage' = "parse" => LoopsLeft' = 4
      /\ stage' = "stringify" => LoopsLeft' = 3
      /\ stage' \in Ends => LoopsLeft' = 0
  BY <1>1, LoopsInOrder
<1>0. /\ stage = "read" => TurnsLeft = Len(argv) + (Len(text) - Len(program))
      /\ stage = "lines" => TurnsLeft = Len(src) - pos
      /\ stage = "parse" => TurnsLeft = Len(out) - Len(instrs)
      /\ stage = "stringify" => TurnsLeft = Len(instrs) - Len(printed)
      /\ stage' = "read" => TurnsLeft' = Len(argv') + (Len(text') - Len(program'))
      /\ stage' = "lines" => TurnsLeft' = Len(src') - pos'
      /\ stage' = "parse" => TurnsLeft' = Len(out') - Len(instrs')
      /\ stage' = "stringify" => TurnsLeft' = Len(instrs') - Len(printed')
  BY Zenon DEF TurnsLeft, Remaining, Ends
<1>4. CASE ParseArgument
  <2>1. /\ stage = "read" /\ stage' = "read" /\ argv # <<>> /\ argv' = Tail(argv)
        /\ text' = text /\ program' = program
    BY <1>4 DEF ParseArgument
  <2>2. Len(argv') = Len(argv) - 1
    BY <2>1, HeadTailProperties DEF LoaderInv, LoaderTypeOK
  <2>3. /\ TurnsLeft = Len(argv) + (Len(text) - Len(program))
        /\ TurnsLeft' = Len(argv') + (Len(text) - Len(program))
    BY <2>1, <1>0
  <2> QED
    BY <1>1, <1>2, <1>3, <2>1, <2>2, <2>3, Lengths
<1>5. CASE Read
  <2>1. /\ stage = "read" /\ stage' = "read" /\ text' = text /\ argv' = argv
        /\ \E n \in 1 .. Remaining : program' = AppendPiece(n)
    BY <1>5 DEF Read
  <2>2. PICK n \in 1 .. Remaining : program' = AppendPiece(n)
    BY <2>1
  <2>3. Len(program') = Len(program) + n
    <3> DEFINE p == Len(program)
               t == Len(text)
               piece == SubSeq(text, p + 1, p + n)
    <3>1. p \in Nat /\ t \in Nat /\ n \in 1 .. t - p
      BY <2>2, Lengths DEF Remaining
    <3>2. text \in Seq(Line) /\ program \in Seq(Line)
      BY DEF LoaderInv, ReadInv, LoaderTypeOK, Text
    <3>3. piece \in Seq(Line) /\ Len(piece) = n
      <4>1. p + 1 \in Int /\ p + n \in Int /\ p + 1 <= p + n /\ (p + n) - (p + 1) + 1 = n
        BY <3>1
      <4>2. \A k \in p + 1 .. p + n : text[k] \in Line
        <5>1. \A k \in p + 1 .. p + n : k \in 1 .. t
          BY <3>1
        <5> QED
          BY <3>2, <5>1, ElementOfSeq
      <4> HIDE DEF p, t
      <4>3. /\ piece \in Seq(Line)
            /\ Len(piece) = IF p + 1 <= p + n THEN (p + n) - (p + 1) + 1 ELSE 0
        BY <4>1, <4>2, SubSeqProperties
      <4> QED
        BY <4>1, <4>3
    <3>4. program' = program \o piece
      BY <2>2 DEF AppendPiece
    <3> HIDE DEF piece
    <3> QED
      BY <3>2, <3>3, <3>4, ConcatProperties
  <2>4. /\ TurnsLeft = Len(argv) + (Len(text) - Len(program))
        /\ TurnsLeft' = Len(argv) + (Len(text) - Len(program'))
    BY <2>1, <1>0
  <2> QED
    BY <1>1, <1>2, <1>3, <2>1, <2>2, <2>3, <2>4, Lengths
<1>6. CASE ReadFails \/ ReadEnds
  <2>1. stage = "read" /\ (stage' \in Ends \/ (stage' = "lines" /\ caller' = "parser"))
    BY <1>6 DEF ReadFails, ReadEnds, CallLines, Ends
  <2> QED
    BY <1>2, <1>3, <2>1
<1>7. CASE NextToken
  <2>1. /\ stage = "lines" /\ src' = src /\ caller' = caller
        /\ \/ stage' \in Ends
           \/ stage' = "lines" /\ \E k \in pos + 1 .. Len(src) : pos' = k
    BY <1>7 DEF NextToken, Ends
  <2>2. CASE stage' \in Ends
    BY <1>1, <1>2, <1>3, <2>1, <2>2
  <2>3. CASE stage' = "lines"
    <3>1. TurnsLeft = Len(src) - pos /\ TurnsLeft' = Len(src) - pos'
      BY <2>1, <2>3, <1>0
    <3>2. pos' > pos /\ pos' \in Int
      BY <1>1, <2>1, <2>3, Lengths DEF Ends
    <3> QED
      BY <1>1, <1>2, <1>3, <2>1, <2>3, <3>1, <3>2, Lengths
  <2> QED
    BY <2>1, <2>2, <2>3
<1>8. CASE NoLines \/ ReadHeader \/ RejectHeader
  <2>1. stage = "lines" /\ caller = "parser" /\ (stage' \in Ends \/ stage' = "parse")
    BY <1>8 DEF NoLines, ReadHeader, RejectHeader, LinesDone, Ends
  <2> QED
    BY <1>2, <1>3, <2>1
<1>9. CASE ParseLine
  <2>1. /\ stage = "parse" /\ out' = out
        /\ \/ stage' \in Ends
           \/ stage' = "parse" /\ \E x : instrs' = Append(instrs, x)
    BY <1>9, Zenon DEF ParseLine, Ends
  <2>2. CASE stage' \in Ends
    BY <1>1, <1>2, <1>3, <2>1, <2>2
  <2>3. CASE stage' = "parse" /\ \E x : instrs' = Append(instrs, x)
    <3>1. PICK x : instrs' = Append(instrs, x)
      BY <2>3
    <3>2. Len(instrs') = Len(instrs) + 1
      BY <3>1 DEF LoaderInv, LoaderTypeOK
    <3>3. TurnsLeft = Len(out) - Len(instrs) /\ TurnsLeft' = Len(out) - Len(instrs')
      BY <2>1, <2>3, <1>0
    <3> QED
      BY <1>1, <1>2, <1>3, <2>1, <2>3, <3>2, <3>3, Lengths
  <2> QED
    BY <2>1, <2>2, <2>3
<1>10. CASE ParseDone
  BY <1>2, <1>3, <1>10 DEF ParseDone
<1>11. CASE StringifyNothing
  <2>1. stage = "stringify" /\ stage' \in Ends
    BY <1>11 DEF StringifyNothing, Ends
  <2> QED
    BY <1>2, <1>3, <2>1
<1>12. CASE StringifyNext
  <2>1. /\ stage = "stringify" /\ stage' \in {"stringify", "undefined"} /\ instrs' = instrs
        /\ \E x : printed' = Append(printed, x)
    BY <1>12, Zenon DEF StringifyNext
  <2>2. CASE stage' = "undefined"
    BY <1>2, <1>3, <2>1, <2>2 DEF Ends
  <2>3. SUFFICES ASSUME stage' = "stringify"
                 PROVE  LoopsLeft' = LoopsLeft /\ TurnsLeft' < TurnsLeft
    BY <2>1, <2>2
  <2>4. Len(printed') = Len(printed) + 1
    BY <2>1 DEF LoaderInv, LoaderTypeOK
  <2>5. TurnsLeft = Len(instrs) - Len(printed) /\ TurnsLeft' = Len(instrs) - Len(printed')
    BY <2>1, <2>3, <1>0
  <2> QED
    BY <1>1, <1>2, <1>3, <2>1, <2>3, <2>4, <2>5, Lengths
<1>13. CASE Compare
  <2>1. stage = "stringify" /\ (stage' \in Ends \/ (stage' = "lines" /\ caller' = "input"))
    BY <1>13 DEF Compare, CallLines, Ends
  <2> QED
    BY <1>2, <1>3, <2>1
<1>14. CASE ListInput
  <2>1. /\ stage = "lines" /\ caller = "input"
        /\ stage' = "undefined" \/ (stage' = "lines" /\ caller' = "output")
    BY <1>14 DEF ListInput, LinesDone, CallLines
  <2>2. LoopsLeft = 2
    BY <1>2, <2>1
  <2>3. CASE stage' = "undefined"
    BY <1>3, <2>2, <2>3 DEF Ends
  <2>4. CASE stage' = "lines" /\ caller' = "output"
    BY <1>3, <2>2, <2>4
  <2> QED
    BY <2>1, <2>3, <2>4
<1>15. CASE ListDifferences
  <2>1. stage = "lines" /\ caller = "output" /\ stage' \in Ends
    BY <1>15 DEF ListDifferences, LinesDone, Ends
  <2> QED
    BY <1>2, <1>3, <2>1
<1> QED
  BY <1>4, <1>5, <1>6, <1>7, <1>8, <1>9, <1>10, <1>11, <1>12, <1>13, <1>14, <1>15 DEF Load, Next

\* Every step of the converter and of the loader counts, for every file, buffer
\* and way of reading.
THEOREM LoadingMovesOn == ToolchainSpec => EveryTurnCounts
<1> DEFINE Counted == TurnsLeft \in Nat
<1>1. LoaderInv => Counted
  BY TurnsAreCounted
<1>2. LoaderInv /\ ConverterInv /\ Counted' /\ [ToolchainNext]_toolchainVars =>
        [/\ TurnsLeft' \in Nat
         /\ \/ LoopsLeft' \in 0 .. LoopsLeft - 1
            \/ LoopsLeft' = LoopsLeft /\ TurnsLeft' < TurnsLeft]_toolchainVars
  BY ConvertCounts, LoadCounts DEF ToolchainNext
<1> HIDE DEF Counted
<1> QED
  BY <1>1, <1>2, ToolchainInvariant, PTL DEF ToolchainSpec, EveryTurnCounts

\* The loops left and the turns left, as a pair, its lexicographic order, and a
\* step down in it.
Rank == <<LoopsLeft, TurnsLeft>>
Below == LexPairOrdering(OpToRel(<, Nat), OpToRel(<, Nat), Nat, Nat)
Descends == <<Rank', Rank>> \in Below

\* The pair is one of natural numbers.
LEMMA RankIsPair == LoaderInv /\ ConverterInv => Rank \in Nat \X Nat
<1> SUFFICES ASSUME LoaderInv, ConverterInv PROVE LoopsLeft \in Nat /\ TurnsLeft \in Nat
  BY DEF Rank
<1>1. /\ stage \in {"read", "lines", "parse", "stringify"} \cup Ends
      /\ conv \in {"addresses", "fixups", "output", "printed"} \cup ConversionEnds
      /\ conv \in {"addresses", "fixups", "output", "printed"} => stage = "read"
  BY DEF LoaderInv, LoaderTypeOK, Stages, ConverterInv, Conversions, Converting
<1>2. LoopsLeft \in {0, 1, 2, 3, 4, 5, 6, 7, 8, 9, 10}
  BY <1>1, LoopsInOrder DEF LoopsLeft
<1> QED
  BY <1>2, TurnsAreCounted

\* The converter and the loader come to an end: their steps descend in an order
\* that has no infinite descent.
THEOREM LoadingDescends ==
  /\ IsWellFoundedOn(Below, Nat \X Nat)
  /\ ToolchainSpec => [][Descends]_toolchainVars
<1>1. IsWellFoundedOn(Below, Nat \X Nat)
  BY WFLexPairOrdering, NatLessThanWellFounded DEF Below
<1> DEFINE Pair == Rank \in Nat \X Nat
<1>2. LoaderInv /\ ConverterInv => Pair
  BY RankIsPair
<1>3. ASSUME Pair, Pair', LoaderInv, ConverterInv, [ToolchainNext]_toolchainVars
      PROVE  [Descends]_toolchainVars
  <2> SUFFICES ASSUME ToolchainNext PROVE Descends
    BY <1>3
  <2>1. LoopsLeft \in Nat /\ TurnsLeft \in Nat /\ LoopsLeft' \in Nat /\ TurnsLeft' \in Nat
    BY <1>3 DEF Rank
  <2>2. LoopsLeft' < LoopsLeft \/ (LoopsLeft' = LoopsLeft /\ TurnsLeft' < TurnsLeft)
    BY <1>3, <2>1, ConvertCounts, LoadCounts DEF ToolchainNext
  <2>3. ASSUME NEW a \in Nat, NEW b \in Nat, NEW c \in Nat, NEW d \in Nat,
               a < c \/ (a = c /\ b < d)
        PROVE  <<<<a, b>>, <<c, d>>>> \in Below
    BY <2>3 DEF Below, LexPairOrdering, OpToRel
  <2> QED
    BY <2>1, <2>2, <2>3, Zenon DEF Rank, Descends
<1> HIDE DEF Pair
<1> QED
  BY <1>1, <1>2, <1>3, ToolchainInvariant, PTL DEF ToolchainSpec
=============================================================================

-------------------- MODULE ProcessorImplementsISA_proofs --------------------
(***************************************************************************)
(* The emulation loop implements the ISA, for every program, header, host  *)
(* and width of the machine word, as long as it stays where the two agree. *)
(*                                                                         *)
(* First the values: what the C expressions of the handlers compute with   *)
(* casts, signed division and wrap-around is what the ISA computes on      *)
(* words.  Then the steps: each action of the loop is a step of the ISA or *)
(* changes nothing the ISA can see.                                        *)
(***************************************************************************)
EXTENDS ProcessorImplementsISA, Processor_proofs, Residues

\* Every width is even and divides the next one.
LEMMA WordSizes ==
  /\ U8 \in Nat \ {0} /\ U16 \in Nat \ {0} /\ U32 \in Nat \ {0} /\ U64 \in Nat \ {0}
  /\ U8 % 2 = 0 /\ U16 % 2 = 0 /\ U32 % 2 = 0 /\ U64 % 2 = 0
  /\ U8 <= U64 /\ U16 <= U64 /\ U32 <= U64
  /\ U64 % U32 = 0
<1>1. U8 \in Nat \ {0, 1} /\ U8 % 2 = 0
  BY WidthAssumption
<1>2. ASSUME NEW u \in Nat \ {0, 1}, u % 2 = 0
      PROVE  u * u \in Nat \ {0, 1} /\ (u * u) % 2 = 0 /\ u <= u * u /\ (u * u) % u = 0
  <2>1. u * (u - 2) >= 0 /\ u * (u - 2) = u * u - 2 * u
    BY <1>2
  <2>2. u * u \in Nat \ {0, 1} /\ u <= u * u
    BY <1>2, <2>1
  <2> DEFINE h == u \div 2
             k == h * u
  <2>3. h \in Int /\ u = 2 * h
    BY <1>2, DivisionWithRemainder
  <2> HIDE DEF h
  <2>4. k \in Int /\ u * u = 0 + 2 * k
    BY <2>3
  <2> HIDE DEF k
  <2>5. (u * u) % 2 = 0 % 2
    BY <2>2, <2>4, SameResidue
  <2> DEFINE a == u * u
  <2>6. a \in Int /\ u \in Int /\ u \in Nat \ {0} /\ 0 \in 0 .. u - 1
    BY <1>2
  <2>7. a = u * u + 0
    BY <2>6
  <2> HIDE DEF a
  <2>8. a % u = 0
    BY <2>6, <2>7, DivisionIsUnique
  <2> QED
    BY <2>2, <2>5, <2>8 DEF a
<1>3. U16 \in Nat \ {0, 1} /\ U16 % 2 = 0 /\ U8 <= U16
  BY <1>1, <1>2, WidthAssumption
<1>4. U32 \in Nat \ {0, 1} /\ U32 % 2 = 0 /\ U16 <= U32
  BY <1>2, <1>3, WidthAssumption
<1>5. U64 \in Nat \ {0, 1} /\ U64 % 2 = 0 /\ U32 <= U64 /\ U64 % U32 = 0
  BY <1>2, <1>4, WidthAssumption
<1> QED
  BY <1>1, <1>3, <1>4, <1>5

\* Reducing a number that is one width away from a word.
LEMMA WrapNear ==
  ASSUME NEW x \in Int
  PROVE  /\ x \in Word => Wrap(x) = x
         /\ x + U64 \in Word => Wrap(x) = x + U64
         /\ x - U64 \in Word => Wrap(x) = x - U64
<1>1. U64 \in Nat \ {0}
  BY WordSizes
<1>2. \A y \in 0 .. U64 - 1 : y % U64 = y
  BY <1>1, OwnResidue
<1>3. \A y, k \in Int : (y + U64 * k) % U64 = y % U64
  <2> TAKE y, k \in Int
  <2> DEFINE z == y + U64 * k
  <2>1. z \in Int /\ U64 \in Nat \ {0}
    BY <1>1
  <2>2. z = y + U64 * k
    OBVIOUS
  <2> HIDE DEF z
  <2>3. z % U64 = y % U64
    BY <2>1, <2>2, SameResidue
  <2> QED
    BY <2>3 DEF z
<1>4. (x + U64) % U64 = x % U64
  <2>1. x + U64 * 1 = x + U64
    BY <1>1
  <2> QED
    BY <1>3, <2>1
<1>5. (x - U64) % U64 = x % U64
  <2>1. x + U64 * (-1) = x - U64
    BY <1>1
  <2> QED
    BY <1>3, <2>1
<1> QED
  BY <1>2, <1>4, <1>5, Zenon DEF Wrap, Word

\* Half of a width, as the ISA uses it to find a sign.
LEMMA Halves ==
  ASSUME NEW n \in Nat \ {0}, n % 2 = 0
  PROVE  Machine!Half(n) \in Nat \ {0} /\ n = 2 * Machine!Half(n)
BY DEF Machine!Half

\* A cast to a signed type moves the value by a multiple of its width into the
\* range around zero.
LEMMA SignedValue ==
  ASSUME NEW v \in Int, NEW n \in Nat \ {0}, n % 2 = 0
  PROVE  /\ Signed(v, n) \in Int
         /\ -Machine!Half(n) <= Signed(v, n) /\ Signed(v, n) < Machine!Half(n)
         /\ Signed(v, n) % n = v % n
<1> DEFINE u == v % n
           h == Machine!Half(n)
           w == u - n
<1>1. u \in 0 .. n - 1 /\ u \in Int
  BY DivisionWithRemainder
<1>2. h \in Nat \ {0} /\ n = 2 * h
  BY Halves
<1>3. Signed(v, n) = IF 2 * u < n THEN u ELSE w
  BY DEF Signed
<1>4. u % n = u
  BY <1>1, OwnResidue
<1>5. w % n = u % n
  <2>1. w \in Int /\ w = u + n * (-1) /\ -1 \in Int
    BY <1>1
  <2> QED
    BY <1>1, <2>1, SameResidue
<1> HIDE DEF u, h
<1> QED
  BY <1>1, <1>2, <1>3, <1>4, <1>5 DEF u, h

\* What the cast keeps when it is converted back to a u64_t: the word with the
\* sign extended (every (s32_t) and (s64_t) of the handlers).
LEMMA SignExtension ==
  ASSUME NEW v \in Int, NEW n \in Nat \ {0}, n % 2 = 0, n <= U64
  PROVE  Wrap(Signed(v, n)) = Machine!Sext(v, n)
<1> DEFINE u == v % n
           h == Machine!Half(n)
           w == u - n
           x == u + (U64 - n)
<1>1. u \in 0 .. n - 1 /\ u \in Int
  BY DivisionWithRemainder
<1>2. h \in Nat \ {0} /\ n = 2 * h /\ U64 \in Nat \ {0}
  BY Halves, WordSizes
<1>3. Signed(v, n) = IF 2 * u < n THEN u ELSE w
  BY DEF Signed
<1>4. Machine!Sext(v, n) = IF u < h THEN u ELSE x
  BY DEF Machine!Sext
<1>5. u % U64 = u
  BY <1>1, <1>2, OwnResidue
<1>6. w % U64 = x
  <2>1. w \in Int /\ w + U64 \in Word /\ w + U64 = x
    BY <1>1, <1>2 DEF Word
  <2> QED
    BY <2>1, WrapNear, Zenon DEF Wrap
<1> HIDE DEF u, h
<1> QED
  BY <1>1, <1>2, <1>3, <1>4, <1>5, <1>6 DEF Wrap

\* The sign-extended word depends on the low bits only.
LEMMA SameExtension ==
  ASSUME NEW v, NEW w, NEW n, v % n = w % n PROVE Machine!Sext(v, n) = Machine!Sext(w, n)
BY Zenon DEF Machine!Sext

\* A word is the word of its signed value, and an integer in range the signed
\* value of its word.
LEMMA SignedWord ==
  ASSUME NEW a \in Word
  PROVE  /\ Wrap(a) = a
         /\ Wrap(Signed(a, U64)) = a
         /\ Machine!Flip(a) = Signed(a, U64) + Machine!Half(U64)
<1> DEFINE h == Machine!Half(U64)
           f == a + h
<1>1. U64 \in Nat \ {0} /\ U64 % 2 = 0 /\ a \in 0 .. U64 - 1 /\ a \in Int
  BY WordSizes DEF Word
<1>2. h \in Nat \ {0} /\ U64 = 2 * h
  BY <1>1, Halves
<1>3. a % U64 = a
  BY <1>1, OwnResidue
<1>4. Signed(a, U64) = IF 2 * a < U64 THEN a ELSE a - U64
  BY <1>3 DEF Signed
<1>5. (a - U64) % U64 = a % U64
  <2>1. a - U64 \in Int /\ a - U64 + U64 = a
    BY <1>1
  <2> QED
    BY <1>3, <2>1, WrapNear DEF Wrap
<1>6. Wrap(Signed(a, U64)) = a
  BY <1>3, <1>4, <1>5 DEF Wrap
<1>7. CASE 2 * a < U64
  <2>1. f \in 0 .. U64 - 1
    BY <1>1, <1>2, <1>7
  <2>2. f % U64 = f
    BY <1>1, <2>1, OwnResidue
  <2>3. Machine!Flip(a) = f
    BY <2>2 DEF Machine!Flip
  <2> QED
    BY <1>3, <1>4, <1>6, <1>7, <2>3 DEF Wrap
<1>8. CASE ~(2 * a < U64)
  <2> DEFINE g == a - h
  <2>1. f \in Int /\ f - U64 \in Word /\ f - U64 = g
    BY <1>1, <1>2, <1>8 DEF Word
  <2>2. f % U64 = g
    BY <2>1, WrapNear, Zenon DEF Wrap
  <2>3. Machine!Flip(a) = g
    BY <2>2 DEF Machine!Flip
  <2>4. g = a - U64 + h
    BY <1>1, <1>2
  <2> QED
    BY <1>3, <1>4, <1>6, <1>8, <2>3, <2>4 DEF Wrap
<1> QED
  BY <1>7, <1>8

\* Comparing signed values is comparing words with the sign bit flipped.
LEMMA SignedComparison ==
  ASSUME NEW a \in Word, NEW b \in Int
  PROVE  Signed(a, U64) < Signed(b, U64) <=> Machine!SignedLess(a, Wrap(b))
<1> DEFINE c == Wrap(b)
           h == Machine!Half(U64)
<1>1. U64 \in Nat \ {0} /\ U64 % 2 = 0 /\ c \in Word /\ a \in Int /\ c \in Int
  BY WordSizes, WrapIsWord DEF Word
<1>2. c % U64 = b % U64
  BY <1>1, SignedWord DEF Wrap
<1>3. Signed(b, U64) = Signed(c, U64)
  BY <1>2, Zenon DEF Signed
<1>4. /\ Machine!Flip(a) = Signed(a, U64) + h /\ Machine!Flip(c) = Signed(c, U64) + h
      /\ Signed(a, U64) \in Int /\ Signed(c, U64) \in Int /\ h \in Int
  BY <1>1, SignedWord, SignedValue, Halves
<1>5. Machine!Flip(a) < Machine!Flip(c) <=> Signed(a, U64) < Signed(c, U64)
  BY <1>4
<1> QED
  BY <1>3, <1>5, Zenon DEF Machine!SignedLess

\* Dividing a negative int or long by a power of two copies its sign.
LEMMA ArithmeticShift ==
  ASSUME NEW x \in Int, -Machine!Half(U64) <= x, x < Machine!Half(U64),
         NEW s, 2 ^ s \in Nat \ {0}
  PROVE  Wrap(x \div 2 ^ s) = Machine!Sra(Wrap(x), s)
<1> DEFINE h == Machine!Half(U64)
           p == 2 ^ s
           w == Wrap(x)
<1>1. U64 \in Nat \ {0} /\ h \in Nat \ {0} /\ U64 = 2 * h /\ p \in Nat \ {0}
  BY WordSizes, Halves
<1>2. Machine!Sra(w, s) = IF w < h THEN w \div p ELSE (U64 - 1) - ((U64 - 1 - w) \div p)
  BY DEF Machine!Sra
<1>3. CASE x >= 0
  <2>1. x \in Nat /\ x \in 0 .. U64 - 1 /\ x < h
    BY <1>1, <1>3
  <2>2. w = x
    BY <1>1, <2>1, OwnResidue DEF Wrap
  <2>3. x \div p \in 0 .. U64 - 1
    BY <1>1, <2>1, QuotientBound
  <2>4. Wrap(x \div p) = x \div p
    BY <1>1, <2>3, OwnResidue DEF Wrap
  <2> QED
    BY <1>2, <2>1, <2>2, <2>4
<1>4. CASE x < 0
  <2> DEFINE y == -1 - x
             q == y \div p
             z == U64 - 1 - q
  <2>1. y \in Nat /\ y < h /\ x = -1 - y /\ x + U64 \in 0 .. U64 - 1 /\ x + U64 >= h
    BY <1>1, <1>4
  <2>2. w = x + U64
    BY <2>1, WrapNear, Zenon DEF Word
  <2>3. U64 - 1 - w = y /\ ~(w < h)
    BY <1>1, <2>1, <2>2
  <2>4. Machine!Sra(w, s) = z
    BY <1>2, <2>3
  <2>5. q \in Nat /\ q <= y
    BY <1>1, <2>1, QuotientBound
  <2>6. x \div p = -1 - q
    <3> HIDE DEF p
    <3>1. (-1 - y) \div p = -1 - q
      <4>1. y \in Int /\ p \in Nat \ {0}
        BY <1>1, <2>1
      <4> HIDE DEF y
      <4> QED
        BY <4>1, QuotientOfComplement
    <3>2. -1 - y = x
      BY <2>1
    <3> QED
      BY <3>1, <3>2, Zenon
  <2> HIDE DEF q
  <2>7. -1 - q \in Int /\ (-1 - q) + U64 \in Word /\ (-1 - q) + U64 = z
    BY <1>1, <2>1, <2>5 DEF Word
  <2>8. Wrap(-1 - q) = z
    BY <2>7, WrapNear, Zenon
  <2> QED
    BY <2>4, <2>6, <2>8
<1> QED
  BY <1>3, <1>4

\* A masked shift amount does not depend on the conversion of the operand.
LEMMA ShiftAmounts ==
  ASSUME NEW b \in Int
  PROVE  /\ Shamt64(b) = Wrap(b) % XBITS
         /\ Shamt32(b) = Wrap(b) % Machine!Half(XBITS)
<1> DEFINE h == Machine!Half(XBITS)
<1>1. XBITS \in Nat \ {0} /\ U64 \in Nat \ {0} /\ U64 \in Int /\ U64 % XBITS = 0
  BY WordSizes, WidthAssumption
<1>2. h \in Nat \ {0} /\ XBITS = 2 * h
  BY <1>1, Halves, WidthAssumption
<1>3. Shamt64(b) = b % XBITS /\ Shamt32(b) = b % h
  BY DEF Shamt64, Shamt32, Machine!Half
<1> HIDE DEF h
<1>4. XBITS % h = 0
  <2>1. XBITS \in Int /\ 2 \in Int /\ 0 \in 0 .. h - 1 /\ XBITS = h * 2 + 0
    BY <1>2
  <2> QED
    BY <1>2, <2>1, DivisionIsUnique
<1>5. U64 % h = 0
  <2>1. (U64 % XBITS) % h = U64 % h
    BY <1>1, <1>2, <1>4, ResidueOfResidue
  <2>2. 0 % h = 0
    BY <1>2
  <2> QED
    BY <1>1, <2>1, <2>2
<1>6. (b % U64) % XBITS = b % XBITS
  BY <1>1, ResidueOfResidue
<1>7. (b % U64) % h = b % h
  BY <1>1, <1>2, <1>5, ResidueOfResidue
<1> QED
  BY <1>3, <1>6, <1>7, Zenon DEF Wrap, h

\* The word instructions cast both operands to int before they add or
\* subtract: their low bits are those of the sum of the full words.
LEMMA LowBits ==
  ASSUME NEW a \in Int, NEW b \in Int
  PROVE  /\ (Signed(a, U32) + Signed(b, U32)) % U32 = (a + Wrap(b)) % U32
         /\ (Signed(a, U32) - Signed(b, U32)) % U32 = (a + (U64 - Wrap(b))) % U32
<1> DEFINE x == Signed(a, U32)
           y == Signed(b, U32)
           c == Wrap(b)
           f == a + (U64 - c)
           g == a - c
<1>1. U32 \in Nat \ {0} /\ U32 % 2 = 0 /\ U64 \in Nat \ {0} /\ U64 % U32 = 0
  BY WordSizes
<1>2. x \in Int /\ y \in Int /\ x % U32 = a % U32 /\ y % U32 = b % U32
  BY <1>1, SignedValue
<1>3. c \in Int
  BY <1>1, WrapIsWord DEF Word
<1>4. f \in Int /\ g \in Int
  BY <1>1, <1>3
<1>5. f = g + U32 * U32
  BY <1>1, <1>3, WidthAssumption
<1>6. c % U32 = b % U32
  BY <1>1, ResidueOfResidue, Zenon DEF Wrap
<1>7. y % U32 = c % U32
  BY <1>2, <1>6, Zenon
<1>8. x \in Int /\ y \in Int
  BY <1>2
<1> HIDE DEF x, y, c, f, g
<1>9. x % U32 = a % U32 /\ U32 \in Nat \ {0}
  BY <1>1, <1>2
<1>10. (x + y) % U32 = (a + c) % U32 /\ (x - y) % U32 = (a - c) % U32
  <2>1. /\ (x + y) % U32 = ((x % U32) + (y % U32)) % U32
        /\ (x - y) % U32 = ((x % U32) - (y % U32)) % U32
    BY <1>8, <1>1, ResidueOfTerms
  <2>2. /\ (a + c) % U32 = ((a % U32) + (c % U32)) % U32
        /\ (a - c) % U32 = ((a % U32) - (c % U32)) % U32
    BY <1>3, <1>1, ResidueOfTerms
  <2> QED
    BY <1>7, <1>9, <2>1, <2>2, Zenon
<1>11. U32 \in Int
  BY <1>1
<1>12. f % U32 = g % U32
  BY <1>4, <1>5, <1>9, <1>11, SameResidue, Zenon
<1> QED
  BY <1>10, <1>12, Zenon DEF x, y, c, f, g

\* A register instruction leaves in its destination what the ISA computes,
\* whatever its operands, unless it loses a sign.
LEMMA AluIsIsa ==
  ASSUME NEW op \in RRRInsts \cup RRIInsts, NEW a \in Word, NEW b \in Int,
         op \in RRRInsts => b \in Word, KeepsSign(op, a, b)
  PROVE  Wrap(Alu(op, a, b)) = Machine!Computed(op, a, Wrap(b))
<1> DEFINE c == Wrap(b)
           p == 2 ^ Shamt64(b)
           q == 2 ^ Shamt32(b)
           x == Signed(a, U32)
           y == Signed(b, U32)
<1>0. /\ U64 \in Nat \ {0} /\ U32 \in Nat \ {0} /\ U64 % 2 = 0 /\ U32 % 2 = 0 /\ U32 <= U64
      /\ a \in 0 .. U64 - 1 /\ a \in Int /\ c \in Word /\ c \in 0 .. U64 - 1 /\ c \in Int
  BY WordSizes, WrapIsWord DEF Word
<1>1. p \in 1 .. U64 - 1 /\ q \in 1 .. U64 - 1 /\ p \in Nat \ {0} /\ q \in Nat \ {0}
  BY ShiftIsPower, <1>0
<1>2. Shamt64(b) = c % XBITS /\ Shamt32(b) = c % Machine!Half(XBITS)
  BY ShiftAmounts
<1>3. x \in Int /\ y \in Int
  BY <1>0, SignedValue
<1>4. \A v \in Int : Wrap(Signed(v, U32)) = Machine!Sext(v, U32)
  BY <1>0, SignExtension
<1>5. CASE op \in {"ADD", "ADDI"}
  <2>1. Alu(op, a, b) = a + b /\ Machine!Computed(op, a, c) = (a + c) % U64
    BY <1>5, Zenon DEF Alu, Machine!Computed
  <2>2. ((b % U64) + a) % U64 = (b + a) % U64
    BY <1>0, ResidueOfSum
  <2>3. b + a = a + b /\ c + a = a + c
    BY <1>0
  <2> QED
    BY <2>1, <2>2, <2>3, Zenon DEF Wrap
<1>6. CASE op = "SUB"
  <2>1. Alu(op, a, b) = a - b /\ Machine!Computed(op, a, c) = (a + (U64 - c)) % U64
    BY <1>6, Zenon DEF Alu, Machine!Computed
  <2>2. c = b
    BY <1>6, SignedWord DEF RRRInsts
  <2> DEFINE f == a + (U64 - c)
             g == a - b
  <2>3. f \in Int /\ g \in Int
    BY <1>0
  <2>4. f = g + U64 * 1 /\ 1 \in Int
    BY <1>0, <2>2
  <2> HIDE DEF f, g
  <2>5. f % U64 = g % U64
    BY <1>0, <2>3, <2>4, SameResidue
  <2> QED
    BY <2>1, <2>5, Zenon DEF Wrap, f, g
<1>7. CASE op \in {"AND", "ANDI", "OR", "ORI", "XOR", "XORI"}
  <2>1. BitAnd(a, c) \in Word /\ BitOr(a, c) \in Word /\ BitXor(a, c) \in Word
    BY <1>0, BitwiseAssumption
  <2>2. /\ Wrap(BitAnd(a, c)) = BitAnd(a, c) /\ Wrap(BitOr(a, c)) = BitOr(a, c)
        /\ Wrap(BitXor(a, c)) = BitXor(a, c)
    BY <2>1, SignedWord
  <2>3. /\ op \in {"AND", "ANDI"} =>
             Alu(op, a, b) = BitAnd(a, c) /\ Machine!Computed(op, a, c) = BitAnd(a, c)
        /\ op \in {"OR", "ORI"} =>
             Alu(op, a, b) = BitOr(a, c) /\ Machine!Computed(op, a, c) = BitOr(a, c)
        /\ op \in {"XOR", "XORI"} =>
             Alu(op, a, b) = BitXor(a, c) /\ Machine!Computed(op, a, c) = BitXor(a, c)
    BY Zenon DEF Alu, Machine!Computed
  <2> QED
    BY <1>7, <2>2, <2>3, Zenon
<1>8. CASE op \in {"SLL", "SLLI"}
  BY <1>2, <1>8, Zenon DEF Alu, Machine!Computed, Wrap
<1>9. CASE op \in {"SRL", "SRLI"}
  <2>1. Alu(op, a, b) = a \div p /\ Machine!Computed(op, a, c) = a \div p
    BY <1>2, <1>9, Zenon DEF Alu, Machine!Computed
  <2>2. a \div p \in Word
    <3>1. a \in Nat /\ p \in Nat \ {0} /\ a < U64 /\ U64 \in Nat
      BY <1>0, <1>1
    <3> HIDE DEF p
    <3>2. a \div p \in Nat /\ a \div p <= a
      BY <3>1, QuotientBound, Zenon
    <3> QED
      BY <3>1, <3>2 DEF Word
  <2> QED
    BY <2>1, <2>2, SignedWord
<1>10. CASE op \in {"SRA", "SRAI"}
  <2>1. /\ Alu(op, a, b) = Signed(a, U64) \div p
        /\ Machine!Computed(op, a, c) = Machine!Sra(a, Shamt64(b))
    BY <1>2, <1>10, Zenon DEF Alu, Machine!Computed
  <2>2. Wrap(Signed(a, U64) \div p) = Machine!Sra(Wrap(Signed(a, U64)), Shamt64(b))
    BY <1>0, <1>1, SignedValue, ArithmeticShift
  <2> QED
    BY <2>1, <2>2, SignedWord
<1>11. CASE op \in {"ADDW", "ADDIW"}
  <2>1. Alu(op, a, b) = Signed(x + y, U32) /\ Machine!Computed(op, a, c) = Machine!Sext(a + c, U32)
    BY <1>11, Zenon DEF Alu, Machine!Computed
  <2>2. (x + y) % U32 = (a + c) % U32
    BY <1>0, LowBits
  <2>3. x + y \in Int
    BY <1>3
  <2>4. Wrap(Signed(x + y, U32)) = Machine!Sext(x + y, U32)
    BY <1>4, <2>3
  <2>5. Machine!Sext(x + y, U32) = Machine!Sext(a + c, U32)
    BY <2>2, SameExtension
  <2> QED
    BY <2>1, <2>4, <2>5
<1>12. CASE op = "SUBW"
  <2>1. /\ Alu(op, a, b) = Signed(x - y, U32)
        /\ Machine!Computed(op, a, c) = Machine!Sext(a + (U64 - c), U32)
    BY <1>12, Zenon DEF Alu, Machine!Computed
  <2>2. (x - y) % U32 = (a + (U64 - c)) % U32
    BY <1>0, LowBits
  <2>3. x - y \in Int
    BY <1>3
  <2>4. Wrap(Signed(x - y, U32)) = Machine!Sext(x - y, U32)
    BY <1>4, <2>3
  <2>5. Machine!Sext(x - y, U32) = Machine!Sext(a + (U64 - c), U32)
    BY <2>2, SameExtension
  <2> QED
    BY <2>1, <2>4, <2>5
<1>13. CASE op \in {"SLLW", "SLLIW"}
  <2>1. /\ Alu(op, a, b) = Signed(x * q, U32)
        /\ Machine!Computed(op, a, c) = Machine!Sext((a % U32) * q, U32)
    BY <1>2, <1>13, Zenon DEF Alu, Machine!Computed
  <2>2. (x * q) % U32 = ((a % U32) * q) % U32
    <3>1. x % U32 = a % U32 /\ q \in Int
      BY <1>0, <1>1, SignedValue
    <3>2. ((x % U32) * q) % U32 = (x * q) % U32
      BY <1>0, <1>3, <3>1, ResidueOfProduct
    <3> QED
      BY <3>1, <3>2, Zenon
  <2>3. x * q \in Int
    BY <1>1, <1>3
  <2>4. Wrap(Signed(x * q, U32)) = Machine!Sext(x * q, U32)
    BY <1>4, <2>3
  <2>5. Machine!Sext(x * q, U32) = Machine!Sext((a % U32) * q, U32)
    BY <2>2, SameExtension
  <2> QED
    BY <2>1, <2>4, <2>5
<1>14. CASE op \in {"SRLW", "SRLIW"}
  <2> DEFINE l == a % U32
             v == l \div q
  <2>1. Alu(op, a, b) = v /\ Machine!Computed(op, a, c) = Machine!Sext(v, U32)
    BY <1>2, <1>14, Zenon DEF Alu, Machine!Computed
  <2>2. l \in 0 .. U32 - 1 /\ l \in Nat
    BY <1>0
  <2>3. 2 * v < U32 /\ v \in 0 .. U32 - 1
    <3>1. v \in Nat /\ v <= l /\ (q > 1 /\ l > 0 => 2 * v <= l)
      BY <1>1, <2>2, QuotientBound
    <3>2. 2 * l < U32 \/ q > 1
      <4>1. 2 * l < U32 \/ Shamt32(b) # 0
        BY <1>14 DEF KeepsSign
      <4>2. Shamt32(b) \in 0 .. XBITS - 1
        <5>1. XBITS \div 2 \in 1 .. XBITS - 1
          BY Sizes, WidthAssumption
        <5> QED
          BY <5>1, Sizes DEF Shamt32
      <4>3. Shamt32(b) # 0 => q > 1
        BY <1>0, <4>2, WidthAssumption
      <4> QED
        BY <4>1, <4>3
    <3> HIDE DEF l, v, q
    <3> QED
      BY <1>0, <2>2, <3>1, <3>2
  <2>4. v % U32 = v
    BY <1>0, <2>3, OwnResidue
  <2>5. Machine!Sext(v, U32) = v
    <3>1. Machine!Half(U32) \in Nat /\ U32 = 2 * Machine!Half(U32)
      BY <1>0, Halves
    <3>2. v < Machine!Half(U32)
      BY <2>3, <3>1
    <3> QED
      BY <2>4, <3>2, Zenon DEF Machine!Sext
  <2>6. v \in Word
    BY <1>0, <2>3 DEF Word
  <2> QED
    BY <2>1, <2>5, <2>6, SignedWord, Zenon
<1>15. CASE op \in {"SRAW", "SRAIW"}
  <2>1. /\ Alu(op, a, b) = x \div q
        /\ Machine!Computed(op, a, c) = Machine!Sra(Machine!Sext(a, U32), Shamt32(b))
    BY <1>2, <1>15, Zenon DEF Alu, Machine!Computed
  <2>2. -Machine!Half(U64) <= x /\ x < Machine!Half(U64)
    <3>1. /\ -Machine!Half(U32) <= x /\ x < Machine!Half(U32)
          /\ Machine!Half(U32) \in Nat /\ U32 = 2 * Machine!Half(U32)
          /\ Machine!Half(U64) \in Nat /\ U64 = 2 * Machine!Half(U64)
      BY <1>0, SignedValue, Halves
    <3> QED
      BY <1>0, <1>3, <3>1
  <2>3. Wrap(x \div q) = Machine!Sra(Wrap(x), Shamt32(b))
    BY <1>1, <1>3, <2>2, ArithmeticShift
  <2>4. Wrap(x) = Machine!Sext(a, U32)
    BY <1>0, <1>4
  <2> QED
    BY <2>1, <2>3, <2>4, Zenon
<1> QED
  BY <1>5, <1>6, <1>7, <1>8, <1>9, <1>10, <1>11, <1>12, <1>13, <1>14, <1>15, Zenon
  DEF RRRInsts, RRIInsts

\* A conditional set leaves in its destination what the ISA computes.
LEMMA SetIsIsa ==
  ASSUME NEW op \in SetInsts, NEW a \in Word, NEW b \in Int
  PROVE  Wrap(IF Condition(op, a, b) THEN 1 ELSE 0) = Machine!Computed(op, a, Wrap(b))
<1>1. Wrap(1) = 1 /\ Wrap(0) = 0
  <2>1. 0 \in 0 .. U64 - 1 /\ 1 \in 0 .. U64 - 1 /\ U64 \in Nat \ {0}
    BY Sizes
  <2> QED
    BY <2>1, OwnResidue DEF Wrap
<1>2. CASE op \in {"SLT", "SLTI"}
  <2>1. Condition(op, a, b) <=> Signed(a, U64) < Signed(b, U64)
    BY <1>2, Zenon DEF Condition
  <2>2. Machine!Computed(op, a, Wrap(b)) = IF Machine!SignedLess(a, Wrap(b)) THEN 1 ELSE 0
    BY <1>2, Zenon DEF Machine!Computed
  <2>3. Signed(a, U64) < Signed(b, U64) <=> Machine!SignedLess(a, Wrap(b))
    BY SignedComparison
  <2> QED
    BY <1>1, <2>1, <2>2, <2>3, Zenon
<1>3. CASE op \in {"SLTU", "SLTIU"}
  <2>1. Condition(op, a, b) <=> a < Wrap(b)
    BY <1>3, Zenon DEF Condition
  <2>2. Machine!Computed(op, a, Wrap(b)) = IF a < Wrap(b) THEN 1 ELSE 0
    BY <1>3, Zenon DEF Machine!Computed
  <2> QED
    BY <1>1, <2>1, <2>2, Zenon
<1> QED
  BY <1>2, <1>3, Zenon DEF SetInsts

\* A branch is taken exactly when the ISA takes it.
LEMMA BranchIsIsa ==
  ASSUME NEW op \in BranchInsts, NEW a \in Word, NEW b \in Word
  PROVE  Condition(op, a, b) <=> Machine!Taken(op, a, b)
<1>1. a \in Int /\ b \in Int /\ U64 \in Nat \ {0} /\ U64 % 2 = 0
  BY WordSizes DEF Word
<1>2. Wrap(b) = b
  BY SignedWord
<1>3. Signed(a, U64) < Signed(b, U64) <=> Machine!SignedLess(a, b)
  <2>1. Signed(a, U64) < Signed(b, U64) <=> Machine!SignedLess(a, Wrap(b))
    BY <1>1, SignedComparison
  <2> QED
    BY <1>2, <2>1, Zenon
<1>4. Signed(a, U64) >= Signed(b, U64) <=> ~(Signed(a, U64) < Signed(b, U64))
  <2>1. Signed(a, U64) \in Int /\ Signed(b, U64) \in Int
    BY <1>1, SignedValue
  <2> QED
    BY <2>1
<1>5. a >= b <=> ~(a < b)
  BY <1>1
<1>6. CASE op \in {"BEQ", "BNE"}
  BY <1>6, Zenon DEF Condition, Machine!Taken
<1>7. CASE op = "BLT"
  BY <1>3, <1>7, Zenon DEF Condition, Machine!Taken
<1>8. CASE op = "BGE"
  BY <1>3, <1>4, <1>8, Zenon DEF Condition, Machine!Taken
<1>9. CASE op = "BLTU"
  BY <1>2, <1>9, Zenon DEF Condition, Machine!Taken
<1>10. CASE op = "BGEU"
  BY <1>5, <1>10, Zenon DEF Condition, Machine!Taken
<1> QED
  BY <1>6, <1>7, <1>8, <1>9, <1>10, Zenon DEF BranchInsts

\* An integer that fits the signed type is not changed by the cast.
LEMMA SignedInRange ==
  ASSUME NEW v \in Int, NEW n \in Nat \ {0}, n % 2 = 0,
         -Machine!Half(n) <= v, v < Machine!Half(n)
  PROVE  Signed(v, n) = v
<1> DEFINE h == Machine!Half(n)
<1>1. h \in Nat \ {0} /\ n = 2 * h
  BY Halves
<1> HIDE DEF h
<1>2. -h <= v /\ v < h
  BY DEF h
<1>3. CASE v >= 0
  <2>1. v \in 0 .. n - 1 /\ 2 * v < n
    BY <1>1, <1>2, <1>3
  <2>2. v % n = v
    BY <2>1, OwnResidue
  <2> QED
    BY <2>1, <2>2, Zenon DEF Signed
<1>4. CASE v < 0
  <2> DEFINE w == v + n
  <2>1. w \in 0 .. n - 1 /\ ~(2 * w < n) /\ w - n = v
    BY <1>1, <1>2, <1>4
  <2>2. -1 \in Int /\ v = n * (-1) + w
    BY <1>1
  <2> HIDE DEF w
  <2>3. v % n = w
    BY <2>1, <2>2, DivisionIsUnique
  <2> QED
    BY <2>1, <2>3, Zenon DEF Signed
<1> QED
  BY <1>3, <1>4

\* LUI and AUIPC sign-extend an upper immediate that is an int.
LEMMA UpperIsIsa ==
  ASSUME NEW imm \in Int, UpperFits(imm, UpperShift), NEW c \in Int
  PROVE  /\ imm * 2 ^ UpperShift \in Int
         /\ Wrap(imm * 2 ^ UpperShift) = Machine!Upper(imm)
         /\ Wrap(c + imm * 2 ^ UpperShift) = (c + Machine!Upper(imm)) % U64
<1> DEFINE v == imm * 2 ^ UpperShift
<1>1. v \in Int
  BY RegisterAssumption, WidthAssumption, Sizes
<1>2. /\ U32 \in Nat \ {0} /\ U32 % 2 = 0 /\ U32 <= U64 /\ U64 \in Nat \ {0}
      /\ -Machine!Half(U32) <= v /\ v < Machine!Half(U32)
  BY WordSizes DEF UpperFits, Machine!Half
<1>3. Machine!Upper(imm) = Machine!Sext(v, U32)
  BY DEF Machine!Upper
<1> HIDE DEF v
<1>4. Signed(v, U32) = v
  BY <1>1, <1>2, SignedInRange
<1>5. Wrap(Signed(v, U32)) = Machine!Sext(v, U32)
  BY <1>1, <1>2, SignExtension
<1>6. Wrap(v) = Machine!Upper(imm)
  BY <1>3, <1>4, <1>5, Zenon
<1>7. ((v % U64) + c) % U64 = (v + c) % U64
  BY <1>1, <1>2, ResidueOfSum
<1>8. (v % U64) + c = c + (v % U64) /\ v + c = c + v
  BY <1>1, <1>2
<1>9. Wrap(c + v) = (c + Machine!Upper(imm)) % U64
  BY <1>6, <1>7, <1>8, Zenon DEF Wrap
<1> QED
  BY <1>1, <1>6, <1>9 DEF v

\* Clearing the lowest bit of a target.
LEMMA EvenTarget ==
  ASSUME NEW t \in Int PROVE t - (t % 2) = 2 * Machine!Half(t)
<1>1. t \div 2 \in Int /\ t % 2 \in 0 .. 1 /\ t = 2 * (t \div 2) + (t % 2)
  BY DivisionWithRemainder
<1> QED
  BY <1>1 DEF Machine!Half

\* The running sum behind the value of n bytes.
LEMMA ValueIsRunningSum ==
  ASSUME NEW addr \in Int, NEW n \in 0 .. 8
  PROVE  \E u : /\ u[0] = 0
                /\ \A k \in 1 .. n : u[k] = u[k - 1] + Bytes[addr + k - 1] * U8 ^ (k - 1)
                /\ Machine!Value(addr, n) = u[n]
<1> DEFINE t(k) == Bytes[addr + k - 1] * U8 ^ (k - 1)
           Sums(f) == f = [k \in 0 .. n |-> IF k = 0 THEN 0 ELSE f[k - 1] + t(k)]
           u == CHOOSE f : Sums(f)
<1>1. \E f : Sums(f)
  <2> DEFINE s1 == 0 + t(1)
             s2 == s1 + t(2)
             s3 == s2 + t(3)
             s4 == s3 + t(4)
             s5 == s4 + t(5)
             s6 == s5 + t(6)
             s7 == s6 + t(7)
             s8 == s7 + t(8)
             w == [k \in 0 .. n |-> IF k = 0 THEN 0 ELSE IF k = 1 THEN s1
                                    ELSE IF k = 2 THEN s2 ELSE IF k = 3 THEN s3
                                    ELSE IF k = 4 THEN s4 ELSE IF k = 5 THEN s5
                                    ELSE IF k = 6 THEN s6 ELSE IF k = 7 THEN s7 ELSE s8]
  <2> HIDE DEF t
  <2>1. ASSUME NEW k \in 0 .. n PROVE w[k] = IF k = 0 THEN 0 ELSE w[k - 1] + t(k)
    <3>1. k = 0 \/ k = 1 \/ k = 2 \/ k = 3 \/ k = 4 \/ k = 5 \/ k = 6 \/ k = 7 \/ k = 8
      OBVIOUS
    <3>2. k = 0 \/ k - 1 \in 0 .. n
      OBVIOUS
    <3> QED
      BY <3>1, <3>2
  <2>2. w = [k \in 0 .. n |-> IF k = 0 THEN 0 ELSE w[k - 1] + t(k)]
    BY <2>1
  <2> QED
    BY <2>2
<1>2. Sums(u)
  BY <1>1, Zenon
<1>3. Machine!Value(addr, n) = u[n]
  BY Zenon DEF Machine!Value
<1> HIDE DEF u
<1>4. u[0] = 0 /\ \A k \in 1 .. n : u[k] = u[k - 1] + t(k)
  BY <1>2
<1> QED
  BY <1>3, <1>4

\* The weights of the bytes of a word.
LEMMA Weights ==
  /\ U8 ^ 0 = 1 /\ U8 ^ 1 = U8 /\ U8 ^ 2 = U16 /\ U8 ^ 3 = U8 * U16
  /\ U8 ^ 4 = U32 /\ U8 ^ 5 = U8 * U32 /\ U8 ^ 6 = U16 * U32 /\ U8 ^ 7 = U8 * (U16 * U32)
<1>1. U8 \in Int /\ U16 \in Int /\ U32 \in Int
  BY Sizes
<1>2. U16 = U8 * U8 /\ U32 = U16 * U16
  BY WidthAssumption
<1>3. \A k \in 0 .. 7 : U8 ^ (k + 1) = U8 * U8 ^ k
  BY PowerAssumption
<1>4. U8 ^ 0 = 1
  BY PowerAssumption
<1>5. U8 ^ 1 = U8
  <2>1. U8 ^ (0 + 1) = U8 * U8 ^ 0
    BY <1>3
  <2> QED
    BY <1>1, <1>4, <2>1
<1>6. U8 ^ 2 = U16
  <2>1. U8 ^ (1 + 1) = U8 * U8 ^ 1
    BY <1>3
  <2> QED
    BY <1>2, <1>5, <2>1
<1>7. U8 ^ 3 = U8 * U16
  <2>1. U8 ^ (2 + 1) = U8 * U8 ^ 2
    BY <1>3
  <2> QED
    BY <1>6, <2>1
<1>8. U8 ^ 4 = U32
  <2>1. U8 ^ (3 + 1) = U8 * U8 ^ 3
    BY <1>3
  <2>2. U8 * (U8 * U16) = (U8 * U8) * U16
    BY <1>1
  <2> QED
    BY <1>2, <1>7, <2>1, <2>2
<1>9. U8 ^ 5 = U8 * U32
  <2>1. U8 ^ (4 + 1) = U8 * U8 ^ 4
    BY <1>3
  <2> QED
    BY <1>8, <2>1
<1>10. U8 ^ 6 = U16 * U32
  <2>1. U8 ^ (5 + 1) = U8 * U8 ^ 5
    BY <1>3
  <2>2. U8 * (U8 * U32) = (U8 * U8) * U32
    BY <1>1
  <2> QED
    BY <1>2, <1>9, <2>1, <2>2
<1>11. U8 ^ 7 = U8 * (U16 * U32)
  <2>1. U8 ^ (6 + 1) = U8 * U8 ^ 6
    BY <1>3
  <2> QED
    BY <1>10, <2>1
<1> QED
  BY <1>4, <1>5, <1>6, <1>7, <1>8, <1>9, <1>10, <1>11

\* Two digits make a number below the product of their bases.
LEMMA TwoDigits ==
  ASSUME NEW m \in Nat \ {0}, NEW p \in Nat \ {0}, NEW a \in 0 .. m - 1, NEW b \in 0 .. p - 1
  PROVE  a + m * b \in 0 .. m * p - 1
<1>1. m * b >= 0 /\ m * (p - 1 - b) >= 0
  OBVIOUS
<1>2. m * (p - 1 - b) = m * p - m - m * b /\ m * b \in Int /\ m * p \in Int
  OBVIOUS
<1> QED
  BY <1>1, <1>2

\* The RAM read in steps of one, two, four and eight bytes holds the values
\* the ISA gives the same bytes.
LEMMA ReadsAreValues ==
  ASSUME MemoryTypeOK, cfg.instr_upper \in Nat, size \in Nat, NEW k \in Nat
  PROVE  LET a == cfg.instr_upper + k IN
         /\ k + 1 <= size => Read1(k) \in 0 .. U8 - 1 /\ Machine!Value(a, 1) = Read1(k)
         /\ k + 2 <= size => Read2(k) \in 0 .. U16 - 1 /\ Machine!Value(a, 2) = Read2(k)
         /\ k + 4 <= size => Read4(k) \in 0 .. U32 - 1 /\ Machine!Value(a, 4) = Read4(k)
         /\ k + 8 <= size => Read8(k) \in 0 .. U64 - 1 /\ Machine!Value(a, 8) = Read8(k)
<1> DEFINE a == cfg.instr_upper + k
<1>1. ASSUME NEW j \in Nat, k + j < size
      PROVE  Bytes[a + j] = ram[k + j] /\ ram[k + j] \in 0 .. U8 - 1
  <2>1. a + j \in cfg.instr_upper .. cfg.instr_upper + size - 1
    BY <1>1
  <2>2. (a + j) - cfg.instr_upper = k + j /\ k + j \in 0 .. size - 1
    BY <1>1
  <2> HIDE DEF a
  <2> QED
    BY <2>1, <2>2 DEF Bytes, MemoryTypeOK
<1>2. /\ U8 \in Nat \ {0} /\ U16 \in Nat \ {0} /\ U32 \in Nat \ {0} /\ U64 \in Nat \ {0}
      /\ U16 = U8 * U8 /\ U32 = U16 * U16 /\ U64 = U32 * U32
  BY Sizes, WidthAssumption
<1>3. /\ \A j \in Nat : j + 1 <= size => Read1(j) \in 0 .. U8 - 1
      /\ \A j \in Nat : j + 2 <= size => Read2(j) \in 0 .. U16 - 1
      /\ \A j \in Nat : j + 4 <= size => Read4(j) \in 0 .. U32 - 1
      /\ \A j \in Nat : j + 8 <= size => Read8(j) \in 0 .. U64 - 1
  <2>1. ASSUME NEW j \in Nat, j + 1 <= size PROVE Read1(j) \in 0 .. U8 - 1
    BY <2>1 DEF Read1, MemoryTypeOK
  <2>2. ASSUME NEW j \in Nat, j + 2 <= size PROVE Read2(j) \in 0 .. U16 - 1
    <3>1. Read1(j) \in 0 .. U8 - 1 /\ Read1(j + 1) \in 0 .. U8 - 1
      BY <2>1, <2>2
    <3> QED
      BY <1>2, <3>1, TwoDigits DEF Read2
  <2>3. ASSUME NEW j \in Nat, j + 4 <= size PROVE Read4(j) \in 0 .. U32 - 1
    <3>1. Read2(j) \in 0 .. U16 - 1 /\ Read2(j + 2) \in 0 .. U16 - 1
      BY <2>2, <2>3
    <3> QED
      BY <1>2, <3>1, TwoDigits DEF Read4
  <2>4. ASSUME NEW j \in Nat, j + 8 <= size PROVE Read8(j) \in 0 .. U64 - 1
    <3>1. Read4(j) \in 0 .. U32 - 1 /\ Read4(j + 4) \in 0 .. U32 - 1
      BY <2>3, <2>4
    <3> QED
      BY <1>2, <3>1, TwoDigits DEF Read8
  <2> QED
    BY <2>1, <2>2, <2>3, <2>4
<1>4. a \in Int
  OBVIOUS
<1> HIDE DEF a
<1>5. ASSUME k + 1 <= size PROVE Machine!Value(a, 1) = Read1(k)
  <2>1. 1 \in 0 .. 8
    OBVIOUS
  <2>2. PICK u : /\ u[0] = 0
                 /\ \A j \in 1 .. 1 : u[j] = u[j - 1] + Bytes[a + j - 1] * U8 ^ (j - 1)
                 /\ Machine!Value(a, 1) = u[1]
    BY <1>4, <2>1, ValueIsRunningSum, Zenon
  <2> DEFINE b0 == ram[k]
  <2>3. /\ b0 \in Int /\ Bytes[a + 0] = b0
    BY <1>1, <1>2, <1>5
  <2> HIDE DEF b0
  <2>4. /\ u[1] = u[0] + b0 * U8 ^ 0
    BY <1>4, <2>2, <2>3
  <2>5. u[1] = b0
    BY <1>2, <2>2, <2>3, <2>4, Weights
  <2>6. Read1(k) = b0
    BY DEF Read8, Read4, Read2, Read1, b0
  <2> QED
    BY <1>2, <2>2, <2>3, <2>5, <2>6
<1>6. ASSUME k + 2 <= size PROVE Machine!Value(a, 2) = Read2(k)
  <2>1. 2 \in 0 .. 8
    OBVIOUS
  <2>2. PICK u : /\ u[0] = 0
                 /\ \A j \in 1 .. 2 : u[j] = u[j - 1] + Bytes[a + j - 1] * U8 ^ (j - 1)
                 /\ Machine!Value(a, 2) = u[2]
    BY <1>4, <2>1, ValueIsRunningSum, Zenon
  <2> DEFINE b0 == ram[k]
             b1 == ram[k + 1]
  <2>3. /\ b0 \in Int /\ Bytes[a + 0] = b0
        /\ b1 \in Int /\ Bytes[a + 1] = b1
    BY <1>1, <1>2, <1>6
  <2> HIDE DEF b0, b1
  <2>4. /\ u[1] = u[0] + b0 * U8 ^ 0
        /\ u[2] = u[1] + b1 * U8 ^ 1
    BY <1>4, <2>2, <2>3
  <2>5. u[2] = b0 + b1 * U8
    BY <1>2, <2>2, <2>3, <2>4, Weights
  <2>6. Read2(k) = b0 + U8 * b1
    BY DEF Read8, Read4, Read2, Read1, b0, b1
  <2> QED
    BY <1>2, <2>2, <2>3, <2>5, <2>6
<1>7. ASSUME k + 4 <= size PROVE Machine!Value(a, 4) = Read4(k)
  <2>1. 4 \in 0 .. 8
    OBVIOUS
  <2>2. PICK u : /\ u[0] = 0
                 /\ \A j \in 1 .. 4 : u[j] = u[j - 1] + Bytes[a + j - 1] * U8 ^ (j - 1)
                 /\ Machine!Value(a, 4) = u[4]
    BY <1>4, <2>1, ValueIsRunningSum, Zenon
  <2> DEFINE b0 == ram[k]
             b1 == ram[k + 1]
             b2 == ram[k + 2]
             b3 == ram[k + 2 + 1]
  <2>3. /\ b0 \in Int /\ Bytes[a + 0] = b0
        /\ b1 \in Int /\ Bytes[a + 1] = b1
        /\ b2 \in Int /\ Bytes[a + 2] = b2
        /\ b3 \in Int /\ Bytes[a + 3] = b3
    BY <1>1, <1>2, <1>7
  <2> HIDE DEF b0, b1, b2, b3
  <2>4. /\ u[1] = u[0] + b0 * U8 ^ 0
        /\ u[2] = u[1] + b1 * U8 ^ 1
        /\ u[3] = u[2] + b2 * U8 ^ 2
        /\ u[4] = u[3] + b3 * U8 ^ 3
    BY <1>4, <2>2, <2>3
  <2>5. u[4] = b0 + b1 * U8 + b2 * U16 + b3 * (U8 * U16)
    BY <1>2, <2>2, <2>3, <2>4, Weights
  <2>6. Read4(k) = (b0 + U8 * b1) + U16 * (b2 + U8 * b3)
    BY DEF Read8, Read4, Read2, Read1, b0, b1, b2, b3
  <2> QED
    BY <1>2, <2>2, <2>3, <2>5, <2>6
<1>8. ASSUME k + 8 <= size PROVE Machine!Value(a, 8) = Read8(k)
  <2>1. 8 \in 0 .. 8
    OBVIOUS
  <2>2. PICK u : /\ u[0] = 0
                 /\ \A j \in 1 .. 8 : u[j] = u[j - 1] + Bytes[a + j - 1] * U8 ^ (j - 1)
                 /\ Machine!Value(a, 8) = u[8]
    BY <1>4, <2>1, ValueIsRunningSum, Zenon
  <2> DEFINE b0 == ram[k]
             b1 == ram[k + 1]
             b2 == ram[k + 2]
             b3 == ram[k + 2 + 1]
             b4 == ram[k + 4]
             b5 == ram[k + 4 + 1]
             b6 == ram[k + 4 + 2]
             b7 == ram[k + 4 + 2 + 1]
  <2>3. /\ b0 \in Int /\ Bytes[a + 0] = b0
        /\ b1 \in Int /\ Bytes[a + 1] = b1
        /\ b2 \in Int /\ Bytes[a + 2] = b2
        /\ b3 \in Int /\ Bytes[a + 3] = b3
        /\ b4 \in Int /\ Bytes[a + 4] = b4
        /\ b5 \in Int /\ Bytes[a + 5] = b5
        /\ b6 \in Int /\ Bytes[a + 6] = b6
        /\ b7 \in Int /\ Bytes[a + 7] = b7
    BY <1>1, <1>2, <1>8
  <2> HIDE DEF b0, b1, b2, b3, b4, b5, b6, b7
  <2>4. /\ u[1] = u[0] + b0 * U8 ^ 0
        /\ u[2] = u[1] + b1 * U8 ^ 1
        /\ u[3] = u[2] + b2 * U8 ^ 2
        /\ u[4] = u[3] + b3 * U8 ^ 3
        /\ u[5] = u[4] + b4 * U8 ^ 4
        /\ u[6] = u[5] + b5 * U8 ^ 5
        /\ u[7] = u[6] + b6 * U8 ^ 6
        /\ u[8] = u[7] + b7 * U8 ^ 7
    BY <1>4, <2>2, <2>3
  <2>5. u[8] = b0 + b1 * U8 + b2 * U16 + b3 * (U8 * U16) + b4 * U32 + b5 * (U8 * U32)
               + b6 * (U16 * U32) + b7 * (U8 * (U16 * U32))
    <3>1. u[4] = b0 + b1 * U8 + b2 * U16 + b3 * (U8 * U16)
      <4>1. /\ u[1] = 0 + b0 * 1
            /\ u[2] = u[1] + b1 * U8
            /\ u[3] = u[2] + b2 * U16
            /\ u[4] = u[3] + b3 * (U8 * U16)
        BY <2>2, <2>4, Weights, Zenon
      <4> QED
        BY <2>3, <4>1
    <3>2. /\ u[5] = u[4] + b4 * U32
          /\ u[6] = u[5] + b5 * (U8 * U32)
          /\ u[7] = u[6] + b6 * (U16 * U32)
          /\ u[8] = u[7] + b7 * (U8 * (U16 * U32))
      BY <2>4, Weights, Zenon
    <3> QED
      BY <3>1, <3>2
  <2>6. Read8(k) = ((b0 + U8 * b1) + U16 * (b2 + U8 * b3))
                      + U32 * ((b4 + U8 * b5) + U16 * (b6 + U8 * b7))
    BY DEF Read8, Read4, Read2, Read1, b0, b1, b2, b3, b4, b5, b6, b7
  <2> QED
    BY <1>2, <2>2, <2>3, <2>5, <2>6
<1> QED
  BY <1>3, <1>5, <1>6, <1>7, <1>8 DEF a

\* A load leaves in its destination what the ISA loads.
LEMMA LoadIsIsa ==
  ASSUME MemoryTypeOK, cfg.instr_upper \in Nat, size \in Nat, NEW k \in Nat,
         NEW op \in LoadInsts, k + AccessSize(op) <= size
  PROVE  Wrap(LoadedValue(op, k)) = Machine!Loaded(op, cfg.instr_upper + k)
<1> DEFINE a == cfg.instr_upper + k
<1>1. /\ k + 1 <= size => Read1(k) \in 0 .. U8 - 1 /\ Machine!Value(a, 1) = Read1(k)
      /\ k + 2 <= size => Read2(k) \in 0 .. U16 - 1 /\ Machine!Value(a, 2) = Read2(k)
      /\ k + 4 <= size => Read4(k) \in 0 .. U32 - 1 /\ Machine!Value(a, 4) = Read4(k)
      /\ k + 8 <= size => Read8(k) \in 0 .. U64 - 1 /\ Machine!Value(a, 8) = Read8(k)
  BY ReadsAreValues, Zenon
<1> HIDE DEF a
<1>2. /\ U8 \in Nat \ {0} /\ U16 \in Nat \ {0} /\ U32 \in Nat \ {0} /\ U64 \in Nat \ {0}
      /\ U8 % 2 = 0 /\ U16 % 2 = 0 /\ U32 % 2 = 0 /\ U8 <= U64 /\ U16 <= U64 /\ U32 <= U64
  BY WordSizes
<1>3. CASE op \in {"LB", "LBU"}
  <2>1. AccessSize(op) = 1 /\ Machine!AccessSize(op) = 1
    BY <1>3, Zenon DEF AccessSize, Machine!AccessSize
  <2>2. Read1(k) \in Int /\ Read1(k) \in Word /\ Machine!Value(a, 1) = Read1(k)
    BY <1>1, <1>2, <2>1 DEF Word
  <2>3. Wrap(Signed(Read1(k), U8)) = Machine!Sext(Read1(k), U8) /\ Wrap(Read1(k)) = Read1(k)
    BY <1>2, <2>2, SignExtension, SignedWord
  <2>4. U8 ^ 1 = U8
    BY Weights
  <2>5. /\ op = "LB" => LoadedValue(op, k) = Signed(Read1(k), U8)
        /\ op = "LBU" => LoadedValue(op, k) = Read1(k)
    BY Zenon DEF LoadedValue
  <2>6. /\ op = "LB" => Machine!Loaded(op, a) = Machine!Sext(Machine!Value(a, 1), U8 ^ 1)
        /\ op = "LBU" => Machine!Loaded(op, a) = Machine!Value(a, 1)
    BY <2>1, Zenon DEF Machine!Loaded
  <2> QED
    BY <1>3, <2>2, <2>3, <2>4, <2>5, <2>6, Zenon DEF a
<1>4. CASE op \in {"LH", "LHU"}
  <2>1. AccessSize(op) = 2 /\ Machine!AccessSize(op) = 2
    BY <1>4, Zenon DEF AccessSize, Machine!AccessSize
  <2>2. Read2(k) \in Int /\ Read2(k) \in Word /\ Machine!Value(a, 2) = Read2(k)
    BY <1>1, <1>2, <2>1 DEF Word
  <2>3. Wrap(Signed(Read2(k), U16)) = Machine!Sext(Read2(k), U16) /\ Wrap(Read2(k)) = Read2(k)
    BY <1>2, <2>2, SignExtension, SignedWord
  <2>4. U8 ^ 2 = U16
    BY Weights
  <2>5. /\ op = "LH" => LoadedValue(op, k) = Signed(Read2(k), U16)
        /\ op = "LHU" => LoadedValue(op, k) = Read2(k)
    BY Zenon DEF LoadedValue
  <2>6. /\ op = "LH" => Machine!Loaded(op, a) = Machine!Sext(Machine!Value(a, 2), U8 ^ 2)
        /\ op = "LHU" => Machine!Loaded(op, a) = Machine!Value(a, 2)
    BY <2>1, Zenon DEF Machine!Loaded
  <2> QED
    BY <1>4, <2>2, <2>3, <2>4, <2>5, <2>6, Zenon DEF a
<1>5. CASE op \in {"LW", "LWU"}
  <2>1. AccessSize(op) = 4 /\ Machine!AccessSize(op) = 4
    BY <1>5, Zenon DEF AccessSize, Machine!AccessSize
  <2>2. Read4(k) \in Int /\ Read4(k) \in Word /\ Machine!Value(a, 4) = Read4(k)
    BY <1>1, <1>2, <2>1 DEF Word
  <2>3. Wrap(Signed(Read4(k), U32)) = Machine!Sext(Read4(k), U32) /\ Wrap(Read4(k)) = Read4(k)
    BY <1>2, <2>2, SignExtension, SignedWord
  <2>4. U8 ^ 4 = U32
    BY Weights
  <2>5. /\ op = "LW" => LoadedValue(op, k) = Signed(Read4(k), U32)
        /\ op = "LWU" => LoadedValue(op, k) = Read4(k)
    BY Zenon DEF LoadedValue
  <2>6. /\ op = "LW" => Machine!Loaded(op, a) = Machine!Sext(Machine!Value(a, 4), U8 ^ 4)
        /\ op = "LWU" => Machine!Loaded(op, a) = Machine!Value(a, 4)
    BY <2>1, Zenon DEF Machine!Loaded
  <2> QED
    BY <1>5, <2>2, <2>3, <2>4, <2>5, <2>6, Zenon DEF a
<1>6. CASE op = "LD"
  <2>1. AccessSize(op) = 8 /\ Machine!AccessSize(op) = 8
    BY <1>6, Zenon DEF AccessSize, Machine!AccessSize
  <2>2. Read8(k) \in Word /\ Machine!Value(a, 8) = Read8(k)
    BY <1>1, <2>1 DEF Word
  <2>3. Wrap(Read8(k)) = Read8(k)
    BY <2>2, SignedWord
  <2>4. LoadedValue(op, k) = Read8(k)
    BY <1>6, Zenon DEF LoadedValue
  <2>5. Machine!Loaded(op, a) = Machine!Value(a, 8)
    BY <1>6, <2>1, Zenon DEF Machine!Loaded
  <2> QED
    BY <2>2, <2>3, <2>4, <2>5, Zenon DEF a
<1> QED
  BY <1>3, <1>4, <1>5, <1>6, Zenon DEF LoadInsts

\* A store leaves in memory what the ISA stores.
LEMMA StoreIsIsa ==
  ASSUME MemoryTypeOK, cfg.instr_upper \in Nat, size \in Nat, NEW k \in Nat, NEW v \in Word,
         NEW op \in StoreInsts, ram' = Written(op, k, v), cfg' = cfg, size' = size
  PROVE  Bytes' = Machine!Stored(v, cfg.instr_upper + k, AccessSize(op))
<1> DEFINE u == cfg.instr_upper
           a == u + k
           n == AccessSize(op)
           D == u .. u + size - 1
<1>1. n \in 1 .. 8
  BY AccessSizes DEF MemInsts
<1>2. Bytes' = [b \in D |-> ram'[b - u]]
  BY DEF Bytes
<1>3. Machine!Stored(v, a, n) =
        [b \in D |-> IF b \in a .. a + n - 1 THEN (v \div U8 ^ (b - a)) % U8 ELSE Bytes[b]]
  BY DEF Machine!Stored, Bytes
<1>4. ASSUME NEW b \in D
      PROVE  ram'[b - u] = IF b \in a .. a + n - 1 THEN (v \div U8 ^ (b - a)) % U8 ELSE Bytes[b]
  <2>1. DOMAIN ram = 0 .. size - 1 /\ b - u \in 0 .. size - 1 /\ Bytes[b] = ram[b - u]
    BY <1>4 DEF MemoryTypeOK, Bytes
  <2>2. b \in a .. a + n - 1 <=> b - u \in k .. k + n - 1
    BY <1>1, <1>4
  <2>3. (b - u) - k = b - a
    BY <1>4
  <2>4. ram'[b - u] = IF b - u \in k .. k + n - 1 THEN ByteOf(v, (b - u) - k) ELSE ram[b - u]
    BY <2>1, Zenon DEF Written
  <2> HIDE DEF a, n, D
  <2> QED
    BY <2>1, <2>2, <2>3, <2>4, Zenon DEF ByteOf
<1> HIDE DEF a, n, D
<1> QED
  BY <1>2, <1>3, <1>4, Zenon DEF a, n

\* The bounds check lets through exactly the accesses all of whose bytes are
\* memory.
LEMMA AccessibleIsValid ==
  ASSUME RegistersTypeOK, MemoryTypeOK, mem_ok, HeaderConforms,
         NEW a \in Word, NEW n \in 1 .. 8
  PROVE  a .. a + n - 1 \subseteq DOMAIN Bytes <=> size > 0 /\ ValidAccess(a, n)
<1> DEFINE u == cfg.instr_upper
<1>1. /\ u \in Nat /\ size \in Nat /\ size = cfg.memory_sz /\ a \in Nat /\ U64 \in Nat
      /\ u + size < U64
  BY Sizes DEF RegistersTypeOK, Configuration, MemoryTypeOK, Word, HeaderConforms
<1>2. DOMAIN Bytes = u .. u + size - 1
  BY DEF Bytes
<1>3. ValidAccess(a, n) <=> a + n < U64 /\ a >= u /\ a + n <= u + size
  BY <1>1 DEF ValidAccess, MinValidAddr, MaxValidAddr
<1>4. a .. a + n - 1 \subseteq u .. u + size - 1 <=> u <= a /\ a + n <= u + size
  <2>1. ASSUME a .. a + n - 1 \subseteq u .. u + size - 1 PROVE u <= a /\ a + n <= u + size
    <3>1. a \in a .. a + n - 1 /\ a + n - 1 \in a .. a + n - 1
      BY <1>1
    <3>2. a \in u .. u + size - 1 /\ a + n - 1 \in u .. u + size - 1
      BY <2>1, <3>1
    <3> QED
      BY <1>1, <3>2
  <2>2. ASSUME u <= a, a + n <= u + size PROVE a .. a + n - 1 \subseteq u .. u + size - 1
    BY <1>1, <2>2
  <2> QED
    BY <2>1, <2>2
<1>5. a + n <= u + size /\ a >= u => a + n < U64 /\ size > 0
  BY <1>1
<1> HIDE DEF u
<1> QED
  BY <1>2, <1>3, <1>4, <1>5

-----------------------------------------------------------------------------
\* The two modules classify the instructions alike.
LEMMA SameSets ==
  /\ Machine!RRRInsts = RRRInsts /\ Machine!RRIInsts = RRIInsts
  /\ Machine!SetInsts = SetInsts /\ Machine!BranchInsts = BranchInsts
  /\ Machine!MemInsts = MemInsts /\ Machine!LoadInsts = LoadInsts
  /\ Machine!NoException = NoException
  /\ \A op : Machine!AccessSize(op) = AccessSize(op)
BY Zenon DEF RRRInsts, RRIInsts, SetInsts, BranchInsts, MemInsts, LoadInsts, StoreInsts,
  NoException, AccessSize, Machine!RRRInsts, Machine!RRIInsts, Machine!SetInsts,
  Machine!BranchInsts, Machine!MemInsts, Machine!LoadInsts, Machine!StoreInsts,
  Machine!NoException, Machine!AccessSize

-----------------------------------------------------------------------------
\* Where the emulator conforms, the instruction a handler is given is the one
\* the ISA finds at its pc.
LEMMA InstIsCurrent ==
  ASSUME TypeOK, PcConforms, PcInRange, offset = Wrap(GetPc - cfg.instr_lower) \div 4
  PROVE  Machine!InProgram /\ Machine!Aligned /\ Machine!Current = Inst
<1> DEFINE d == pc - cfg.instr_lower
<1>1. /\ pc \in Nat /\ cfg.instr_lower \in Nat /\ pc < U64 /\ U32 \in Nat \ {0}
      /\ U64 \in Nat \ {0} /\ pc < U32
  BY Sizes DEF TypeOK, RegistersTypeOK, Configuration, Word, PcConforms
<1>2. GetPc = pc
  BY <1>1 DEF GetPc
<1>3. d \in 0 .. U64 - 1
  BY <1>1, <1>2 DEF PcInRange
<1>4. Wrap(d) = d
  BY <1>1, <1>3, OwnResidue DEF Wrap
<1>5. offset = d \div 4
  BY <1>2, <1>4, Zenon
<1>6. Machine!Current = Inst
  BY <1>5, Zenon DEF Machine!Current, Inst
<1>7. Machine!InProgram /\ Machine!Aligned
  BY <1>2 DEF PcInRange, PcConforms, Machine!InProgram, Machine!Aligned
<1> QED
  BY <1>6, <1>7

\* A pc the range check refuses is not in the ISA's program.
LEMMA BadPcIsOutside ==
  ASSUME TypeOK, PcConforms, ~PcInRange PROVE ~Machine!InProgram
<1>1. pc \in Nat /\ U32 \in Nat \ {0} /\ pc < U32
  BY Sizes DEF TypeOK, RegistersTypeOK, Word, PcConforms
<1>2. GetPc = pc
  BY <1>1 DEF GetPc
<1> QED
  BY <1>2 DEF PcInRange, Machine!InProgram

\* registers_setreg writes what the ISA puts, and x0 is not written by either.
LEMMA SetRegIsPut ==
  ASSUME RegistersTypeOK, NEW n \in Nat, NEW v, SetReg(n, v)
  PROVE  Machine!Put(n, Wrap(v))
<1>1. DOMAIN regs = 0 .. NumRegs - 1 /\ NumRegs \in Nat
      /\ regs = [m \in 0 .. NumRegs - 1 |-> regs[m]]
  BY RegisterAssumption DEF RegistersTypeOK
<1> DEFINE w == Wrap(v)
<1>2. regs' = IF n \in 1 .. NumRegs - 1 THEN [regs EXCEPT ![n] = w] ELSE regs
  BY DEF SetReg
<1> HIDE DEF w
<1>3. regs' = [m \in 0 .. NumRegs - 1 |-> IF m = n /\ m # 0 THEN w ELSE regs[m]]
  <2>1. CASE n \in 1 .. NumRegs - 1
    BY <1>1, <1>2, <2>1
  <2>2. CASE n \notin 1 .. NumRegs - 1
    <3>1. \A m \in 0 .. NumRegs - 1 : ~(m = n /\ m # 0)
      BY <1>1, <2>2
    <3>2. regs' = regs
      BY <1>2, <2>2
    <3> QED
      BY <1>1, <3>1, <3>2
  <2> QED
    BY <2>1, <2>2
<1> QED
  BY <1>1, <1>3 DEF Machine!Put, w

\* A pass that ends with Advance moves the ISA's pc to the next instruction.
LEMMA AdvanceIsGoto ==
  ASSUME RegistersTypeOK, pc < U32
  PROVE  /\ GetPc = pc
         /\ SetPc(GetPc + 4) => Machine!Goto(pc + 4)
         /\ Advance => Machine!Goto(pc + 4) /\ ret' = 0
<1>1. pc \in Nat /\ U32 \in Nat \ {0}
  BY Sizes DEF RegistersTypeOK, Word
<1>2. GetPc = pc
  BY <1>1 DEF GetPc
<1> QED
  BY <1>2, Zenon DEF Advance, SetPc, Wrap, Machine!Goto

\* The machine runs until a handler has raised an exception.
LEMMA RunningIsCause ==
  /\ stage \notin {"report", "stopped"} => Cause = NoException /\ Machine!Running
  /\ stage' \notin {"report", "stopped"} => Cause' = NoException
  /\ stage' = "report" => Cause' = e'
BY SameSets DEF Cause, Machine!Running

\* The handlers that do not touch the memory leave the ISA's memory alone.
LEMMA BytesUntouched ==
  ASSUME cfg' = cfg, size' = size, ram' = ram PROVE Bytes' = Bytes
BY DEF Bytes

-----------------------------------------------------------------------------
\* Steps of the loop itself change nothing the ISA can see.
LEMMA LoopStepsStutter ==
  ASSUME IInv, Fetch \/ DecodeBeyondArray \/ Report \/ PrintState \/ UNCHANGED processorVars
  PROVE  UNCHANGED Machine!vars
<1>1. UNCHANGED <<cfg, instructions, regs, pc, e, mem_ok, ram, size, cacheVars>>
  BY DEF Fetch, DecodeBeyondArray, Report, PrintState, processorVars, memVars
<1>2. Bytes' = Bytes
  BY <1>1, BytesUntouched
<1>3. Cause' = Cause
  BY <1>1
  DEF Fetch, DecodeBeyondArray, Report, PrintState, processorVars, Cause
<1> QED
  BY <1>1, <1>2, <1>3 DEF Machine!vars, cacheVars

\* What all handlers have in common: only the last word of a handler decides
\* whether the machine goes on.
LEMMA Verdict ==
  ASSUME NEW next \in Stages \ {"report", "stopped"}, After(next)
  PROVE  /\ ret' = 0 \/ ret' = 1 => Cause' = NoException
         /\ \A x : Raise(x) => Cause' = x /\ regs' = regs /\ pc' = pc
<1>1. ret' = 0 \/ ret' = 1 => stage' = next
  BY DEF After
<1>2. ASSUME NEW x, Raise(x) PROVE Cause' = x /\ regs' = regs /\ pc' = pc
  <2>1. stage' = "report"
    BY <1>2 DEF After, Raise
  <2> QED
    BY <1>2, <2>1, RunningIsCause DEF Raise
<1> QED
  BY <1>1, <1>2, RunningIsCause

\* The instruction the register handler computes is the one the ISA does.
LEMMA ComputeStep ==
  ASSUME IInv, Conforms, stage = "regops", RegOpsCompute(Inst), InArray
  PROVE  Machine!Compute(Inst) \/ Machine!LoadUpper(Inst)
<1> DEFINE op == Inst.inst_no
           a == GetReg(Inst.rs1)
           b == SecondOperand(Inst)
<1>1. TypeOK /\ RegistersTypeOK /\ Inst \in Instruction /\ pc < U32
  BY InstIsInstruction DEF IInv, TypeOK, Conforms, PcConforms
<1>2. /\ Inst.rd \in Nat /\ Inst.rs1 \in Nat /\ Inst.rs2 \in Nat /\ Inst.imm \in Int
      /\ Inst.rs1 < NumRegs /\ Inst.rs2 < NumRegs
      /\ op \in {"LUI", "AUIPC"} => UpperFits(Inst.imm, UpperShift)
  <2>1. offset + 1 \in DOMAIN instructions
    BY <1>1 DEF InArray, TypeOK
  <2> QED
    BY <1>1, <2>1 DEF Conforms, ProgramConforms, Encodable, Inst, Instruction
<1>3. a = regs[Inst.rs1] /\ GetReg(Inst.rs2) = regs[Inst.rs2]
  BY <1>2 DEF GetReg
<1>4. a \in Word /\ GetReg(Inst.rs2) \in Word
  BY <1>1, <1>2, ReadsAreWords
<1>5. /\ op \in ComputeInsts /\ PcInRange
      /\ SetReg(Inst.rd, Alu(op, a, b)) /\ Advance
  BY DEF RegOpsCompute
<1>6. Machine!Goto(pc + 4)
  BY <1>1, <1>5, AdvanceIsGoto
<1>7. Machine!Put(Inst.rd, Wrap(Alu(op, a, b)))
  BY <1>1, <1>2, <1>5, SetRegIsPut
<1>8. CASE op \in RRRInsts \cup RRIInsts
  <2>1. KeepsSign(op, a, b)
    BY <1>5 DEF Conforms, ShiftConforms
  <2>2. b \in Int /\ (op \in RRRInsts => b \in Word)
    BY <1>2, <1>4, Sizes DEF SecondOperand, Word
  <2>3. Wrap(Alu(op, a, b)) = Machine!Computed(op, a, Wrap(b))
    BY <1>4, <1>8, <2>1, <2>2, AluIsIsa
  <2>4. op \in RRRInsts => b = regs[Inst.rs2] /\ Wrap(b) = b
    BY <1>3, <2>2, SignedWord DEF SecondOperand
  <2>5. op \notin RRRInsts => Wrap(b) = Inst.imm % U64 /\ op \notin {"SLT", "SLTU"}
    BY <1>8 DEF SecondOperand, Wrap, RRIInsts
  <2>6. Machine!Put(Inst.rd, Machine!Computed(op, regs[Inst.rs1],
          IF op \in RRRInsts \cup {"SLT", "SLTU"} THEN regs[Inst.rs2] ELSE Inst.imm % U64))
    BY <1>3, <1>7, <2>3, <2>4, <2>5, Zenon
  <2> QED
    BY <1>6, <1>8, <2>6, SameSets, Zenon DEF Machine!Compute
<1>9. CASE op = "LUI"
  <2>1. b = Inst.imm
    BY <1>9 DEF SecondOperand, RRRInsts
  <2>2. Alu(op, a, b) = Inst.imm * 2 ^ UpperShift
    BY <1>9, <2>1, Zenon DEF Alu
  <2>3. Wrap(Inst.imm * 2 ^ UpperShift) = Machine!Upper(Inst.imm)
    BY <1>2, <1>9, UpperIsIsa
  <2> QED
    BY <1>6, <1>7, <1>9, <2>2, <2>3, Zenon DEF Machine!LoadUpper
<1> QED
  BY <1>5, <1>8, <1>9 DEF ComputeInsts

\* One call of the register handler is one step of the ISA, or none.
LEMMA RegOpsStep ==
  ASSUME IInv, Conforms, CallRegOps PROVE [Machine!Next]_Machine!vars
<1>1. /\ stage = "regops" /\ RegOps(Inst) /\ After("memops") /\ cfg' = cfg
      /\ UNCHANGED <<memVars, cacheVars, instructions>>
  BY DEF CallRegOps, RegOps
<1>2. /\ Bytes' = Bytes /\ Machine!Fixed /\ num_cache_accesses' = num_cache_accesses
  BY <1>1, BytesUntouched DEF memVars, cacheVars, Machine!Fixed
<1>3. Machine!Running /\ Cause = NoException
  BY <1>1, RunningIsCause
<1>4. /\ ret' = 0 \/ ret' = 1 => Cause' = NoException
      /\ \A x : Raise(x) => Cause' = x /\ regs' = regs /\ pc' = pc
  <2>1. "memops" \in Stages \ {"report", "stopped"}
    BY DEF Stages
  <2> QED
    BY <1>1, <2>1, Verdict
<1>5. \A x : Raise(x) => Machine!Halt(x)
  BY <1>2, <1>4 DEF Machine!Halt
<1>6. TypeOK /\ RegistersTypeOK /\ PcConforms /\ pc < U32 /\ SyscallReg < NumRegs
  BY RegisterAssumption DEF IInv, TypeOK, Conforms, PcConforms
<1>7. CASE RegOpsBadPc
  <2>1. ~Machine!InProgram
    BY <1>6, <1>7, BadPcIsOutside DEF RegOpsBadPc
  <2>2. Machine!Halt("INSTRUCTION")
    BY <1>5, <1>7 DEF RegOpsBadPc
  <2> QED
    BY <1>2, <1>3, <2>1, <2>2, Zenon DEF Machine!Next, Machine!Step
<1>8. CASE PcInRange
  <2>1. Machine!InProgram /\ Machine!Aligned /\ Machine!Current = Inst /\ InArray
    BY <1>1, <1>6, <1>8, InstIsCurrent DEF IInv, OffsetOfPc, CallRegOps
  <2>2. GetReg(SyscallReg) = regs[SyscallReg]
    BY <1>6 DEF GetReg
  <2>3. CASE RegOpsCompute(Inst)
    <3>1. Machine!Compute(Inst) \/ Machine!LoadUpper(Inst)
      BY <1>1, <2>1, <2>3, ComputeStep
    <3>2. Cause' = Cause
      BY <1>3, <1>4, <2>3 DEF RegOpsCompute, Advance
    <3> QED
      BY <1>2, <1>3, <2>1, <3>1, <3>2, Zenon DEF Machine!Next, Machine!Step
  <2>4. CASE RegOpsPrintState(Inst)
    <3>1. Machine!PrintState(Inst)
      BY <1>6, <2>2, <2>4, AdvanceIsGoto
      DEF RegOpsPrintState, SyscallPrint, Machine!PrintState
    <3>2. Cause' = Cause
      BY <1>3, <1>4, <2>4 DEF RegOpsPrintState
    <3> QED
      BY <1>2, <1>3, <2>1, <3>1, <3>2, Zenon DEF Machine!Next, Machine!Step
  <2>5. CASE RegOpsExit(Inst) \/ RegOpsUnknownSyscall(Inst)
    <3>1. Machine!Trap(Inst)
      BY <1>5, <2>2, <2>5
      DEF RegOpsExit, RegOpsUnknownSyscall, SyscallExit, SyscallPrint, Machine!Trap
    <3> QED
      BY <1>2, <1>3, <2>1, <3>1, Zenon DEF Machine!Next, Machine!Step
  <2>6. CASE RegOpsOther(Inst)
    <3>1. Cause' = Cause /\ regs' = regs /\ pc' = pc
      BY <1>3, <1>4, <2>6 DEF RegOpsOther, Leave
    <3> QED
      BY <1>2, <3>1 DEF Machine!vars, Machine!Fixed
  <2> QED
    BY <1>1, <1>8, <2>3, <2>4, <2>5, <2>6 DEF RegOps, RegOpsBadPc
<1> QED
  BY <1>1, <1>7, <1>8
  DEF RegOps, RegOpsCompute, RegOpsPrintState, RegOpsExit, RegOpsUnknownSyscall, RegOpsOther

\* The cache counts one access for every load and store that completes.
LEMMA AccessIsCounted ==
  ASSUME CacheTypeOK, NEW addr, CacheAccess(addr)
  PROVE  /\ num_cache_accesses' = num_cache_accesses + (IF cache_ok THEN 1 ELSE 0)
         /\ cache_ok' = cache_ok
<1>1. num_cache_accesses \in Int
  BY DEF CacheTypeOK
<1> QED
  BY <1>1 DEF CacheAccess, CacheMissing, CacheHit, CacheMiss, cacheVars

\* A load or store the memory handler lets through is the access of the ISA.
LEMMA AccessStep ==
  ASSUME IInv, Conforms, stage = "memops", InArray, Inst.inst_no \in MemInsts, mem_ok,
         cfg' = cfg, size' = size, Cause' = Cause,
         MemOpsStore(Inst) \/ MemOpsLoad(Inst)
  PROVE  Machine!Access(Inst) /\ cache_ok' = cache_ok
<1> DEFINE op == Inst.inst_no
           a == EffectiveAddr(Inst)
           n == AccessSize(op)
           k == RamIndex(a)
<1>1. /\ TypeOK /\ RegistersTypeOK /\ MemoryTypeOK /\ CacheTypeOK /\ Inst \in Instruction
      /\ pc < U32 /\ HeaderConforms
  BY InstIsInstruction DEF IInv, TypeOK, Conforms, PcConforms
<1>2. /\ Inst.rd \in Nat /\ Inst.rs1 \in Nat /\ Inst.rd < NumRegs /\ Inst.rs1 < NumRegs
  <2>1. offset + 1 \in DOMAIN instructions
    BY <1>1 DEF InArray, TypeOK
  <2> QED
    BY <1>1, <2>1 DEF Conforms, ProgramConforms, Encodable, Inst, Instruction
<1>3. GetReg(Inst.rs1) = regs[Inst.rs1] /\ GetReg(Inst.rd) = regs[Inst.rd]
  BY <1>2 DEF GetReg
<1>4. a \in Word /\ a = Machine!Address(Inst)
  BY <1>1, <1>3, AddressIsWord, Zenon DEF EffectiveAddr, Machine!Address, Wrap
<1>5. n \in 1 .. 8 /\ Machine!AccessSize(op) = n
  BY AccessSizes, SameSets
<1>6. size > 0 /\ ValidAccess(a, n) /\ CacheAccess(a) /\ Advance
  BY DEF MemOpsStore, MemOpsLoad, MemOpsAllowed
<1>7. Machine!Accessible(Inst)
  BY <1>1, <1>4, <1>5, <1>6, AccessibleIsValid, Zenon DEF Machine!Accessible
<1>8. k \in Nat /\ k + n <= size
  BY <1>1, <1>4, <1>5, <1>6, AccessInRam
<1>9. /\ size \in Nat /\ cfg.instr_upper \in Nat /\ a = cfg.instr_upper + k
      /\ regs[Inst.rd] \in Word
  <2>1. size \in Nat /\ cfg.instr_upper \in Nat /\ U64 \in Nat
    BY <1>1, Sizes DEF MemoryTypeOK, RegistersTypeOK, Configuration, Word
  <2>2. regs[Inst.rd] \in Word
    BY <1>1, <1>2, <1>3, ReadsAreWords
  <2>3. a \in Int /\ k = a - cfg.instr_upper
    BY <1>4, <2>1 DEF Word, RamIndex, MinValidAddr
  <2> HIDE DEF a, k
  <2> QED
    BY <2>1, <2>2, <2>3
<1>10. /\ num_cache_accesses' = num_cache_accesses + (IF cache_ok THEN 1 ELSE 0)
       /\ cache_ok' = cache_ok
  BY <1>1, <1>6, AccessIsCounted
<1>11. Machine!Goto(pc + 4)
  BY <1>1, <1>6, AdvanceIsGoto
<1> HIDE DEF a, n, k
<1>12. CASE MemOpsLoad(Inst)
  <2>1. /\ op \in LoadInsts /\ SetReg(Inst.rd, LoadedValue(op, k)) /\ ram' = ram
    BY <1>12 DEF MemOpsLoad, k, a
  <2>2. Machine!Put(Inst.rd, Wrap(LoadedValue(op, k)))
    BY <1>1, <1>2, <2>1, SetRegIsPut
  <2>3. Wrap(LoadedValue(op, k)) = Machine!Loaded(op, a)
    BY <1>1, <1>8, <1>9, <2>1, LoadIsIsa DEF n
  <2>4. Bytes' = Bytes
    BY <2>1, BytesUntouched
  <2> QED
    BY <1>4, <1>7, <1>10, <1>11, <2>1, <2>2, <2>3, <2>4, SameSets, Zenon DEF Machine!Access
<1>13. CASE MemOpsStore(Inst)
  <2>1. /\ op \in StoreInsts /\ regs' = regs /\ ram' = Written(op, k, regs[Inst.rd])
    BY <1>3, <1>13 DEF MemOpsStore, k, a
  <2>2. op \notin LoadInsts
    BY <2>1, HandlersAreDisjoint
  <2>3. Bytes' = Machine!Stored(regs[Inst.rd], a, n)
    BY <1>1, <1>8, <1>9, <2>1, StoreIsIsa DEF n
  <2> QED
    BY <1>4, <1>5, <1>7, <1>10, <1>11, <2>1, <2>2, <2>3, SameSets, Zenon DEF Machine!Access
<1> QED
  BY <1>12, <1>13

\* One call of the memory handler is one step of the ISA, or none.
LEMMA MemOpsStep ==
  ASSUME IInv, PcStands, Conforms, CallMemOps PROVE [Machine!Next]_Machine!vars
<1>1. /\ stage = "memops" /\ MemOps(Inst) /\ After("cntlflowops")
      /\ cfg' = cfg /\ mem_ok' = mem_ok /\ size' = size /\ instructions' = instructions
  BY DEF CallMemOps, MemOps
<1>2. /\ ret' = 0 \/ ret' = 1 => Cause' = NoException
      /\ \A x : Raise(x) => Cause' = x /\ regs' = regs /\ pc' = pc
  <2>1. "cntlflowops" \in Stages \ {"report", "stopped"}
    BY DEF Stages
  <2> QED
    BY <1>1, <2>1, Verdict
<1>3. Machine!Running /\ Cause = NoException
  BY <1>1, RunningIsCause
<1>4. TypeOK /\ RegistersTypeOK /\ MemoryTypeOK /\ PcConforms /\ HeaderConforms /\ InArray
  BY <1>1 DEF IInv, TypeOK, Conforms, InProgram
<1>5. ASSUME UNCHANGED <<ram, cacheVars>>
      PROVE  /\ Bytes' = Bytes /\ Machine!Fixed /\ num_cache_accesses' = num_cache_accesses
             /\ \A x : Raise(x) => Machine!Halt(x)
  <2>1. Bytes' = Bytes /\ num_cache_accesses' = num_cache_accesses
    BY <1>1, <1>5, BytesUntouched DEF cacheVars
  <2> QED
    BY <1>1, <1>2, <1>5, <2>1 DEF cacheVars, Machine!Fixed, Machine!Halt
<1>6. Inst.inst_no \in MemInsts =>
        Machine!InProgram /\ Machine!Aligned /\ Machine!Current = Inst
  BY <1>1, <1>4, InstIsCurrent DEF PcStands
<1>7. CASE MemOpsNoMemory
  <2>1. ~mem_ok /\ Machine!Fixed /\ Machine!Halt("UNKNOWN_SYSCALL")
    BY <1>5, <1>7 DEF MemOpsNoMemory
  <2> QED
    BY <1>3, <2>1 DEF Machine!Next, Machine!HostFailure
<1>8. CASE MemOpsOther(Inst)
  <2>1. Cause' = Cause /\ regs' = regs /\ pc' = pc
    BY <1>2, <1>3, <1>8 DEF MemOpsOther, Leave
  <2>2. Bytes' = Bytes /\ Machine!Fixed /\ num_cache_accesses' = num_cache_accesses
    BY <1>5, <1>8 DEF MemOpsOther
  <2> QED
    BY <2>1, <2>2 DEF Machine!vars, Machine!Fixed
<1>9. CASE MemOpsRefused(Inst)
  <2>1. /\ mem_ok /\ Inst.inst_no \in MemInsts
        /\ size = 0 \/ ~ValidAccess(EffectiveAddr(Inst), AccessSize(Inst.inst_no))
        /\ Machine!Halt("MEMORY") /\ Machine!Fixed
    BY <1>5, <1>9 DEF MemOpsRefused
  <2>2. Inst \in Instruction
    BY <1>4, InstIsInstruction
  <2>3. EffectiveAddr(Inst) \in Word /\ EffectiveAddr(Inst) = Machine!Address(Inst)
    <3>1. offset + 1 \in DOMAIN instructions
      BY <1>4 DEF InArray, TypeOK
    <3>2. Inst.rs1 < NumRegs
      BY <3>1 DEF Conforms, ProgramConforms, Encodable, Inst
    <3>3. GetReg(Inst.rs1) = regs[Inst.rs1]
      BY <3>2 DEF GetReg
    <3> QED
      BY <1>4, <2>2, <3>3, AddressIsWord, Zenon DEF EffectiveAddr, Machine!Address, Wrap
  <2>4. AccessSize(Inst.inst_no) \in 1 .. 8
        /\ Machine!AccessSize(Inst.inst_no) = AccessSize(Inst.inst_no)
    BY <2>1, AccessSizes, SameSets
  <2>5. ~(size > 0 /\ ValidAccess(EffectiveAddr(Inst), AccessSize(Inst.inst_no)))
    BY <2>1
  <2>6. ~Machine!Accessible(Inst)
    BY <1>4, <2>1, <2>3, <2>4, <2>5, AccessibleIsValid, Zenon DEF Machine!Accessible
  <2>7. Machine!Trap(Inst)
    BY <2>1, <2>6, SameSets, Zenon DEF Machine!Trap
  <2> QED
    BY <1>3, <1>6, <2>1, <2>7, Zenon DEF Machine!Next, Machine!Step
<1>10. CASE MemOpsStore(Inst) \/ MemOpsLoad(Inst)
  <2>1. Inst.inst_no \in MemInsts /\ mem_ok /\ ret' = 0
    BY <1>10 DEF MemOpsStore, MemOpsLoad, MemOpsAllowed, MemInsts, Advance
  <2>2. Cause' = Cause
    BY <1>2, <1>3, <2>1
  <2>3. Machine!Access(Inst) /\ cache_ok' = cache_ok
    BY <1>1, <1>4, <1>10, <2>1, <2>2, AccessStep
  <2>4. Machine!Fixed
    BY <1>1, <2>3 DEF Machine!Fixed
  <2> QED
    BY <1>3, <1>6, <2>1, <2>3, <2>4, Zenon DEF Machine!Next, Machine!Step
<1> QED
  BY <1>1, <1>7, <1>8, <1>9, <1>10 DEF MemOps

\* One call of the control flow handler is one step of the ISA, or none.
LEMMA ControlFlowOpsStep ==
  ASSUME IInv, PcStands, Conforms, CallControlFlowOps PROVE [Machine!Next]_Machine!vars
<1> DEFINE op == Inst.inst_no
<1>1. /\ stage = "cntlflowops" /\ ControlFlowOps(Inst) /\ After("print") /\ cfg' = cfg
      /\ UNCHANGED <<memVars, cacheVars, instructions>>
  BY DEF CallControlFlowOps, ControlFlowOps
<1>2. /\ Bytes' = Bytes /\ Machine!Fixed /\ num_cache_accesses' = num_cache_accesses
  BY <1>1, BytesUntouched DEF memVars, cacheVars, Machine!Fixed
<1>3. Machine!Running /\ Cause = NoException
  BY <1>1, RunningIsCause
<1>4. ret' = 0 => Cause' = Cause
  <2>1. "print" \in Stages \ {"report", "stopped"}
    BY DEF Stages
  <2> QED
    BY <1>1, <1>3, <2>1, Verdict
<1>5. TypeOK /\ RegistersTypeOK /\ PcConforms /\ pc < U32 /\ InArray /\ Inst \in Instruction
  BY <1>1, InstIsInstruction DEF IInv, TypeOK, Conforms, PcConforms, InProgram
<1>6. /\ Inst.rd \in Nat /\ Inst.rs1 \in Nat /\ Inst.rs2 \in Nat /\ Inst.imm \in Int
      /\ Inst.rd < NumRegs /\ Inst.rs1 < NumRegs /\ Inst.rs2 < NumRegs
      /\ op \in {"LUI", "AUIPC"} => UpperFits(Inst.imm, UpperShift)
  <2>1. offset + 1 \in DOMAIN instructions
    BY <1>5 DEF InArray, TypeOK
  <2> QED
    BY <1>5, <2>1 DEF Conforms, ProgramConforms, Encodable, Inst, Instruction
<1>7. /\ GetReg(Inst.rd) = regs[Inst.rd] /\ GetReg(Inst.rs1) = regs[Inst.rs1]
      /\ GetReg(Inst.rs2) = regs[Inst.rs2] /\ GetPc = pc
      /\ regs[Inst.rd] \in Word /\ regs[Inst.rs1] \in Word /\ regs[Inst.rs2] \in Word
      /\ pc \in Int
  <2>1. pc \in Int
    BY <1>5, Sizes DEF RegistersTypeOK, Word
  <2> QED
    BY <1>5, <1>6, <2>1, AdvanceIsGoto, ReadsAreWords DEF GetReg
<1>8. ASSUME op \in ControlInsts, ret' = 0,
             \/ Machine!Compute(Inst) \/ Machine!LoadUpper(Inst)
             \/ Machine!Branch(Inst) \/ Machine!Jump(Inst)
      PROVE  Machine!Next
  <2>1. Machine!InProgram /\ Machine!Aligned /\ Machine!Current = Inst
    BY <1>1, <1>5, <1>8, InstIsCurrent DEF PcStands
  <2> QED
    BY <1>2, <1>3, <1>4, <1>8, <2>1, Zenon DEF Machine!Next, Machine!Step
<1>9. CASE ControlOther(Inst)
  <2>1. Cause' = Cause /\ regs' = regs /\ pc' = pc
    BY <1>4, <1>9 DEF ControlOther, Leave
  <2> QED
    BY <1>2, <2>1 DEF Machine!vars, Machine!Fixed
<1>10. CASE ControlSet(Inst)
  <2> DEFINE b == IF op \in {"SLT", "SLTU"} THEN GetReg(Inst.rs2) ELSE Inst.imm
             v == IF Condition(op, GetReg(Inst.rs1), b) THEN 1 ELSE 0
             c == IF op \in RRRInsts \cup {"SLT", "SLTU"} THEN regs[Inst.rs2]
                  ELSE Inst.imm % U64
  <2>1. op \in SetInsts /\ SetReg(Inst.rd, v) /\ Advance
    BY <1>10 DEF ControlSet
  <2>2. b \in Int /\ op \notin RRRInsts /\ op \in ControlInsts
    BY <1>6, <1>7, <2>1, Sizes DEF Word, SetInsts, RRRInsts, ControlInsts
  <2>3. Machine!Put(Inst.rd, Wrap(v))
    BY <1>5, <1>6, <2>1, SetRegIsPut
  <2>4. Wrap(v) = Machine!Computed(op, regs[Inst.rs1], Wrap(b))
    BY <1>7, <2>1, <2>2, SetIsIsa
  <2>5. Wrap(b) = c
    BY <1>7, <2>2, SignedWord DEF Wrap
  <2>6. Machine!Goto(pc + 4) /\ ret' = 0
    BY <1>5, <2>1, AdvanceIsGoto
  <2>7. Machine!Compute(Inst)
    BY <2>1, <2>3, <2>4, <2>5, <2>6, SameSets, Zenon DEF Machine!Compute
  <2> QED
    BY <1>8, <2>2, <2>6, <2>7
<1>11. CASE ControlBranch(Inst)
  <2>1. op \in BranchInsts /\ op \in ControlInsts /\ ret' = 0 /\ regs' = regs
    BY <1>11 DEF ControlBranch, ControlInsts
  <2>2. Condition(op, regs[Inst.rd], regs[Inst.rs1])
          <=> Machine!Taken(op, regs[Inst.rd], regs[Inst.rs1])
    BY <1>7, <2>1, BranchIsIsa
  <2>3. SetPc(IF Condition(op, regs[Inst.rd], regs[Inst.rs1])
              THEN pc + Inst.imm ELSE pc + 4)
    BY <1>7, <1>11, Zenon DEF ControlBranch
  <2>4. Machine!Branch(Inst)
    BY <2>1, <2>2, <2>3, SameSets, Zenon DEF Machine!Branch, Machine!Goto, SetPc, Wrap
  <2> QED
    BY <1>8, <2>1, <2>4
<1>12. CASE ControlJump(Inst)
  <2>1. /\ op \in {"JAL", "JALR"} /\ op \in ControlInsts /\ ret' = 0
        /\ SetReg(Inst.rd, pc + 4) /\ SetPc(JumpTarget(Inst))
    BY <1>7, <1>12 DEF ControlJump, ControlInsts
  <2>2. Machine!Put(Inst.rd, (pc + 4) % U64)
    BY <1>5, <1>6, <2>1, SetRegIsPut DEF Wrap
  <2>3. CASE op = "JAL"
    <3>1. Machine!Goto(pc + Inst.imm)
      BY <1>7, <2>1, <2>3, Zenon DEF JumpTarget, SetPc, Wrap, Machine!Goto
    <3>2. Machine!Jump(Inst)
      BY <2>2, <2>3, <3>1, Zenon DEF Machine!Jump
    <3> QED
      BY <1>8, <2>1, <3>2
  <2>4. CASE op = "JALR"
    <3> DEFINE t == (regs[Inst.rs1] + Inst.imm) % U64
    <3>1. t \in Int
      <4>1. regs[Inst.rs1] + Inst.imm \in Int
        BY <1>6, <1>7, Sizes DEF Word
      <4> QED
        BY <4>1, Sizes
    <3>2. JumpTarget(Inst) = t - (t % 2)
      BY <1>7, <2>4, Zenon DEF JumpTarget, Wrap
    <3>3. t - (t % 2) = 2 * Machine!Half(t)
      BY <3>1, EvenTarget
    <3>4. Machine!Goto(2 * Machine!Half(t))
      BY <2>1, <3>2, <3>3, Zenon DEF SetPc, Wrap, Machine!Goto
    <3>5. Machine!Jump(Inst)
      BY <2>2, <2>4, <3>4, Zenon DEF Machine!Jump
    <3> QED
      BY <1>8, <2>1, <3>5
  <2> QED
    BY <2>1, <2>3, <2>4
<1>13. CASE ControlAuipc(Inst)
  <2>1. /\ op = "AUIPC" /\ op \in ControlInsts /\ Advance
        /\ SetReg(Inst.rd, pc + Inst.imm * 2 ^ UpperShift)
    BY <1>7, <1>13 DEF ControlAuipc, ControlInsts
  <2>2. Machine!Put(Inst.rd, (pc + Machine!Upper(Inst.imm)) % U64)
    <3>1. Wrap(pc + Inst.imm * 2 ^ UpperShift) = (pc + Machine!Upper(Inst.imm)) % U64
      BY <1>6, <1>7, <2>1, UpperIsIsa
    <3>2. Machine!Put(Inst.rd, Wrap(pc + Inst.imm * 2 ^ UpperShift))
      BY <1>5, <1>6, <2>1, SetRegIsPut
    <3> QED
      BY <3>1, <3>2, Zenon
  <2>3. Machine!Goto(pc + 4) /\ ret' = 0
    BY <1>5, <2>1, AdvanceIsGoto
  <2>4. Machine!LoadUpper(Inst)
    BY <2>1, <2>2, <2>3, Zenon DEF Machine!LoadUpper
  <2> QED
    BY <1>8, <2>1, <2>3, <2>4
<1> QED
  BY <1>1, <1>9, <1>10, <1>11, <1>12, <1>13 DEF ControlFlowOps

-----------------------------------------------------------------------------
\* The initial states are the ISA's.
LEMMA InitIsIsa == Init => Machine!Init
<1> SUFFICES ASSUME Init PROVE Machine!Init
  OBVIOUS
<1>1. stage = "fetch" /\ num_cache_accesses = 0 /\ RegistersInit(cfg.entry_address)
  BY DEF Init, CacheInit
<1>2. \A a \in DOMAIN Bytes : Bytes[a] = 0
  <2>1. ram = [k \in 0 .. size - 1 |-> 0]
    BY DEF Init, MemoryInit
  <2>2. cfg.instr_upper \in Nat /\ size \in Nat
    BY Sizes, InitInv DEF IInv, TypeOK, RegistersTypeOK, MemoryTypeOK, Configuration, Word
  <2> QED
    BY <2>1, <2>2 DEF Bytes
<1>3. Cause = Machine!NoException
  BY <1>1, RunningIsCause, SameSets
<1> QED
  BY <1>1, <1>2, <1>3 DEF Machine!Init, RegistersInit

\* Every step of the emulator from a conforming state is a step of the ISA or
\* changes nothing the ISA can see.
LEMMA StepIsIsa ==
  ASSUME IInv, PcStands, Conforms, [Next]_processorVars PROVE [Machine!Next]_Machine!vars
<1>1. CASE CallRegOps
  BY <1>1, RegOpsStep
<1>2. CASE CallMemOps
  BY <1>2, MemOpsStep
<1>3. CASE CallControlFlowOps
  BY <1>3, ControlFlowOpsStep
<1>4. CASE Fetch \/ DecodeBeyondArray \/ Report \/ PrintState \/ UNCHANGED processorVars
  BY <1>4, LoopStepsStutter
<1> QED
  BY <1>1, <1>2, <1>3, <1>4 DEF Next

\* The emulator implements RV64I as long as it stays where the two are known to
\* agree: whatever the program, the header and the host, each instruction takes
\* effect exactly once, in one handler, completely, and with the result of the
\* ISA; no run differs from the ISA in any other way than those Conforms names.
THEOREM ConformingRunsImplementISA == Spec /\ []Conforms => ImplementsISA
<1>1. Init => Machine!Init
  BY InitIsIsa
<1>2. IInv /\ PcStands /\ Conforms /\ [Next]_processorVars => [Machine!Next]_Machine!vars
  BY StepIsIsa
<1> QED
  BY <1>1, <1>2, ProcessorInvariant, PcStandsInvariant, PTL
  DEF Spec, ImplementsISA, Machine!Spec

-----------------------------------------------------------------------------
\* The pc is an unsigned int and an address of an instruction.
PcAligned == pc < U32 /\ (pc - cfg.instr_lower) % 4 = 0

StaticInv == StaticallyConforms /\ PcAligned

\* The next instruction is at an address of the same kind.
LEMMA NextIsAligned ==
  ASSUME RegistersTypeOK, StaticInv, PcInRange, SetPc(GetPc + 4), cfg' = cfg
  PROVE  PcAligned'
<1> DEFINE l == cfg.instr_lower
<1>1. /\ pc \in Nat /\ l \in Nat /\ cfg.instr_upper \in Nat /\ U32 \in Nat \ {0}
      /\ U64 \in Nat \ {0} /\ U32 <= U64 /\ pc < U32 /\ (pc - l) % 4 = 0
  BY WordSizes DEF RegistersTypeOK, Configuration, Word, StaticInv, PcAligned
<1>2. GetPc = pc
  BY AdvanceIsGoto DEF TypeOK, StaticInv, PcAligned
<1>3. pc < cfg.instr_upper /\ cfg.instr_upper + 4 <= U32
  BY <1>2 DEF PcInRange, StaticInv, StaticallyConforms, StaticInput
<1>4. pc + 4 \in 0 .. U64 - 1 /\ pc + 4 < U32
  BY <1>1, <1>3
<1>5. pc' = pc + 4
  BY <1>1, <1>2, <1>4, OwnResidue DEF SetPc, Wrap
<1>6. ((pc + 4) - l) % 4 = 0
  BY <1>1
<1> QED
  BY <1>4, <1>5, <1>6, Zenon DEF PcAligned

\* So is the target of a transfer that conforms.
LEMMA TargetIsAligned ==
  ASSUME TypeOK, StaticInv, PcInRange, InArray,
         offset = Wrap(GetPc - cfg.instr_lower) \div 4,
         Inst.inst_no \in BranchInsts \cup {"JAL"}, SetPc(GetPc + Inst.imm), cfg' = cfg
  PROVE  PcAligned'
<1> DEFINE l == cfg.instr_lower
           d == pc - l
           m == Inst.imm
           t == pc + m
<1>1. /\ pc \in Nat /\ l \in Nat /\ U32 \in Nat \ {0} /\ U64 \in Nat \ {0} /\ U32 <= U64
      /\ pc < U32 /\ d % 4 = 0
  BY WordSizes DEF TypeOK, RegistersTypeOK, Configuration, Word, StaticInv, PcAligned
<1>2. GetPc = pc
  BY AdvanceIsGoto DEF TypeOK, StaticInv, PcAligned
<1>3. d \in 0 .. U64 - 1
  <2>1. pc < U64 /\ l <= pc
    BY <1>1, <1>2 DEF PcInRange
  <2> QED
    BY <1>1, <2>1
<1>4. Wrap(d) = d
  BY <1>1, <1>3, OwnResidue DEF Wrap
<1>5. offset = d \div 4
  BY <1>2, <1>4, Zenon
<1>6. d = 4 * offset
  BY <1>1, <1>3, <1>5
<1>7. offset + 1 \in DOMAIN instructions /\ offset \in Nat /\ m \in Int
  <2>1. Inst \in Instruction
    BY InstIsInstruction
  <2>2. m \in Int
    BY <2>1 DEF Instruction
  <2> QED
    BY <2>2 DEF InArray, TypeOK
<1>8. /\ instructions[offset + 1] = Inst
      /\ m % 4 = 0
      /\ l + 4 * ((offset + 1) - 1) + m \in 0 .. U32 - 1
  BY <1>7, Zenon DEF StaticInv, StaticallyConforms, StaticInput, Static, Inst
<1>9. t \in 0 .. U32 - 1 /\ t \in 0 .. U64 - 1
  BY <1>1, <1>6, <1>7, <1>8
<1>10. (t - l) % 4 = 0
  <2>1. t - l = d + m /\ d \in Int
    BY <1>1, <1>7
  <2> HIDE DEF d, m, t
  <2>2. (d + m) % 4 = 0
    BY <1>1, <1>7, <1>8, <2>1
  <2> QED
    BY <2>1, <2>2
<1>11. pc' = t
  BY <1>1, <1>2, <1>9, OwnResidue DEF SetPc, Wrap
<1>12. t < U32
  BY <1>1, <1>9
<1> QED
  BY <1>10, <1>11, <1>12, Zenon DEF PcAligned

\* No step changes the input.
LEMMA InputIsKept == [Next]_processorVars => UNCHANGED <<cfg, instructions>>
BY DEF Next, Fetch, DecodeBeyondArray, CallRegOps, RegOps, CallMemOps, MemOps,
       CallControlFlowOps, ControlFlowOps, Report, PrintState, processorVars

\* Every step keeps the pc aligned, in whichever handler it moves.
LEMMA StepKeepsStaticInv ==
  ASSUME IInv, PcStands, StaticInv, [Next]_processorVars PROVE StaticInv'
<1>1. UNCHANGED <<cfg, instructions>>
  BY InputIsKept
<1>2. StaticallyConforms'
  BY <1>1 DEF StaticInv, StaticallyConforms
<1>3. pc' = pc => PcAligned'
  BY <1>1 DEF StaticInv, PcAligned
<1>4. TypeOK /\ RegistersTypeOK
  BY DEF IInv, TypeOK
<1>5. PcInRange /\ SetPc(GetPc + 4) => PcAligned'
  BY <1>1, <1>4, NextIsAligned
<1>6. CASE CallRegOps
  <2>1. (SetPc(GetPc + 4) /\ PcInRange) \/ pc' = pc
    BY <1>6
    DEF CallRegOps, RegOps, RegOpsBadPc, RegOpsCompute, RegOpsPrintState, RegOpsExit,
        RegOpsUnknownSyscall, RegOpsOther, Advance, Raise, Leave
  <2> QED
    BY <1>2, <1>3, <1>5, <2>1 DEF StaticInv
<1>7. CASE CallMemOps
  <2>1. \/ pc' = pc
        \/ SetPc(GetPc + 4) /\ Inst.inst_no \in MemInsts /\ stage = "memops"
    BY <1>7
    DEF CallMemOps, MemOps, MemOpsNoMemory, MemOpsOther, MemOpsRefused, MemOpsStore,
        MemOpsLoad, MemInsts, Advance, Raise, Leave
  <2>2. Inst.inst_no \in MemInsts /\ stage = "memops" => PcInRange
    BY DEF PcStands
  <2> QED
    BY <1>2, <1>3, <1>5, <2>1, <2>2 DEF StaticInv
<1>8. CASE CallControlFlowOps
  <2>1. /\ stage = "cntlflowops" /\ InArray /\ ControlFlowOps(Inst)
        /\ Inst.inst_no # "JALR"
    <3>1. stage = "cntlflowops" /\ InArray /\ ControlFlowOps(Inst)
      BY <1>8 DEF CallControlFlowOps, IInv, InProgram
    <3>2. offset + 1 \in DOMAIN instructions
      BY <1>4, <3>1 DEF InArray, TypeOK
    <3> QED
      BY <3>1, <3>2 DEF StaticInv, StaticallyConforms, StaticInput, Static, Inst
  <2>2. Inst.inst_no \in ControlInsts =>
          PcInRange /\ offset = Wrap(GetPc - cfg.instr_lower) \div 4
    BY <2>1 DEF PcStands
  <2>3. ControlOther(Inst) => pc' = pc
    BY DEF ControlOther, Leave
  <2>4. ControlSet(Inst) \/ ControlAuipc(Inst) =>
          SetPc(GetPc + 4) /\ Inst.inst_no \in ControlInsts
    BY DEF ControlSet, ControlAuipc, Advance, ControlInsts
  <2>5. ControlBranch(Inst) =>
          /\ Inst.inst_no \in BranchInsts /\ Inst.inst_no \in ControlInsts
          /\ SetPc(GetPc + 4) \/ SetPc(GetPc + Inst.imm)
    BY DEF ControlBranch, ControlInsts
  <2>6. ControlJump(Inst) =>
          Inst.inst_no = "JAL" /\ Inst.inst_no \in ControlInsts /\ SetPc(GetPc + Inst.imm)
    BY <2>1 DEF ControlJump, JumpTarget, ControlInsts
  <2>7. Inst.inst_no \in BranchInsts \cup {"JAL"} /\ Inst.inst_no \in ControlInsts
          /\ SetPc(GetPc + Inst.imm) => PcAligned'
    BY <1>1, <1>4, <2>1, <2>2, TargetIsAligned
  <2>8. PcAligned'
    BY <1>3, <1>5, <2>1, <2>2, <2>3, <2>4, <2>5, <2>6, <2>7 DEF ControlFlowOps
  <2> QED
    BY <1>2, <2>8 DEF StaticInv
<1>9. CASE Fetch \/ DecodeBeyondArray \/ Report \/ PrintState \/ UNCHANGED processorVars
  <2>1. pc' = pc
    BY <1>9 DEF Fetch, DecodeBeyondArray, Report, PrintState, processorVars
  <2> QED
    BY <1>2, <1>3, <2>1 DEF StaticInv
<1> QED
  BY <1>6, <1>7, <1>8, <1>9 DEF Next

\* An input that conforms keeps the emulator where it agrees with the ISA.
LEMMA StaticConforms == ASSUME IInv, StaticInv PROVE Conforms
<1>1. ProgramConforms /\ HeaderConforms /\ PcConforms
  BY DEF StaticInv, StaticallyConforms, StaticInput, PcAligned, PcConforms, ProgramConforms,
         HeaderConforms
<1>2. ShiftConforms
  <2> SUFFICES ASSUME InArray PROVE KeepsSign(Inst.inst_no, GetReg(Inst.rs1), SecondOperand(Inst))
    BY DEF ShiftConforms
  <2>1. offset + 1 \in DOMAIN instructions
    BY DEF InArray, IInv, TypeOK
  <2>2. Inst.inst_no # "SRLW" /\ (Inst.inst_no = "SRLIW" => Shamt32(Inst.imm) # 0)
    BY <2>1 DEF StaticInv, StaticallyConforms, StaticInput, Static, Inst
  <2>3. Inst.inst_no = "SRLIW" => SecondOperand(Inst) = Inst.imm
    BY DEF SecondOperand, RRRInsts
  <2> QED
    BY <2>2, <2>3, Zenon DEF KeepsSign
<1> QED
  BY <1>1, <1>2 DEF Conforms

\* It is an invariant of the loop that an input that conforms does so.
LEMMA ConformingInputsConform == Spec => [](StaticallyConforms => Conforms)
<1> DEFINE Aligned == StaticallyConforms => StaticInv
<1>1. Init => Aligned
  <2> SUFFICES ASSUME Init, StaticallyConforms PROVE PcAligned
    BY DEF StaticInv
  <2>1. pc = cfg.entry_address
    BY DEF Init, RegistersInit
  <2> QED
    BY <2>1 DEF StaticallyConforms, StaticInput, PcAligned
<1>2. IInv /\ PcStands /\ Aligned /\ [Next]_processorVars => Aligned'
  <2> SUFFICES ASSUME IInv, PcStands, Aligned, [Next]_processorVars, StaticallyConforms'
               PROVE  StaticInv'
    OBVIOUS
  <2>1. StaticallyConforms
    BY InputIsKept DEF StaticallyConforms
  <2> QED
    BY <2>1, StepKeepsStaticInv
<1>3. IInv /\ Aligned => (StaticallyConforms => Conforms)
  BY StaticConforms
<1> HIDE DEF Aligned
<1> QED
  BY <1>1, <1>2, <1>3, ProcessorInvariant, PcStandsInvariant, PTL DEF Spec

\* The input stays what it was.
LEMMA ConformingInputsStay == Spec /\ StaticallyConforms => []StaticallyConforms
<1>1. StaticallyConforms /\ [Next]_processorVars => StaticallyConforms'
  BY InputIsKept DEF StaticallyConforms
<1> QED
  BY <1>1, PTL DEF Spec

\* For inputs that conform by their text alone the emulator implements RV64I,
\* whatever the instructions compute: the hypothesis of the theorem above is
\* then itself an invariant of the loop.
THEOREM ConformingInputsImplementISA == Spec /\ StaticallyConforms => ImplementsISA
BY ConformingInputsConform, ConformingInputsStay, ConformingRunsImplementISA, PTL

\* On such inputs the loop also keeps what its headers say of the pc: that it is
\* tested as it is, and that the instruction executed is the one it names.
THEOREM ConformingInputsKeepThePc == Spec => []ConformingPcIsKept
<1>1. IInv /\ (StaticallyConforms => Conforms) => ConformingPcIsKept
  <2> SUFFICES ASSUME IInv, Conforms, PcInRange
               PROVE  /\ cfg.instr_lower <= pc /\ pc < cfg.instr_upper
                      /\ stage = "regops" => cfg.instr_lower + 4 * offset = GetPc
    BY DEF ConformingPcIsKept, RangeCheckSeesThePc, ExecutesTheInstructionAtPc
  <2> DEFINE l == cfg.instr_lower
             d == pc - l
  <2>1. /\ pc \in Nat /\ l \in Nat /\ U32 \in Nat \ {0} /\ U64 \in Nat \ {0} /\ U32 <= U64
        /\ pc < U32 /\ d % 4 = 0
    BY WordSizes
    DEF IInv, TypeOK, RegistersTypeOK, Configuration, Word, Conforms, PcConforms
  <2>2. GetPc = pc
    <3>1. pc \in 0 .. U32 - 1
      BY <2>1
    <3> QED
      BY <2>1, <3>1, OwnResidue, Zenon DEF GetPc
  <2>3. l <= pc /\ pc < cfg.instr_upper
    BY <2>2 DEF PcInRange
  <2>4. d \in 0 .. U64 - 1
    BY <2>1, <2>3
  <2>5. Wrap(d) = d
    BY <2>1, <2>4, OwnResidue DEF Wrap
  <2>6. ASSUME stage = "regops" PROVE l + 4 * offset = pc
    <3>1. offset = d \div 4
      BY <2>2, <2>5, <2>6, Zenon DEF IInv, OffsetOfPc
    <3>2. d = 4 * offset
      BY <2>1, <2>4, <3>1
    <3> QED
      BY <2>1, <2>4, <3>1, <3>2
  <2> QED
    BY <2>2, <2>3, <2>6
<1> QED
  BY <1>1, ConformingInputsConform, ProcessorInvariant, PTL
=============================================================================

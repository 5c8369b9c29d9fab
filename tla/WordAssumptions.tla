--------------------------- MODULE WordAssumptions ---------------------------
(***************************************************************************)
(* What the proofs need to know of C's bitwise operators, apart from       *)
(* MachineWords because TLC has to evaluate it on every pair of words, and *)
(* the laws of exponentiation, which the provers do not have.              *)
(***************************************************************************)
EXTENDS MachineWords

ASSUME BitwiseAssumption ==
  \A a, b \in Word : BitAnd(a, b) \in Word /\ BitOr(a, b) \in Word /\ BitXor(a, b) \in Word

ASSUME PowerAssumption ==
  U8 ^ 0 = 1 /\ \A k \in 0 .. 7 : U8 ^ (k + 1) = U8 * U8 ^ k
=============================================================================

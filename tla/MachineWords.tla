---------------------------- MODULE MachineWords ----------------------------
(***************************************************************************)
(* The C integer types the emulator computes with (src/src/types.h): u64_t *)
(* for registers and addresses, s64_t, s32_t and u32_t for the casts of    *)
(* the word instructions, 8-, 16-, 32- and 64-bit accesses to the RAM.     *)
(*                                                                         *)
(* A type is its number of values.  The real widths are XBITS = 64 and     *)
(* U8 = 256; the relations between the types (a 64-bit word is eight       *)
(* bytes, an int is half a word) hold for every scale, so TLC runs with    *)
(* bytes of one or two bits and TLAPS proves for all of them.              *)
(***************************************************************************)
EXTENDS Integers

CONSTANTS
  XBITS,                \* bits of a u64_t
  U8, U16, U32, U64,    \* number of values of uint8_t, uint16_t, u32_t, u64_t
  BitAnd(_, _),            \* C's & on two u64_t
  BitOr(_, _),             \* C's |
  BitXor(_, _)             \* C's ^

ASSUME WidthAssumption ==
  /\ XBITS \in Nat \ {0} /\ XBITS % 2 = 0
  /\ U8 \in Nat \ {0, 1} /\ U8 % 2 = 0
  /\ U16 = U8 * U8
  /\ U32 = U16 * U16
  /\ U64 = U32 * U32
  /\ U64 = 2 ^ XBITS /\ U64 % XBITS = 0
  /\ \A s \in 0 .. XBITS - 1 : 2 ^ s \in s + 1 .. U64 - 1
  /\ \A k \in 0 .. 7 : U8 ^ k \in 1 .. U64 - 1

Word == 0 .. U64 - 1

\* Conversion to u64_t: every unsigned result is reduced modulo 2^64.
Wrap(v) == v % U64

\* (sN_t) v, where n is the number of values of the N-bit type.
Signed(v, n) == LET u == v % n IN IF 2 * u < n THEN u ELSE u - n

\* The shift amounts v & 0x3F and v & 0x1F.
Shamt64(v) == v % XBITS
Shamt32(v) == v % (XBITS \div 2)
=============================================================================

------------------------------ MODULE CacheSpec ------------------------------
(***************************************************************************)
(* What a direct-mapped cache promises, without lines, tags or valid bits: *)
(* a set of resident blocks of which no two are congruent modulo the       *)
(* number of sets.  An access to a resident block is a hit and changes     *)
(* nothing; any other access brings its block in at the expense of the one *)
(* resident block, if any, that competes for the same place.  Only misses  *)
(* ever evict, and they evict nothing else.                                *)
(***************************************************************************)
EXTENDS Integers

CONSTANTS
  Blocks,       \* the blocks of the address space
  MaxAccesses   \* bound on the accesses counted

VARIABLES
  sets,       \* number of sets; 0 when there is no cache
  resident,   \* the blocks in the cache
  accesses, misses

vars == <<sets, resident, accesses, misses>>

Competes(b, c) == b % sets = c % sets

Init ==
  /\ sets \in Nat
  /\ resident = {}
  /\ accesses = 0
  /\ misses = 0

Access(block) ==
  /\ sets # 0
  /\ accesses < MaxAccesses
  /\ accesses' = accesses + 1
  /\ sets' = sets
  /\ \/ block \in resident /\ UNCHANGED <<resident, misses>>
     \/ /\ block \notin resident
        /\ resident' = {c \in resident : ~Competes(block, c)} \cup {block}
        /\ misses' = misses + 1

Next == \E block \in Blocks : Access(block)
Spec == Init /\ [][Next]_vars
=============================================================================

----------------------------- MODULE CacheLemmas -----------------------------
(***************************************************************************)
(* What one call of cache_access preserves, for the proofs about the cache *)
(* alone and for those about the processor that calls it.                  *)
(***************************************************************************)
EXTENDS Cache, TLAPS

CacheInv == CacheTypeOK /\ TagsInOwnSet

\* A block maps to a set that exists (cache_access, set_index).
LEMMA SetExists ==
  ASSUME NEW block \in Nat, num_sets \in Nat, num_sets > 0
  PROVE  SetOf(block) \in 0 .. num_sets - 1
BY DEF SetOf

\* One call of cache_access keeps the invariant, whatever component makes it.
LEMMA AccessKeepsInv ==
  ASSUME CacheInv, NEW addr, BlockOf(addr) \in Nat, CacheAccess(addr)
  PROVE  CacheInv'
<1> DEFINE block == BlockOf(addr)
           s     == SetOf(block)
<1>1. CASE CacheMissing(addr)
  BY <1>1 DEF CacheInv, CacheMissing, cacheVars, CacheTypeOK, TagsInOwnSet, SetOf
<1>2. CASE CacheHit(addr)
  <2>1. CacheTypeOK'
    BY <1>2, CacheAssumption DEF CacheInv, CacheHit, CacheTypeOK
  <2>2. TagsInOwnSet'
    BY <1>2 DEF CacheInv, CacheHit, TagsInOwnSet, SetOf
  <2> QED
    BY <2>1, <2>2 DEF CacheInv
<1>3. CASE CacheMiss(addr)
  <2>1. s \in 0 .. num_sets - 1
    BY <1>3, SetExists DEF CacheInv, CacheMiss, CacheTypeOK
  <2>2. lines' = [lines EXCEPT ![s] = [valid |-> TRUE, tag |-> block]]
    BY <1>3 DEF CacheMiss
  <2>3. CacheTypeOK'
    <3>1. lines' \in [0 .. num_sets - 1 -> [valid : BOOLEAN, tag : Nat]]
      BY <2>1, <2>2 DEF CacheInv, CacheTypeOK
    <3> QED
      BY <3>1, <1>3, CacheAssumption DEF CacheInv, CacheMiss, CacheTypeOK
  <2>4. TagsInOwnSet'
    <3> SUFFICES ASSUME NEW t \in 0 .. num_sets - 1, lines'[t].valid
                 PROVE  SetOf(lines'[t].tag) = t
      BY <1>3 DEF TagsInOwnSet, CacheMiss, SetOf
    <3>1. CASE t = s
      BY <3>1, <2>1, <2>2 DEF CacheInv, CacheTypeOK
    <3>2. CASE t # s
      BY <3>2, <2>1, <2>2 DEF CacheInv, CacheTypeOK, TagsInOwnSet
    <3> QED
      BY <3>1, <3>2
  <2> QED
    BY <2>3, <2>4 DEF CacheInv
<1> QED
  BY <1>1, <1>2, <1>3 DEF CacheAccess
=============================================================================

-------------------------------- MODULE Cache --------------------------------
(***************************************************************************)
(* The direct-mapped cache model of cache.c.  It holds no data: it decides *)
(* for every load and store whether the 64-byte block it starts in would   *)
(* have been in the cache, and counts.                                     *)
(***************************************************************************)
EXTENDS Integers

CONSTANTS
  BlockSize,      \* bytes per block (64)
  MaxAccesses     \* bound: accesses counted before the model stops

ASSUME CacheAssumption == BlockSize \in Nat \ {0} /\ MaxAccesses \in Nat

VARIABLES
  cache_ok,            \* cache_allocate did not return NULL
  num_sets,            \* c->num_sets
  lines,               \* c->lines: one line per set
  num_cache_accesses,  \* statistics counters
  num_cache_misses

cacheVars == <<cache_ok, num_sets, lines, num_cache_accesses, num_cache_misses>>

EmptyLine == [valid |-> FALSE, tag |-> 0]

\* cache_allocate(num_cache_lines, num_sets): it fails for no sets at all, or
\* when malloc or calloc fails (ok); a num_cache_lines that differs from
\* num_sets is reported and otherwise ignored.  Without a structure,
\* cache_statistics answers zeroes.
CacheInit(sets, ok) ==
  /\ num_sets = sets
  /\ cache_ok = (ok /\ sets # 0)
  /\ lines = [s \in 0 .. sets - 1 |-> EmptyLine]
  /\ num_cache_accesses = 0
  /\ num_cache_misses = 0

\* Bugs that the checks are tried on are defined beside what they replace.
HalfBlockOf(addr) == addr \div (BlockSize \div 2)   \* bug: 32-byte blocks
BlockOf(addr) == addr \div BlockSize

HighSetOf(block) == (block \div 2) % num_sets   \* bug: index from the wrong bits
SetOf(block)     == block % num_sets

ResidentIfTagged(block) == lines[SetOf(block)].tag = block   \* bug: valid unread
ResidentIfValid(block) == lines[SetOf(block)].valid          \* bug: tag unread
Resident(block) ==
  lines[SetOf(block)].valid /\ lines[SetOf(block)].tag = block

CacheMissing(addr) == ~cache_ok /\ UNCHANGED cacheVars

CacheHit(addr) ==
  /\ cache_ok
  /\ num_cache_accesses < MaxAccesses
  /\ Resident(BlockOf(addr))
  /\ num_cache_accesses' = num_cache_accesses + 1
  /\ UNCHANGED <<cache_ok, num_sets, lines, num_cache_misses>>

\* Bug: the access is counted on the hit path only.
CacheMissUncounted(addr) ==
  /\ cache_ok
  /\ ~Resident(BlockOf(addr))
  /\ num_cache_misses < MaxAccesses
  /\ num_cache_misses' = num_cache_misses + 1
  /\ lines' = [lines EXCEPT ![SetOf(BlockOf(addr))] =
                 [valid |-> TRUE, tag |-> BlockOf(addr)]]
  /\ UNCHANGED <<cache_ok, num_sets, num_cache_accesses>>

\* Bug: the line keeps the address instead of the block.
CacheMissRawTag(addr) ==
  /\ cache_ok
  /\ num_cache_accesses < MaxAccesses
  /\ ~Resident(BlockOf(addr))
  /\ num_cache_accesses' = num_cache_accesses + 1
  /\ num_cache_misses' = num_cache_misses + 1
  /\ lines' = [lines EXCEPT ![SetOf(BlockOf(addr))] = [valid |-> TRUE, tag |-> addr]]
  /\ UNCHANGED <<cache_ok, num_sets>>

CacheMiss(addr) ==
  /\ cache_ok
  /\ num_cache_accesses < MaxAccesses
  /\ ~Resident(BlockOf(addr))
  /\ num_cache_accesses' = num_cache_accesses + 1
  /\ num_cache_misses' = num_cache_misses + 1
  /\ lines' = [lines EXCEPT ![SetOf(BlockOf(addr))] =
                 [valid |-> TRUE, tag |-> BlockOf(addr)]]
  /\ UNCHANGED <<cache_ok, num_sets>>

\* cache_access(c, addr)
CacheAccess(addr) == CacheMissing(addr) \/ CacheHit(addr) \/ CacheMiss(addr)

-----------------------------------------------------------------------------
\* Every line has the shape of struct cache_line and the counters stay within
\* the bound: no line exists outside the sets that were allocated.
CacheTypeOK ==
  /\ cache_ok \in BOOLEAN
  /\ num_sets \in Nat
  /\ cache_ok => num_sets > 0
  /\ lines \in [0 .. num_sets - 1 -> [valid : BOOLEAN, tag : Nat]]
  /\ num_cache_accesses \in 0 .. MaxAccesses
  /\ num_cache_misses \in 0 .. num_cache_accesses

\* A line only ever holds a block of its own set, so that a block can be in
\* one place only and comparing one tag decides whether it is resident
\* (cache_access, set_index and the tag comparison).
TagsInOwnSet ==
  \A s \in 0 .. num_sets - 1 : lines[s].valid => SetOf(lines[s].tag) = s
=============================================================================

---------------------------- MODULE CacheHistory ----------------------------
(***************************************************************************)
(* The cache of Cache.tla driven by any sequence of accesses, with the     *)
(* sequence kept in a history variable that no action reads, so that the   *)
(* counters can be compared with what they should be for that sequence.    *)
(***************************************************************************)
EXTENDS Cache, Sequences, FiniteSets

CONSTANTS
  Addresses,   \* the addresses accessed
  SetCounts    \* the --cache-values the run tries

ASSUME DriverAssumption == Addresses \subseteq Nat /\ SetCounts \subseteq Nat

VARIABLE trace   \* blocks accessed so far, oldest first

vars == <<cacheVars, trace>>

Init ==
  /\ \E sets \in SetCounts, ok \in BOOLEAN : CacheInit(sets, ok)
  /\ trace = <<>>

Access(addr) ==
  /\ Len(trace) < MaxAccesses
  /\ CacheAccess(addr)
  /\ trace' = Append(trace, BlockOf(addr))

Next == \E addr \in Addresses : Access(addr)
Spec == Init /\ [][Next]_vars

-----------------------------------------------------------------------------
\* Access i of the trace finds its block in a cache of n sets: the block was
\* accessed before, and nothing congruent to it modulo n has been since.
HitsIn(i, n) ==
  \E j \in 1 .. i - 1 :
    /\ trace[j] = trace[i]
    /\ \A k \in j + 1 .. i - 1 : trace[k] % n = trace[i] % n => trace[k] = trace[i]

MissesIn(n) == Cardinality({i \in DOMAIN trace : ~HitsIn(i, n)})

\* The statistics printed at the end are those of a direct-mapped cache of
\* num_sets sets for exactly the accesses made, whatever their order: no
\* access is lost, counted twice or compared with a stale tag
\* (cache_access, cache_statistics).
StatisticsOfTrace ==
  IF cache_ok
  THEN num_cache_accesses = Len(trace) /\ num_cache_misses = MissesIn(num_sets)
  ELSE num_cache_accesses = 0 /\ num_cache_misses = 0

\* Replacing the cache by one with a multiple of its sets never costs a miss,
\* on any sequence of accesses: the inclusion the tests rely on when they run
\* the same programs with 8 sets and with 4 (tests/examples/v1 and v2).
MoreSetsNeverMissMore ==
  cache_ok => \A n \in SetCounts \ {0, num_sets} :
    /\ n % num_sets = 0 => MissesIn(n) <= num_cache_misses
    /\ num_sets % n = 0 => num_cache_misses <= MissesIn(n)

\* The cache implements the promise of CacheSpec: the resident blocks are the
\* tags of the valid lines, and a cache that was not allocated is one of no
\* sets.
Promise == INSTANCE CacheSpec WITH
  Blocks   <- {BlockOf(addr) : addr \in Addresses},
  sets     <- IF cache_ok THEN num_sets ELSE 0,
  resident <- {lines[s].tag : s \in {t \in DOMAIN lines : lines[t].valid}},
  accesses <- num_cache_accesses,
  misses   <- num_cache_misses

RefinesPromise == Promise!Spec
=============================================================================

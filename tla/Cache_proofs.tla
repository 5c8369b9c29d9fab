---------------------------- MODULE Cache_proofs ----------------------------
(***************************************************************************)
(* Proofs about the cache for every number of sets, every block size and   *)
(* every sequence of accesses.  The inductive invariant is CacheTypeOK and *)
(* TagsInOwnSet; the second is what makes "the tag in the line of my set"  *)
(* and "in the cache" the same thing, on which the refinement rests.  For  *)
(* the counters it is strengthened by what the lines know of the accesses  *)
(* made: a valid line holds the last block accessed in its set.            *)
(***************************************************************************)
EXTENDS CacheHistory, CacheLemmas, Residues, FiniteSetTheorems, TLAPS

\* The block of an address (cache_access, block_addr_tag).
LEMMA BlockIsNat ==
  ASSUME NEW addr \in Addresses
  PROVE  BlockOf(addr) \in Nat
BY CacheAssumption, DriverAssumption DEF BlockOf

\* A cache that cache_allocate has just returned, or refused, is consistent.
LEMMA CacheInitInv == Init => CacheInv
<1> SUFFICES ASSUME Init PROVE CacheInv
  OBVIOUS
<1>1. PICK sets \in SetCounts, ok \in BOOLEAN : CacheInit(sets, ok)
  BY DEF Init
<1>2. sets \in Nat
  BY DriverAssumption
<1>3. CacheTypeOK
  <2>1. cache_ok \in BOOLEAN /\ (cache_ok => sets # 0)
    BY <1>1, Zenon DEF CacheInit
  <2>2. num_sets = sets /\ num_cache_accesses = 0 /\ num_cache_misses = 0
    BY <1>1 DEF CacheInit
  <2>3. lines \in [0 .. num_sets - 1 -> [valid : BOOLEAN, tag : Nat]]
    BY <1>1, <2>2 DEF CacheInit, EmptyLine
  <2> QED
    BY <1>2, <2>1, <2>2, <2>3, CacheAssumption DEF CacheTypeOK
<1>4. TagsInOwnSet
  BY <1>1, <1>2 DEF CacheInit, TagsInOwnSet, EmptyLine
<1> QED
  BY <1>3, <1>4 DEF CacheInv

\* Every call of cache_access keeps it consistent.
LEMMA CacheStepInv == CacheInv /\ [Next]_vars => CacheInv'
<1> SUFFICES ASSUME CacheInv, [Next]_vars PROVE CacheInv'
  OBVIOUS
<1>1. CASE Next
  <2>1. PICK addr \in Addresses : Access(addr)
    BY <1>1 DEF Next
  <2> QED
    BY <2>1, BlockIsNat, AccessKeepsInv DEF Access
<1>2. CASE UNCHANGED vars
  BY <1>2 DEF vars, cacheVars, CacheInv, CacheTypeOK, TagsInOwnSet, SetOf
<1> QED
  BY <1>1, <1>2

\* The inductive invariant: after any sequence of calls of cache_access the
\* structure has its type and every valid line holds a block of its own set.
THEOREM CacheInvariant == Spec => []CacheInv
<1> QED
  BY CacheInitInv, CacheStepInv, PTL DEF Spec

\* The lines and counters always have their type: no access reaches a line
\* beyond the sets allocated, and no miss goes uncounted as an access.
THEOREM CacheTypeCorrect == Spec => []CacheTypeOK
<1>1. CacheInv => CacheTypeOK
  BY DEF CacheInv
<1> QED
  BY <1>1, CacheInvariant, PTL

\* A block is only ever kept in the line of its own set.
THEOREM TagsStayInOwnSet == Spec => []TagsInOwnSet
<1>1. CacheInv => TagsInOwnSet
  BY DEF CacheInv
<1> QED
  BY <1>1, CacheInvariant, PTL

-----------------------------------------------------------------------------
\* The set of resident blocks of the refinement mapping.
InLines == {lines[s].tag : s \in {t \in DOMAIN lines : lines[t].valid}}

\* Looking in one line decides membership in the whole cache.
LEMMA ResidentIsInLines ==
  ASSUME CacheInv, cache_ok, NEW block \in Nat
  PROVE  Resident(block) <=> block \in InLines
<1>1. SetOf(block) \in 0 .. num_sets - 1 /\ DOMAIN lines = 0 .. num_sets - 1
  BY SetExists DEF CacheInv, CacheTypeOK
<1>2. Resident(block) => block \in InLines
  BY <1>1 DEF Resident, InLines
<1>3. ASSUME block \in InLines PROVE Resident(block)
  <2>1. PICK s \in 0 .. num_sets - 1 : lines[s].valid /\ lines[s].tag = block
    BY <1>1, <1>3 DEF InLines
  <2>2. SetOf(block) = s
    BY <2>1 DEF CacheInv, TagsInOwnSet
  <2> QED
    BY <2>1, <2>2 DEF Resident
<1> QED
  BY <1>2, <1>3

\* A miss replaces exactly the resident blocks of the same set.
LEMMA MissReplacesCompetitors ==
  ASSUME CacheInv, NEW addr, BlockOf(addr) \in Nat, CacheMiss(addr)
  PROVE  InLines' = {c \in InLines : ~(BlockOf(addr) % num_sets = c % num_sets)}
                      \cup {BlockOf(addr)}
<1> DEFINE block == BlockOf(addr)
           s     == SetOf(block)
<1>1. s \in 0 .. num_sets - 1 /\ DOMAIN lines = 0 .. num_sets - 1
  BY SetExists DEF CacheInv, CacheTypeOK, CacheMiss
<1>2. /\ DOMAIN lines' = 0 .. num_sets - 1
      /\ lines'[s] = [valid |-> TRUE, tag |-> block]
      /\ \A t \in 0 .. num_sets - 1 : t # s => lines'[t] = lines[t]
  BY <1>1 DEF CacheMiss, CacheInv, CacheTypeOK
<1>3. \A t \in 0 .. num_sets - 1 : lines[t].valid => lines[t].tag % num_sets = t
  BY DEF CacheInv, TagsInOwnSet, SetOf
<1>4. s = block % num_sets
  BY DEF SetOf
<1>5. ASSUME NEW c \in InLines'
      PROVE  c = block \/ (c \in InLines /\ ~(block % num_sets = c % num_sets))
  <2>1. PICK t \in 0 .. num_sets - 1 : lines'[t].valid /\ lines'[t].tag = c
    BY <1>2, <1>5 DEF InLines
  <2> QED
    BY <2>1, <1>1, <1>2, <1>3, <1>4 DEF InLines
<1>6. ASSUME NEW c \in InLines, ~(block % num_sets = c % num_sets)
      PROVE  c \in InLines'
  <2>1. PICK t \in 0 .. num_sets - 1 : lines[t].valid /\ lines[t].tag = c
    BY <1>1 DEF InLines
  <2>2. t # s
    BY <2>1, <1>3, <1>4, <1>6
  <2> QED
    BY <2>1, <2>2, <1>2 DEF InLines
<1>7. block \in InLines'
  BY <1>1, <1>2 DEF InLines
<1> QED
  BY <1>5, <1>6, <1>7

\* A new cache maps to an empty abstract cache.
LEMMA InitRefines == Init => Promise!Init
<1> SUFFICES ASSUME Init PROVE Promise!Init
  OBVIOUS
<1>1. PICK sets \in SetCounts, ok \in BOOLEAN : CacheInit(sets, ok)
  BY DEF Init
<1>2. InLines = {}
  BY <1>1 DEF InLines, CacheInit, EmptyLine
<1>3. (IF cache_ok THEN num_sets ELSE 0) \in Nat
  BY <1>1, DriverAssumption DEF CacheInit
<1> QED
  BY <1>1, <1>2, <1>3 DEF Promise!Init, CacheInit, InLines

\* A call of cache_access is a step of the abstract cache, or changes nothing
\* it can see.
LEMMA StepRefines == CacheInv /\ [Next]_vars => [Promise!Next]_(Promise!vars)
<1> SUFFICES ASSUME CacheInv, [Next]_vars PROVE [Promise!Next]_(Promise!vars)
  OBVIOUS
<1>1. ASSUME NEW addr \in Addresses, Access(addr) PROVE [Promise!Next]_(Promise!vars)
  <2> DEFINE block == BlockOf(addr)
  <2>0. block \in Nat /\ block \in {BlockOf(a) : a \in Addresses}
    BY BlockIsNat
  <2>1. CASE CacheMissing(addr)
    BY <2>1 DEF CacheMissing, cacheVars, Promise!vars
  <2>2. CASE CacheHit(addr)
    <3>1. block \in InLines
      BY <2>0, <2>2, ResidentIsInLines DEF CacheHit
    <3>2. InLines' = InLines
      BY <2>2 DEF CacheHit, InLines
    <3>3. Promise!Access(block)
      BY <2>2, <3>1, <3>2 DEF Promise!Access, CacheHit, InLines, CacheInv, CacheTypeOK
    <3> QED
      BY <3>3, <2>0 DEF Promise!Next
  <2>3. CASE CacheMiss(addr)
    <3>1. block \notin InLines
      BY <2>0, <2>3, ResidentIsInLines DEF CacheMiss
    <3>2. InLines' = {c \in InLines : ~(block % num_sets = c % num_sets)} \cup {block}
      BY <2>0, <2>3, MissReplacesCompetitors
    <3>3. Promise!Access(block)
      BY <2>3, <3>1, <3>2
      DEF Promise!Access, Promise!Competes, CacheMiss, InLines, CacheInv, CacheTypeOK
    <3> QED
      BY <3>3, <2>0 DEF Promise!Next
  <2> QED
    BY <1>1, <2>1, <2>2, <2>3 DEF Access, CacheAccess
<1>2. CASE UNCHANGED vars
  BY <1>2 DEF vars, cacheVars, Promise!vars
<1> QED
  BY <1>1, <1>2 DEF Next

\* The cache of lines, tags and valid bits keeps the promise of CacheSpec: a
\* set of resident blocks where only a miss evicts, and evicts only what
\* competes with the block it brings in.
THEOREM CacheKeepsPromise == Spec => RefinesPromise
<1> QED
  BY InitRefines, StepRefines, CacheInvariant, PTL DEF Spec, RefinesPromise, Promise!Spec
-----------------------------------------------------------------------------
\* Line s is valid exactly if its set was accessed, and its tag is then the
\* last block accessed there.
LineKnowsTrace(s) ==
  IF lines[s].valid
  THEN \E j \in 1 .. Len(trace) :
         /\ trace[j] = lines[s].tag
         /\ \A k \in j + 1 .. Len(trace) : trace[k] % num_sets = s => trace[k] = trace[j]
  ELSE \A k \in 1 .. Len(trace) : trace[k] % num_sets # s

StatisticsInv ==
  /\ CacheInv
  /\ trace \in Seq(Nat)
  /\ cache_ok => \A s \in 0 .. num_sets - 1 : LineKnowsTrace(s)
  /\ StatisticsOfTrace

\* The accesses that miss in a cache of n sets.
MissSet(n) == {i \in DOMAIN trace : ~HitsIn(i, n)}

\* The trace with one more block.
LEMMA LongerTrace ==
  ASSUME trace \in Seq(Nat), NEW b \in Nat, trace' = Append(trace, b)
  PROVE  /\ Len(trace) \in Nat
         /\ trace' \in Seq(Nat)
         /\ Len(trace') = Len(trace) + 1
         /\ \A i \in 1 .. Len(trace) : trace'[i] = trace[i] /\ trace[i] \in Nat
         /\ trace'[Len(trace) + 1] = b
         /\ DOMAIN trace = 1 .. Len(trace)
         /\ DOMAIN trace' = 1 .. Len(trace) + 1
OBVIOUS

\* Accesses already made hit or missed whatever is accessed after them.
LEMMA PastIsSettled ==
  ASSUME trace \in Seq(Nat), NEW b \in Nat, trace' = Append(trace, b),
         NEW i \in 1 .. Len(trace), NEW n \in Nat
  PROVE  HitsIn(i, n)' <=> HitsIn(i, n)
<1>1. \A k \in 1 .. i : trace'[k] = trace[k]
  BY LongerTrace
<1>2. i \in Nat
  BY LongerTrace
<1>3. \A j \in 1 .. i - 1 : j \in 1 .. i /\ \A k \in j + 1 .. i - 1 : k \in 1 .. i
  BY <1>2
<1>4. i \in 1 .. i
  BY LongerTrace
<1> QED
  BY <1>1, <1>3, <1>4, Zenon DEF HitsIn

\* The latest access hits exactly if its block was accessed before and
\* nothing of its set has been since.
LEMMA LatestHits ==
  ASSUME trace \in Seq(Nat), NEW b \in Nat, trace' = Append(trace, b),
         NEW n \in Nat, NEW i, i = Len(trace) + 1
  PROVE  HitsIn(i, n)' <=>
           \E j \in 1 .. Len(trace) :
             /\ trace[j] = b
             /\ \A k \in j + 1 .. Len(trace) : trace[k] % n = b % n => trace[k] = b
<1>1. /\ \A k \in 1 .. Len(trace) : trace'[k] = trace[k]
      /\ trace'[i] = b
      /\ i - 1 = Len(trace)
  BY LongerTrace
<1>2. \A j \in 1 .. Len(trace) : \A k \in j + 1 .. Len(trace) : k \in 1 .. Len(trace)
  BY LongerTrace
<1> QED
  <2>1. HitsIn(i, n)' <=>
          \E j \in 1 .. i - 1 :
            /\ trace'[j] = trace'[i]
            /\ \A k \in j + 1 .. i - 1 : trace'[k] % n = trace'[i] % n => trace'[k] = trace'[i]
    BY DEF HitsIn
  <2>2. HitsIn(i, n)' <=>
          \E j \in 1 .. Len(trace) :
            /\ trace'[j] = b
            /\ \A k \in j + 1 .. Len(trace) : trace'[k] % n = b % n => trace'[k] = b
    BY <1>1, <2>1, Zenon
  <2>3. ASSUME NEW j \in 1 .. Len(trace)
        PROVE  (\A k \in j + 1 .. Len(trace) : trace'[k] % n = b % n => trace'[k] = b)
                 <=> (\A k \in j + 1 .. Len(trace) : trace[k] % n = b % n => trace[k] = b)
    <3>1. \A k \in j + 1 .. Len(trace) : trace'[k] = trace[k]
      BY <1>1, <1>2
    <3> QED
      BY <3>1
  <2> QED
    BY <1>1, <2>2, <2>3, Zenon

\* A block is found in its line exactly if a cache of so many sets would hit
\* after the accesses made so far.
LEMMA ResidentIsHit ==
  ASSUME StatisticsInv, cache_ok, NEW b \in Nat, trace' = Append(trace, b),
         NEW n \in Nat, n = num_sets, NEW i, i = Len(trace) + 1
  PROVE  Resident(b) <=> HitsIn(i, n)'
<1> DEFINE m == Len(trace)
           s == b % n
           found == \E j \in 1 .. m :
                      /\ trace[j] = b
                      /\ \A k \in j + 1 .. m : trace[k] % n = s => trace[k] = b
<1>0. n \in Nat \ {0} /\ m \in Nat /\ \A j \in 1 .. m : trace[j] \in Nat
  BY LongerTrace DEF StatisticsInv, CacheInv, CacheTypeOK
<1>1. s \in 0 .. n - 1 /\ s = SetOf(b)
  BY <1>0 DEF SetOf
<1>2. LineKnowsTrace(s)
  BY <1>1 DEF StatisticsInv
<1>3. ASSUME Resident(b) PROVE found
  BY <1>1, <1>2, <1>3 DEF Resident, LineKnowsTrace
<1>4. ASSUME found PROVE Resident(b)
  <2>1. PICK j \in 1 .. m : /\ trace[j] = b
                            /\ \A k \in j + 1 .. m : trace[k] % n = s => trace[k] = b
    BY <1>4
  <2>2. lines[s].valid
    BY <1>2, <2>1 DEF LineKnowsTrace
  <2>3. lines[s].tag % n = s
    BY <1>1, <2>2 DEF StatisticsInv, CacheInv, TagsInOwnSet, SetOf
  <2>4. PICK l \in 1 .. m : /\ trace[l] = lines[s].tag
                            /\ \A k \in l + 1 .. m : trace[k] % n = s => trace[k] = trace[l]
    BY <1>2, <2>2 DEF LineKnowsTrace
  <2>5. trace[l] = b
    <3>1. CASE l > j
      BY <1>0, <2>1, <2>3, <2>4, <3>1
    <3>2. CASE l < j
      <4>1. j \in l + 1 .. m /\ trace[j] % n = s
        BY <1>0, <2>1, <3>2
      <4> QED
        BY <2>1, <2>4, <4>1
    <3> QED
      BY <1>0, <2>1, <3>1, <3>2
  <2> QED
    BY <1>1, <2>2, <2>4, <2>5 DEF Resident
<1>5. found <=> HitsIn(i, n)'
  BY LatestHits DEF StatisticsInv
<1> QED
  BY <1>3, <1>4, <1>5

\* The misses of n sets are one more exactly if the latest access misses.
LEMMA MissesGrow ==
  ASSUME trace \in Seq(Nat), NEW b \in Nat, trace' = Append(trace, b),
         NEW n \in Nat, NEW i, i = Len(trace) + 1
  PROVE  /\ MissesIn(n) \in Nat
         /\ MissesIn(n)' = IF HitsIn(i, n)' THEN MissesIn(n) ELSE MissesIn(n) + 1
<1>1. /\ DOMAIN trace = 1 .. Len(trace) /\ Len(trace) \in Nat
      /\ DOMAIN trace' = DOMAIN trace \cup {i} /\ i \notin DOMAIN trace
  BY LongerTrace
<1>2. \A k \in DOMAIN trace : HitsIn(k, n)' <=> HitsIn(k, n)
  BY <1>1, PastIsSettled
<1>3. MissSet(n)' = MissSet(n) \cup (IF HitsIn(i, n)' THEN {} ELSE {i})
  <2>1. MissSet(n)' = {k \in DOMAIN trace' : ~HitsIn(k, n)'}
    BY DEF MissSet
  <2> QED
    BY <1>1, <1>2, <2>1, Zenon DEF MissSet
<1>4. IsFiniteSet(MissSet(n)) /\ i \notin MissSet(n)
  <2>1. IsFiniteSet(1 .. Len(trace)) /\ MissSet(n) \in SUBSET (1 .. Len(trace))
    BY <1>1, FS_Interval DEF MissSet
  <2> QED
    BY <1>1, <2>1, FS_Subset
<1>5. MissesIn(n) = Cardinality(MissSet(n)) /\ MissesIn(n)' = Cardinality(MissSet(n)')
  BY DEF MissesIn, MissSet
<1>6. MissesIn(n) \in Nat
  BY <1>4, <1>5, FS_CardinalityType
<1>7. CASE HitsIn(i, n)'
  BY <1>3, <1>5, <1>6, <1>7
<1>8. CASE ~HitsIn(i, n)'
  <2>1. MissSet(n)' = MissSet(n) \cup {i}
    BY <1>3, <1>8
  <2>2. Cardinality(MissSet(n) \cup {i}) = Cardinality(MissSet(n)) + 1
    BY <1>4, FS_AddElement
  <2> QED
    BY <1>5, <1>6, <1>8, <2>1, <2>2
<1> QED
  BY <1>7, <1>8

\* Every line goes on knowing the last block of its set: a hit accesses that
\* block again, a miss replaces it.
LEMMA LinesFollowTrace ==
  ASSUME StatisticsInv, cache_ok, NEW b \in Nat, trace' = Append(trace, b),
         num_sets' = num_sets,
         \/ Resident(b) /\ lines' = lines
         \/ lines' = [lines EXCEPT ![SetOf(b)] = [valid |-> TRUE, tag |-> b]],
         NEW s \in 0 .. num_sets - 1
  PROVE  LineKnowsTrace(s)'
<1> DEFINE m == Len(trace)
<1>0. /\ num_sets \in Nat \ {0} /\ m \in Nat /\ Len(trace') = m + 1
      /\ \A j \in 1 .. m : trace'[j] = trace[j] /\ trace[j] \in Nat
      /\ trace'[m + 1] = b
      /\ SetOf(b) = b % num_sets /\ SetOf(b) \in 0 .. num_sets - 1
      /\ lines \in [0 .. num_sets - 1 -> [valid : BOOLEAN, tag : Nat]]
  BY LongerTrace, SetExists DEF StatisticsInv, CacheInv, CacheTypeOK, SetOf
<1>1. LineKnowsTrace(s)
  BY DEF StatisticsInv
<1>2. CASE s = SetOf(b)
  <2>1. lines'[s].valid /\ lines'[s].tag = b
    BY <1>0, <1>2 DEF Resident
  <2>2. m + 1 \in 1 .. Len(trace')
    BY <1>0
  <2>3. \A k \in (m + 1) + 1 .. Len(trace') : FALSE
    BY <1>0
  <2> QED
    BY <1>0, <2>1, <2>2, <2>3 DEF LineKnowsTrace
<1>3. CASE s # SetOf(b)
  <2>1. lines'[s] = lines[s]
    BY <1>0, <1>3
  <2>2. b % num_sets # s
    BY <1>0, <1>3
  <2>3. \A k \in 1 .. m + 1 : k \in 1 .. m \/ k = m + 1
    BY <1>0
  <2>4. CASE lines[s].valid
    <3>1. PICK j \in 1 .. m :
            /\ trace[j] = lines[s].tag
            /\ \A k \in j + 1 .. m : trace[k] % num_sets = s => trace[k] = trace[j]
      BY <1>1, <2>4 DEF LineKnowsTrace
    <3>2. \A k \in j + 1 .. m + 1 : trace'[k] % num_sets = s => trace'[k] = trace'[j]
      BY <1>0, <2>2, <3>1
    <3>3. j \in 1 .. Len(trace') /\ trace'[j] = lines'[s].tag /\ lines'[s].valid
      BY <1>0, <2>1, <2>4, <3>1
    <3> QED
      BY <1>0, <3>2, <3>3 DEF LineKnowsTrace
  <2>5. CASE ~lines[s].valid
    <3>1. \A k \in 1 .. m + 1 : trace'[k] % num_sets # s
      BY <1>0, <1>1, <2>2, <2>3, <2>5 DEF LineKnowsTrace
    <3>2. ~lines'[s].valid
      BY <2>1, <2>5
    <3> QED
      BY <1>0, <3>1, <3>2 DEF LineKnowsTrace
  <2> QED
    BY <2>4, <2>5
<1> QED
  BY <1>2, <1>3

\* A new cache has counted nothing of an empty trace.
LEMMA StatisticsInit == Init => StatisticsInv
<1> SUFFICES ASSUME Init PROVE StatisticsInv
  OBVIOUS
<1>1. CacheInv
  BY CacheInitInv
<1>2. trace = <<>> /\ Len(trace) = 0 /\ trace \in Seq(Nat) /\ DOMAIN trace = {}
  BY DEF Init
<1>3. PICK sets \in SetCounts, ok \in BOOLEAN : CacheInit(sets, ok)
  BY DEF Init
<1>4. num_cache_accesses = 0 /\ num_cache_misses = 0
  BY <1>3 DEF CacheInit
<1>5. ASSUME NEW s \in 0 .. num_sets - 1 PROVE LineKnowsTrace(s)
  <2>1. ~lines[s].valid
    BY <1>3 DEF CacheInit, EmptyLine
  <2> QED
    BY <1>2, <2>1 DEF LineKnowsTrace
<1>6. MissesIn(num_sets) = 0
  <2>1. {i \in DOMAIN trace : ~HitsIn(i, num_sets)} = {}
    BY <1>2
  <2> QED
    BY <2>1, FS_EmptySet DEF MissesIn
<1>7. StatisticsOfTrace
  BY <1>2, <1>4, <1>6 DEF StatisticsOfTrace
<1> QED
  BY <1>1, <1>2, <1>5, <1>7 DEF StatisticsInv

\* A call of cache_access counts the access, and a miss exactly if a
\* direct-mapped cache misses at this place of the trace.
LEMMA AccessKeepsStatistics ==
  ASSUME StatisticsInv, NEW addr \in Addresses, Access(addr)
  PROVE  StatisticsInv'
<1> DEFINE b == BlockOf(addr)
           i == Len(trace) + 1
           n == num_sets
<1>0. /\ b \in Nat /\ trace' = Append(trace, b) /\ CacheAccess(addr)
      /\ trace \in Seq(Nat) /\ n \in Nat
  BY BlockIsNat DEF Access, StatisticsInv, CacheInv, CacheTypeOK
<1>1. CacheInv'
  BY <1>0, AccessKeepsInv DEF StatisticsInv
<1>2. trace' \in Seq(Nat) /\ Len(trace') = i /\ i \in Nat
  BY <1>0, LongerTrace
<1>3. CASE CacheMissing(addr)
  <2>1. ~cache_ok' /\ num_cache_accesses' = 0 /\ num_cache_misses' = 0
    BY <1>3 DEF CacheMissing, cacheVars, StatisticsInv, StatisticsOfTrace
  <2> QED
    BY <1>1, <1>2, <2>1 DEF StatisticsInv, StatisticsOfTrace
<1>4. CASE CacheHit(addr) \/ CacheMiss(addr)
  <2>1. /\ cache_ok /\ cache_ok' /\ num_sets' = n
        /\ num_cache_accesses' = num_cache_accesses + 1
    BY <1>4 DEF CacheHit, CacheMiss
  <2>2. num_cache_accesses = Len(trace) /\ num_cache_misses = MissesIn(n)
    BY <2>1 DEF StatisticsInv, StatisticsOfTrace
  <2>3. ASSUME NEW s \in 0 .. num_sets' - 1 PROVE LineKnowsTrace(s)'
    BY <1>0, <1>4, <2>1, LinesFollowTrace DEF CacheHit, CacheMiss
  <2>4. PICK sets \in Nat : sets = n
    BY <1>0
  <2>5. PICK now : now = i
    OBVIOUS
  <2>6. Resident(b) <=> HitsIn(now, sets)'
    BY <1>0, <2>1, <2>4, <2>5, ResidentIsHit
  <2>7. /\ MissesIn(sets) \in Nat
        /\ MissesIn(sets)' = IF HitsIn(now, sets)' THEN MissesIn(sets) ELSE MissesIn(sets) + 1
    BY <1>0, <2>5, MissesGrow
  <2>8. num_cache_misses' = IF Resident(b) THEN num_cache_misses ELSE num_cache_misses + 1
    BY <1>4 DEF CacheHit, CacheMiss
  <2>9. num_cache_misses' = MissesIn(sets)'
    BY <2>2, <2>4, <2>6, <2>7, <2>8, Zenon
  <2>10. MissesIn(num_sets)' = MissesIn(sets)'
    BY <2>1, <2>4, Zenon DEF MissesIn, HitsIn
  <2>11. StatisticsOfTrace'
    BY <1>2, <2>1, <2>2, <2>9, <2>10 DEF StatisticsOfTrace
  <2> QED
    BY <1>1, <1>2, <2>3, <2>11 DEF StatisticsInv
<1> QED
  BY <1>0, <1>3, <1>4 DEF CacheAccess

\* The inductive invariant behind the statistics.
THEOREM StatisticsInvariant == Spec => []StatisticsInv
<1>1. StatisticsInv /\ [Next]_vars => StatisticsInv'
  <2> SUFFICES ASSUME StatisticsInv, [Next]_vars PROVE StatisticsInv'
    OBVIOUS
  <2>1. CASE Next
    BY <2>1, AccessKeepsStatistics DEF Next
  <2>2. CASE UNCHANGED vars
    <3>1. CacheInv'
      BY <2>2, CacheStepInv DEF StatisticsInv
    <3>2. \A s : LineKnowsTrace(s)' <=> LineKnowsTrace(s)
      BY <2>2 DEF vars, cacheVars, LineKnowsTrace
    <3>3. StatisticsOfTrace'
      BY <2>2 DEF vars, cacheVars, StatisticsInv, StatisticsOfTrace, MissesIn, HitsIn
    <3> QED
      BY <2>2, <3>1, <3>2, <3>3 DEF vars, cacheVars, StatisticsInv
  <2> QED
    BY <2>1, <2>2
<1> QED
  BY <1>1, StatisticsInit, PTL DEF Spec

\* The printed statistics are those of a direct-mapped cache for exactly the
\* accesses made: none is lost, counted twice or compared with a stale tag.
THEOREM StatisticsAreRight == Spec => []StatisticsOfTrace
<1>1. StatisticsInv => StatisticsOfTrace
  BY DEF StatisticsInv
<1> QED
  BY <1>1, StatisticsInvariant, PTL

\* Blocks that share one of n sets share one of m sets, if m divides n: what
\* hits with m sets hits with n.
LEMMA MoreSetsKeepHits ==
  ASSUME trace \in Seq(Nat), NEW m \in Nat \ {0}, NEW n \in Nat \ {0}, n % m = 0,
         NEW i \in 1 .. Len(trace), HitsIn(i, m)
  PROVE  HitsIn(i, n)
<1>1. i \in Nat /\ \A k \in 1 .. i : trace[k] \in Nat
  OBVIOUS
<1>2. PICK j \in 1 .. i - 1 :
        /\ trace[j] = trace[i]
        /\ \A k \in j + 1 .. i - 1 : trace[k] % m = trace[i] % m => trace[k] = trace[i]
  BY DEF HitsIn
<1>3. ASSUME NEW k \in j + 1 .. i - 1, trace[k] % n = trace[i] % n
      PROVE  trace[k] % m = trace[i] % m
  <2>1. trace[k] \in Int /\ trace[i] \in Int
    BY <1>1, <1>2
  <2>2. (trace[k] % n) % m = trace[k] % m /\ (trace[i] % n) % m = trace[i] % m
    BY <2>1, ResidueOfResidue
  <2> QED
    BY <1>3, <2>2, Zenon
<1> QED
  BY <1>2, <1>3, Zenon DEF HitsIn

\* The inclusion of the misses, as numbers.
LEMMA MoreSetsFewerMisses ==
  ASSUME trace \in Seq(Nat), NEW m \in Nat \ {0}, NEW n \in Nat \ {0}, n % m = 0
  PROVE  MissesIn(n) <= MissesIn(m)
<1>1. MissSet(n) \subseteq MissSet(m) /\ MissSet(m) \subseteq 1 .. Len(trace)
  BY MoreSetsKeepHits DEF MissSet
<1>2. IsFiniteSet(MissSet(m))
  <2>1. IsFiniteSet(1 .. Len(trace))
    BY FS_Interval
  <2> QED
    BY <1>1, <2>1, FS_Subset
<1>3. Cardinality(MissSet(n)) <= Cardinality(MissSet(m))
  BY <1>1, <1>2, FS_Subset
<1> QED
  BY <1>3 DEF MissesIn, MissSet

\* A multiple of the sets never costs a miss, for every sequence of accesses
\* and every two sizes (what the tests' v1 and v2 outputs compare).
THEOREM MoreSetsAreNoWorse == Spec => []MoreSetsNeverMissMore
<1>1. StatisticsInv => MoreSetsNeverMissMore
  <2> SUFFICES ASSUME StatisticsInv, cache_ok, NEW n \in SetCounts \ {0, num_sets}
               PROVE  /\ n % num_sets = 0 => MissesIn(n) <= num_cache_misses
                      /\ num_sets % n = 0 => num_cache_misses <= MissesIn(n)
    BY DEF MoreSetsNeverMissMore
  <2>1. n \in Nat \ {0} /\ num_sets \in Nat \ {0}
    BY DriverAssumption DEF StatisticsInv, CacheInv, CacheTypeOK
  <2>2. trace \in Seq(Nat) /\ num_cache_misses = MissesIn(num_sets)
    BY DEF StatisticsInv, StatisticsOfTrace
  <2>3. ASSUME n % num_sets = 0 PROVE MissesIn(n) <= MissesIn(num_sets)
    BY <2>1, <2>2, <2>3, MoreSetsFewerMisses
  <2>4. ASSUME num_sets % n = 0 PROVE MissesIn(num_sets) <= MissesIn(n)
    BY <2>1, <2>2, <2>4, MoreSetsFewerMisses
  <2> QED
    BY <2>2, <2>3, <2>4, Zenon
<1> QED
  BY <1>1, StatisticsInvariant, PTL
=============================================================================

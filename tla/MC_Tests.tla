------------------------------ MODULE MC_Tests ------------------------------
(***************************************************************************)
(* The programs of tests/archobjs with the cache settings of the two       *)
(* directories of expected outputs, tests/examples/v1 (8 sets) and v2 (4). *)
(* Words have 16 bits, which hold every address and value that matters to  *)
(* the cache.  Left out: 41_eviction, whose memory is larger than that,    *)
(* and 53_mult_slower, which is 52_multiple with more turns of its loop.   *)
(***************************************************************************)
EXTENDS Processor, Bitwise

MCAnd(a, b) == a & b
MCOr(a, b)  == a | b
MCXor(a, b) == a ^^ b

\* 11_offset.archobj
Offset ==
  <<RI("AUIPC", 9, 1), RRI("ADDI", 9, 9, 0), RRI("ADDI", 10, 0, 8),
    ROR("LD", 10, 0, 9), RRI("ADDI", 11, 0, 42), ROR("SD", 11, 64, 9),
    RRI("ADDI", 12, 0, 68), ROR("SD", 12, 128, 9), RRI("ADDI", 17, 0, 2), Ecall>>

\* 21_hitmiss.archobj
HitMiss ==
  <<RI("LUI", 9, 1), RRI("ADDI", 9, 9, 0), RRI("ADDI", 10, 0, 1),
    RRI("ADDI", 11, 0, 2), RRI("ADDI", 12, 0, 3), ROR("SW", 10, 0, 9),
    ROR("SW", 11, 0, 9), ROR("SW", 12, 0, 9), RRI("ADDI", 17, 0, 2), Ecall>>

\* 22_interleaved.archobj
Interleaved ==
  <<RI("LUI", 9, 1), RRI("ADDI", 9, 9, 0), RRI("ADDI", 18, 9, 0),
    RRI("ADDI", 11, 0, 3), RRI("ADDI", 5, 0, 0), ROR("SW", 5, 0, 18),
    RRI("ADDI", 18, 18, 64), RRI("ADDI", 5, 5, 1), RRI("BNE", 11, 5, -12),
    RRI("ADDI", 18, 9, 0), RRI("ADDI", 5, 0, 0), ROR("LW", 5, 0, 18),
    RRI("ADDI", 18, 18, 64), RRI("ADDI", 5, 5, 1), RRI("BNE", 11, 5, -12),
    RRI("ADDI", 17, 0, 2), Ecall>>

\* 31_locality.archobj
Locality ==
  <<RI("LUI", 9, 1), RRI("ADDI", 9, 9, 0), RRI("ADDI", 10, 0, 1),
    RRI("ADDI", 11, 0, 2), RRI("ADDI", 12, 0, 3), ROR("SH", 10, 0, 9),
    ROR("SH", 11, 4, 9), ROR("SH", 12, 8, 9), RRI("ADDI", 17, 0, 2), Ecall>>

\* 51_largeset.archobj
LargeSet ==
  <<RI("LUI", 9, 1), RRI("ADDI", 9, 9, 0), RRI("ADDI", 11, 0, 8),
    RRI("ADDI", 5, 0, 0), ROR("SW", 5, 0, 9), RRI("ADDI", 9, 9, 64),
    RRI("ADDI", 5, 5, 1), RRI("BNE", 11, 5, -12), RRI("ADDI", 17, 0, 2), Ecall>>

\* 52_multiple.archobj
Multiple ==
  <<RI("LUI", 9, 1), RRI("ADDI", 9, 9, 0), RI("LUI", 18, 6699),
    RRI("ADDIW", 18, 18, 965), RRI("SLLI", 18, 18, 13),
    RRI("ADDI", 18, 18, -1347), RRI("SLLI", 18, 18, 12),
    RRI("ADDI", 18, 18, -529), RRI("SLLI", 18, 18, 12),
    RRI("ADDI", 18, 18, 18), RRI("ADDI", 10, 0, 3), RRI("ADDI", 11, 0, 8),
    RRI("ADDI", 5, 0, 0), RRI("ADDI", 6, 0, 0), RRR("ADD", 19, 0, 9),
    ROR("SD", 20, 0, 19), RRI("ADDI", 19, 19, 64), RRI("ADDI", 6, 6, 1),
    RRI("BLT", 6, 11, -12), RRI("ADDI", 5, 5, 1), RRI("BLT", 5, 10, -28),
    RRI("ADDI", 17, 0, 2), Ecall>>

\* Program, memory_sz of the header, and accesses and misses in the
\* expected outputs with 8 and with 4 sets.
Tests ==
  {<<Offset, 8192, <<3, 3>>, <<3, 3>> >>,
   <<HitMiss, 4144, <<3, 1>>, <<3, 1>> >>,
   <<Interleaved, 4352, <<6, 3>>, <<6, 3>> >>,
   <<Locality, 8192, <<3, 1>>, <<3, 1>> >>,
   <<LargeSet, 8192, <<8, 8>>, <<8, 8>> >>,
   <<Multiple, 8192, <<24, 8>>, <<24, 24>> >>}

Run(program, memory_sz, sets) ==
  [cfg |-> [instr_lower |-> 0, instr_upper |-> 4 * Len(program), entry_address |-> 0,
            memory_sz |-> memory_sz, cache_sets |-> sets,
            print_instrs |-> TRUE, print_regs |-> TRUE],
   program |-> program]

MCInputs == {Run(test[1], test[2], sets) : test \in Tests, sets \in {8, 4}}
MCHostMemory == {TRUE}

\* When a test program stops, by the exit system call and no exception, the
\* statistics printed are those of its expected output (run_tests.sh compares
\* exactly these lines).
StatisticsAsExpected ==
  stage = "stopped" =>
    /\ reports = <<"EXIT">>
    /\ \A test \in Tests : test[1] = instructions =>
         <<num_cache_accesses, num_cache_misses>>
           = IF cfg.cache_sets = 8 THEN test[3] ELSE test[4]

\* Every test program runs to its end: the loops leave through their branch
\* and the exit call stops the emulator.
TestsExit == <>(stage = "stopped" /\ e = "EXIT")
=============================================================================

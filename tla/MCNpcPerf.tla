----------------------------- MODULE MCNpcPerf -----------------------------
(* A bounded run of the performance counters. *)
EXTENDS NpcPerf, MCNpcCore

\* From address 4, in SDRAM: a load or a store (a miss), a jump (a hit) to a
\* line that evicts this one, and there a store to the CLINT or an ebreak.
PerfPrograms ==
    {Image(<<0, 0, 0, 0,   x, 5, 0, 0,   0, y, 10>>) : x \in {2, 3}, y \in {10, 12}}
=============================================================================

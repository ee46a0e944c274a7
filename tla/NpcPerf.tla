------------------------------- MODULE NpcPerf -------------------------------
(***************************************************************************)
(* The performance counters of the simulation: the events the RTL reports  *)
(* through npc_perf_event and npc_perf_commit at each clock edge, the C++  *)
(* counters they feed, and cpu_exec, which counts cycles and committed     *)
(* instructions.  print_perf_stats cross-checks the counters; here the     *)
(* checks are properties of every cycle in which cpu_exec may return.      *)
(***************************************************************************)
EXTENDS NpcCore

CONSTANT MaxCycles     \* bound on perf_cycles: the run is cut there

ASSUME PerfAssumption == MaxCycles \in Nat

VARIABLES
    miss_cycles,        \* simple_icache: cycles since the miss
    perf_inst_cycles,   \* cycles since the last commit
    perf_lsu_cycles,    \* cycles of the current load or store
    commit_flag,        \* the last cycle committed (npc_is_commit)
    ctr                 \* the C++ counters

perfVars == <<miss_cycles, perf_inst_cycles, perf_lsu_cycles, commit_flag, ctr>>

Counter == {"cycles", "insts", "decoded", "fetch", "load", "store",
            "load_data", "store_done", "hit", "miss", "miss_lat",
            "miss_lat_sum", "wait_req", "wait_rsp", "wait_ld", "wait_st",
            "cat_cycles", "lat_sum", "lat_count"}

PerfInit ==
    /\ miss_cycles = 0
    /\ perf_inst_cycles = 0
    /\ perf_lsu_cycles = 0
    /\ commit_flag = FALSE
    /\ ctr = [c \in Counter |-> 0]

InMem == state \in {"MEM_REQ", "MEM_RSP"}
Accepted == ifu_hsk_ar

\* Mutation: every beat of a refill is reported as its end.
MissDoneEveryBeat == ic_mem_rready /\ arb_state = "GRANT_IFU" /\ arb_rvalid

MissDone == /\ ic_state = "MISS_R" /\ ic_mem_rready
            /\ arb_state = "GRANT_IFU" /\ arb_rvalid
            /\ Cacheable(req_addr) => arb_rlast \/ fill_word = LAST_WORD

(***************************************************************************)
(* How much a cycle adds to a counter.                                     *)
(***************************************************************************)
Once(event) == IF event THEN 1 ELSE 0

Added(c) ==
    CASE c = "cycles" -> 1
      [] c = "insts" -> Once(commit)
      [] c = "decoded" -> Once(commit)
      [] c = "fetch" -> Once(ifu_hsk_r)
      [] c = "load" -> Once(commit /\ op_load)
      [] c = "store" -> Once(commit /\ op_store)
      [] c = "load_data" -> Once(lsu_hsk_r /\ op_load)
      [] c = "store_done" -> Once(lsu_hsk_b /\ op_store)
      [] c = "hit" -> Once(Accepted /\ Hit(pc))
      [] c = "miss" -> Once(Accepted /\ ~Hit(pc))
      [] c = "miss_lat" -> Once(MissDone)
      [] c = "miss_lat_sum" -> IF MissDone THEN miss_cycles ELSE 0
      [] c = "wait_req" -> Once(~ifu_hsk_r /\ state = "IF_REQ")
      [] c = "wait_rsp" -> Once(~ifu_hsk_r /\ state = "IF_RSP")
      [] c = "wait_ld" -> Once(~ifu_hsk_r /\ InMem /\ op_load)
      [] c = "wait_st" -> Once(~ifu_hsk_r /\ InMem /\ ~op_load)
      [] c = "cat_cycles" -> IF commit THEN perf_inst_cycles + 1 ELSE 0
      [] c = "lat_sum" -> IF InMem /\ commit_mem THEN perf_lsu_cycles + 1 ELSE 0
      [] c = "lat_count" -> Once(InMem /\ commit_mem)

\* Mutation: the cycle of the miss itself is not counted.
MissCyclesFromZero ==
    miss_cycles' = CASE Accepted /\ ~Hit(pc) -> 0
                     [] ic_state \in {"MISS_AR", "MISS_R"} -> miss_cycles + 1
                     [] OTHER -> miss_cycles

MissCyclesEdge ==
    miss_cycles' = CASE Accepted /\ ~Hit(pc) -> 1
                     [] ic_state \in {"MISS_AR", "MISS_R"} -> miss_cycles + 1
                     [] OTHER -> miss_cycles

InstCyclesEdge == perf_inst_cycles' = IF commit THEN 0 ELSE perf_inst_cycles + 1

LsuCyclesEdge ==
    perf_lsu_cycles' = IF InMem /\ ~commit_mem THEN perf_lsu_cycles + 1 ELSE 0

\* One turn of cpu_exec's loop.
PerfTick ==
    /\ ctr["cycles"] < MaxCycles
    /\ Tick
    /\ MissCyclesEdge /\ InstCyclesEdge /\ LsuCyclesEdge
    /\ commit_flag' = commit
    /\ ctr' = [c \in Counter |-> ctr[c] + Added(c)]

PerfStop == (finish \/ ctr["cycles"] = MaxCycles) /\ UNCHANGED <<vars, perfVars>>

PerfSpec == Init /\ PerfInit /\ [][PerfTick \/ PerfStop]_<<vars, perfVars>>

-----------------------------------------------------------------------------

(***************************************************************************)
(* print_perf_stats' consistency checks say PASS whenever cpu_exec returns *)
(* to the debugger or the simulation ends: right after a commit, or before *)
(* the first cycle.  Between two commits most of them are false.           *)
(***************************************************************************)
ConsistencyChecks ==
    commit_flag \/ ctr["cycles"] = 0 =>
        /\ ctr["decoded"] = ctr["insts"]
        /\ ctr["fetch"] = ctr["insts"]
        /\ ctr["hit"] + ctr["miss"] = ctr["fetch"]
        /\ ctr["miss_lat"] = ctr["miss"]
        /\ ctr["load"] = ctr["load_data"]
        /\ ctr["store"] = ctr["store_done"]

(***************************************************************************)
(* Every simulated cycle is accounted for exactly once: as the fetch of an *)
(* instruction or as one kind of IFU wait, and as part of the cycles of    *)
(* exactly one committed instruction or of the one in flight.              *)
(***************************************************************************)
CyclesAccounted ==
    /\ ctr["cycles"] = ctr["fetch"] + ctr["wait_req"] + ctr["wait_rsp"]
                       + ctr["wait_ld"] + ctr["wait_st"]
    /\ ctr["cycles"] = ctr["cat_cycles"] + perf_inst_cycles

(***************************************************************************)
(* The LSU latencies and the cycles the IFU waits for the LSU are the same *)
(* cycles, counted at two places.                                          *)
(***************************************************************************)
LsuLatencyAccounted ==
    ctr["lat_sum"] + perf_lsu_cycles = ctr["wait_ld"] + ctr["wait_st"]

(***************************************************************************)
(* The I-cache's total miss time (TMT) is exactly the time the IFU waits   *)
(* for responses, measured at the other end of the port: a hit costs no    *)
(* waiting cycle, and no cycle of a miss is charged twice or not at all.   *)
(***************************************************************************)
MissTimeAccounted ==
    ctr["wait_rsp"] = ctr["miss_lat_sum"]
        + (IF ic_state \in {"MISS_AR", "MISS_R"} THEN miss_cycles - 1 ELSE 0)

(***************************************************************************)
(* The times that print_perf_stats prints are those that have passed: the  *)
(* cycles, the latencies of the LSU and the total miss time of the I-cache *)
(* agree with what is counted elsewhere, in every cycle.                   *)
(***************************************************************************)
TimeAccounted == CyclesAccounted /\ LsuLatencyAccounted /\ MissTimeAccounted

-----------------------------------------------------------------------------

\* The counters are numbers.
PerfTypeOK ==
    /\ miss_cycles \in Nat /\ perf_inst_cycles \in Nat /\ perf_lsu_cycles \in Nat
    /\ commit_flag \in BOOLEAN
    /\ ctr \in [Counter -> Nat]

Missing == ic_state \in {"MISS_AR", "MISS_R"}

(***************************************************************************)
(* The inductive invariant: the checks as they stand in any cycle, with    *)
(* the instruction in flight counted by some counters and not by others.   *)
(***************************************************************************)
PerfInv ==
    /\ ctr["decoded"] = ctr["insts"]
    /\ ctr["load"] = ctr["load_data"]
    /\ ctr["store"] = ctr["store_done"]
    /\ ctr["fetch"] = ctr["insts"] + Once(InMem)
    /\ ctr["hit"] + ctr["miss"] = ctr["fetch"] + Once(state = "IF_RSP")
    /\ ctr["miss"] = ctr["miss_lat"] + Once(Missing)
    /\ commit_flag \/ ctr["cycles"] = 0 => state = "IF_REQ"
    /\ ~InMem => perf_lsu_cycles = 0
    /\ TimeAccounted

=============================================================================

--------------------------- MODULE NpcPerf_proofs ---------------------------
(***************************************************************************)
(* The performance counters agree with each other, for every program, bus  *)
(* timing and length of the simulation.                                    *)
(***************************************************************************)
EXTENDS NpcPerf, NpcCore_proofs

(***************************************************************************)
(* A turn of cpu_exec's loop, counter by counter.                          *)
(***************************************************************************)
LEMMA Counts ==
    ASSUME PerfTick
    PROVE  /\ ctr'["cycles"] = ctr["cycles"] + 1
           /\ ctr'["insts"] = ctr["insts"] + Once(commit)
           /\ ctr'["decoded"] = ctr["decoded"] + Once(commit)
           /\ ctr'["fetch"] = ctr["fetch"] + Once(ifu_hsk_r)
           /\ ctr'["load"] = ctr["load"] + Once(commit /\ op_load)
           /\ ctr'["store"] = ctr["store"] + Once(commit /\ op_store)
           /\ ctr'["load_data"] = ctr["load_data"] + Once(lsu_hsk_r /\ op_load)
           /\ ctr'["store_done"] = ctr["store_done"] + Once(lsu_hsk_b /\ op_store)
           /\ ctr'["hit"] = ctr["hit"] + Once(Accepted /\ Hit(pc))
           /\ ctr'["miss"] = ctr["miss"] + Once(Accepted /\ ~Hit(pc))
           /\ ctr'["miss_lat"] = ctr["miss_lat"] + Once(MissDone)
           /\ ctr'["miss_lat_sum"] =
                 ctr["miss_lat_sum"] + (IF MissDone THEN miss_cycles ELSE 0)
           /\ ctr'["wait_req"] = ctr["wait_req"] + Once(~ifu_hsk_r /\ state = "IF_REQ")
           /\ ctr'["wait_rsp"] = ctr["wait_rsp"] + Once(~ifu_hsk_r /\ state = "IF_RSP")
           /\ ctr'["wait_ld"] = ctr["wait_ld"] + Once(~ifu_hsk_r /\ InMem /\ op_load)
           /\ ctr'["wait_st"] = ctr["wait_st"] + Once(~ifu_hsk_r /\ InMem /\ ~op_load)
           /\ ctr'["cat_cycles"] =
                 ctr["cat_cycles"] + (IF commit THEN perf_inst_cycles + 1 ELSE 0)
           /\ ctr'["lat_sum"] = ctr["lat_sum"]
                 + (IF InMem /\ commit_mem THEN perf_lsu_cycles + 1 ELSE 0)
  BY DEF PerfTick, Counter, Added

(***************************************************************************)
(* The counters stay numbers.                                              *)
(***************************************************************************)
LEMMA PerfType ==
    ASSUME PerfTypeOK, PerfTick
    PROVE  PerfTypeOK'
  <1>1. ASSUME NEW c \in Counter PROVE Added(c) \in Nat
    BY DEF Counter, Added, Once, PerfTypeOK
  <1>2. ctr' \in [Counter -> Nat]
    BY <1>1 DEF PerfTick, PerfTypeOK
  <1>3. miss_cycles' \in Nat /\ perf_inst_cycles' \in Nat /\ perf_lsu_cycles' \in Nat
    BY DEF PerfTick, PerfTypeOK, MissCyclesEdge, InstCyclesEdge, LsuCyclesEdge
  <1>4. commit_flag' \in BOOLEAN
    BY DEF PerfTick, commit, commit_non_mem, commit_mem, ifu_hsk_r, lsu_hsk_r, lsu_hsk_b
  <1> QED
    BY <1>2, <1>3, <1>4 DEF PerfTypeOK

(***************************************************************************)
(* The stages of the core and of the I-cache in terms of the events that   *)
(* are counted: every stage is entered and left with one event of its own. *)
(***************************************************************************)
LEMMA Stages ==
    ASSUME TypeOK, BusInv, Tick
    PROVE  /\ commit => state' = "IF_REQ"
           /\ InMem => ~ifu_hsk_r /\ (commit <=> commit_mem) /\ (InMem' <=> ~commit)
           /\ ~InMem => /\ InMem' <=> ifu_hsk_r /\ ~commit
                        /\ commit => ifu_hsk_r
                        /\ ~commit_mem
           /\ ifu_hsk_r => state = "IF_RSP" /\ state' # "IF_RSP"
           /\ Accepted <=> state = "IF_REQ"
           /\ state' = "IF_RSP" <=> Accepted \/ (state = "IF_RSP" /\ ~ifu_hsk_r)
           /\ (commit /\ op_load) <=> (lsu_hsk_r /\ op_load)
           /\ (commit /\ op_store) <=> (lsu_hsk_b /\ op_store)
  <1> USE DEF Tick, InMem
  <1>1. state \in {"IF_REQ", "IF_RSP", "MEM_REQ", "MEM_RSP"}
    BY DEF TypeOK, CpuTypeOK
  <1>2. Accepted <=> state = "IF_REQ"
    BY DEF Accepted, ifu_hsk_ar, ifu_arvalid, ic_cpu_arready, BusInv, PhaseIfReq, IcQuiet
  <1>3. CASE state \in {"IF_REQ", "IF_RSP"}
    <2>1. /\ ~commit_mem /\ (commit <=> ifu_hsk_r /\ ~is_mem_inst)
          /\ ~lsu_hsk_r /\ ~lsu_hsk_b
      BY <1>3, FetchStateWires DEF commit, commit_non_mem, lsu_hsk_r, lsu_hsk_b
    <2>2. is_mem_inst <=> op_load \/ op_store
      BY DEF is_mem_inst
    <2>3. ifu_hsk_r => state = "IF_RSP"
      BY DEF ifu_hsk_r
    <2>4. state' = IF state = "IF_REQ" THEN "IF_RSP"
                   ELSE IF ~ifu_hsk_r THEN "IF_RSP"
                   ELSE IF is_mem_inst THEN "MEM_REQ" ELSE "IF_REQ"
      BY <1>2, <1>3 DEF CpuEdge, FsmEdge, IfReq, IfRsp, MemReqLoad, MemReqStore, MemRsp,
                        Accepted
    <2> QED
      BY <1>2, <1>3, <2>1, <2>2, <2>3, <2>4
  <1>4. CASE state \in {"MEM_REQ", "MEM_RSP"}
    <2>1. ~ifu_hsk_r /\ (commit <=> commit_mem)
      BY <1>4 DEF ifu_hsk_r, commit, commit_non_mem
    <2>2. /\ commit_mem => state' = "IF_REQ"
          /\ ~commit_mem => state' \in {"MEM_REQ", "MEM_RSP"}
      BY <1>4 DEF CpuEdge, FsmEdge, IfReq, IfRsp, MemReqLoad, MemReqStore, MemRsp, commit_mem
    <2>3. /\ (commit_mem /\ op_load) <=> (lsu_hsk_r /\ op_load)
          /\ (commit_mem /\ op_store) <=> (lsu_hsk_b /\ op_store)
      BY DEF commit_mem, lsu_hsk_r, lsu_hsk_b, lsu_rready, lsu_bready, op_load, op_store
    <2> QED
      BY <1>2, <1>4, <2>1, <2>2, <2>3
  <1> QED
    BY <1>1, <1>3, <1>4

(***************************************************************************)
(* A miss begins when a fetch is accepted that does not hit, and ends with *)
(* the beat that is reported; it lasts as long as the core waits in        *)
(* IF_RSP without a response.                                              *)
(***************************************************************************)
LEMMA MissStages ==
    ASSUME TypeOK, BusInv, Tick
    PROVE  /\ Missing <=> state = "IF_RSP" /\ ~ifu_hsk_r
           /\ Accepted => ~Missing /\ (Missing' <=> ~Hit(pc))
           /\ ~Accepted => (Missing' <=> Missing /\ ~MissDone)
           /\ MissDone => Missing
  <1> USE DEF Tick, Missing
  <1>1. Missing <=> state = "IF_RSP" /\ ~ifu_hsk_r
    BY DEF TypeOK, CpuTypeOK, BusInv, PhaseIfReq, PhaseIfRsp, PhaseLoad, PhaseStore,
           IcQuiet, ifu_hsk_r
  <1>2. Accepted <=> ic_cpu_arready /\ ifu_arvalid
    BY DEF Accepted, ifu_hsk_ar
  <1>3. MissDone => ic_state = "MISS_R"
    BY DEF MissDone
  <1>4. CASE Accepted
    <2>1. ic_state = "IDLE"
      BY <1>2, <1>4 DEF ic_cpu_arready
    <2>2. IcHit(ifu_arvalid, pc) \/ IcMiss(ifu_arvalid, pc)
      BY <1>2, <1>4, <2>1 DEF IcacheEdge, IcEdge, IcIdle, IcMissAr, IcFillBeat,
             IcUncachedBeat, IcWaitBeat, IcResp
    <2>3. ic_state' = IF Hit(pc) THEN "IDLE" ELSE "MISS_AR"
      BY <2>1, <2>2 DEF IcHit, IcMiss
    <2> QED
      BY <1>1, <1>3, <1>4, <2>1, <2>3
  <1>5. CASE ~Accepted /\ ~Missing
    <2>1. ic_state \in {"IDLE", "RESP"}
      BY <1>5 DEF TypeOK, IcTypeOK
    <2>2. IcIdle(ifu_arvalid, ifu_rready) \/ IcResp(ifu_rready)
      BY <1>2, <1>5, <2>1 DEF IcacheEdge, IcEdge, IcHit, IcMiss, IcMissAr, IcFillBeat,
             IcUncachedBeat, IcWaitBeat
    <2>3. ic_state' \in {"IDLE", "RESP"}
      BY <2>1, <2>2 DEF IcIdle, IcResp
    <2> QED
      BY <1>1, <1>3, <1>5, <2>1, <2>3
  <1>6. CASE ~Accepted /\ ic_state = "MISS_AR"
    <2>1. IcMissAr(ifu_rready, arb_state = "GRANT_IFU" /\ arb_arready)
      BY <1>2, <1>6 DEF IcacheEdge, IcEdge, IcHit, IcMiss, IcIdle, IcFillBeat,
             IcUncachedBeat, IcWaitBeat, IcResp
    <2>2. ic_state' \in {"MISS_AR", "MISS_R"}
      BY <2>1 DEF IcMissAr
    <2> QED
      BY <1>1, <1>3, <1>6, <2>2
  <1>7. CASE ~Accepted /\ ic_state = "MISS_R"
    <2> DEFINE beat == arb_state = "GRANT_IFU" /\ arb_rvalid
    <2>1. \/ IcFillBeat(ifu_rready, beat, arb_rdata, arb_rlast)
          \/ IcUncachedBeat(beat, arb_rdata)
          \/ IcWaitBeat(ifu_rready, beat)
      BY <1>2, <1>7 DEF IcacheEdge, IcEdge, IcHit, IcMiss, IcIdle, IcMissAr, IcResp
    <2>2. MissDone <=> beat /\ (Cacheable(req_addr) => arb_rlast \/ fill_word = LAST_WORD)
      BY <1>7 DEF MissDone, ic_mem_rready
    <2>3. ic_state' = IF MissDone THEN "RESP" ELSE "MISS_R"
      <3>1. CASE IcFillBeat(ifu_rready, beat, arb_rdata, arb_rlast)
        BY <1>7, <2>2, <3>1 DEF IcFillBeat
      <3>2. CASE IcUncachedBeat(beat, arb_rdata)
        BY <1>7, <2>2, <3>2 DEF IcUncachedBeat
      <3>3. CASE IcWaitBeat(ifu_rready, beat)
        BY <1>7, <2>2, <3>3 DEF IcWaitBeat
      <3> QED
        BY <2>1, <3>1, <3>2, <3>3
    <2> QED
      BY <1>1, <1>7, <2>3
  <1> QED
    BY <1>4, <1>5, <1>6, <1>7

(***************************************************************************)
(* A cycle keeps the invariant of the counters.                            *)
(***************************************************************************)
LEMMA PerfStep ==
    ASSUME TypeOK, BusInv, PerfTypeOK, PerfInv, PerfTick
    PROVE  PerfInv'
  <1>1. Tick
    BY DEF PerfTick
  <1>2. \A c \in Counter : ctr[c] \in Nat
    BY DEF PerfTypeOK
  <1>3. /\ miss_cycles \in Nat /\ perf_inst_cycles \in Nat /\ perf_lsu_cycles \in Nat
    BY DEF PerfTypeOK
  <1>4. ctr'["decoded"] = ctr'["insts"]
    BY Counts DEF PerfInv
  <1>5. ctr'["load"] = ctr'["load_data"] /\ ctr'["store"] = ctr'["store_done"]
    BY <1>1, Counts, Stages DEF PerfInv, Once
  <1>6. ctr'["fetch"] = ctr'["insts"] + Once(InMem')
    <2>1. Once(InMem) + Once(ifu_hsk_r) = Once(commit) + Once(InMem')
      BY <1>1, Stages DEF Once
    <2>2. /\ ctr["fetch"] = ctr["insts"] + Once(InMem)
          /\ ctr'["fetch"] = ctr["fetch"] + Once(ifu_hsk_r)
          /\ ctr'["insts"] = ctr["insts"] + Once(commit)
          /\ ctr["fetch"] \in Nat /\ ctr["insts"] \in Nat
      BY <1>2, Counts DEF PerfInv, Counter
    <2> QED
      BY <2>1, <2>2 DEF Once
  <1>7. ctr'["hit"] + ctr'["miss"] = ctr'["fetch"] + Once(state' = "IF_RSP")
    <2>1. Once(state = "IF_RSP") + Once(Accepted) = Once(ifu_hsk_r) + Once(state' = "IF_RSP")
      BY <1>1, Stages DEF Once
    <2>2. Once(Accepted) = Once(Accepted /\ Hit(pc)) + Once(Accepted /\ ~Hit(pc))
      BY DEF Once
    <2>3. /\ ctr["hit"] + ctr["miss"] = ctr["fetch"] + Once(state = "IF_RSP")
          /\ ctr'["hit"] = ctr["hit"] + Once(Accepted /\ Hit(pc))
          /\ ctr'["miss"] = ctr["miss"] + Once(Accepted /\ ~Hit(pc))
          /\ ctr'["fetch"] = ctr["fetch"] + Once(ifu_hsk_r)
          /\ ctr["hit"] \in Nat /\ ctr["miss"] \in Nat /\ ctr["fetch"] \in Nat
      BY <1>2, Counts DEF PerfInv, Counter
    <2> QED
      BY <2>1, <2>2, <2>3 DEF Once
  <1>8. ctr'["miss"] = ctr'["miss_lat"] + Once(Missing')
    <2>1. Once(Missing) + Once(Accepted /\ ~Hit(pc)) = Once(MissDone) + Once(Missing')
      BY <1>1, MissStages DEF Once
    <2>2. /\ ctr["miss"] = ctr["miss_lat"] + Once(Missing)
          /\ ctr'["miss"] = ctr["miss"] + Once(Accepted /\ ~Hit(pc))
          /\ ctr'["miss_lat"] = ctr["miss_lat"] + Once(MissDone)
          /\ ctr["miss"] \in Nat /\ ctr["miss_lat"] \in Nat
      BY <1>2, Counts DEF PerfInv, Counter
    <2> QED
      BY <2>1, <2>2 DEF Once
  <1>9. commit_flag' \/ ctr'["cycles"] = 0 => state' = "IF_REQ"
    <2>1. ctr["cycles"] \in Nat /\ ctr'["cycles"] = ctr["cycles"] + 1
      BY <1>2, Counts DEF Counter
    <2> QED
      BY <1>1, <2>1, Stages DEF PerfTick
  <1>10. /\ perf_lsu_cycles' = IF InMem' THEN perf_lsu_cycles' ELSE 0
         /\ perf_lsu_cycles' = IF InMem /\ ~commit_mem THEN perf_lsu_cycles + 1 ELSE 0
    BY <1>1, Stages DEF PerfTick, LsuCyclesEdge
  <1>11. CyclesAccounted'
    <2>1. 1 = Once(ifu_hsk_r) + Once(~ifu_hsk_r /\ state = "IF_REQ")
                + Once(~ifu_hsk_r /\ state = "IF_RSP")
                + Once(~ifu_hsk_r /\ InMem /\ op_load)
                + Once(~ifu_hsk_r /\ InMem /\ ~op_load)
      BY DEF Once, InMem, TypeOK, CpuTypeOK
    <2>2. /\ ctr'["cycles"] = ctr["cycles"] + 1
          /\ ctr'["fetch"] = ctr["fetch"] + Once(ifu_hsk_r)
          /\ ctr'["wait_req"] = ctr["wait_req"] + Once(~ifu_hsk_r /\ state = "IF_REQ")
          /\ ctr'["wait_rsp"] = ctr["wait_rsp"] + Once(~ifu_hsk_r /\ state = "IF_RSP")
          /\ ctr'["wait_ld"] = ctr["wait_ld"] + Once(~ifu_hsk_r /\ InMem /\ op_load)
          /\ ctr'["wait_st"] = ctr["wait_st"] + Once(~ifu_hsk_r /\ InMem /\ ~op_load)
          /\ ctr'["cat_cycles"] =
                ctr["cat_cycles"] + (IF commit THEN perf_inst_cycles + 1 ELSE 0)
          /\ CyclesAccounted
      BY Counts DEF PerfInv, TimeAccounted
    <2>3. /\ ctr["cycles"] \in Nat /\ ctr["fetch"] \in Nat /\ ctr["wait_req"] \in Nat
          /\ ctr["wait_rsp"] \in Nat /\ ctr["wait_ld"] \in Nat /\ ctr["wait_st"] \in Nat
          /\ ctr["cat_cycles"] \in Nat
      BY <1>2 DEF Counter
    <2>4. ctr'["cycles"] = ctr'["fetch"] + ctr'["wait_req"] + ctr'["wait_rsp"]
                           + ctr'["wait_ld"] + ctr'["wait_st"]
      BY <2>1, <2>2, <2>3 DEF CyclesAccounted, Once
    <2>5. ctr'["cycles"] = ctr'["cat_cycles"] + perf_inst_cycles'
      BY <1>3, <2>2, <2>3 DEF CyclesAccounted, PerfTick, InstCyclesEdge
    <2> QED
      BY <2>4, <2>5 DEF CyclesAccounted
  <1>12. LsuLatencyAccounted'
    <2>1. /\ ctr'["lat_sum"] = ctr["lat_sum"]
                + (IF InMem /\ commit_mem THEN perf_lsu_cycles + 1 ELSE 0)
          /\ ctr'["wait_ld"] = ctr["wait_ld"] + Once(~ifu_hsk_r /\ InMem /\ op_load)
          /\ ctr'["wait_st"] = ctr["wait_st"] + Once(~ifu_hsk_r /\ InMem /\ ~op_load)
          /\ LsuLatencyAccounted /\ (~InMem => perf_lsu_cycles = 0)
      BY Counts DEF PerfInv, TimeAccounted
    <2>2. Once(~ifu_hsk_r /\ InMem /\ op_load) + Once(~ifu_hsk_r /\ InMem /\ ~op_load)
             = Once(InMem)
      BY <1>1, Stages DEF Once
    <2>3. ctr["lat_sum"] \in Nat /\ ctr["wait_ld"] \in Nat /\ ctr["wait_st"] \in Nat
      BY <1>2 DEF Counter
    <2> QED
      BY <1>3, <1>10, <2>1, <2>2, <2>3 DEF LsuLatencyAccounted, Once
  <1>13. MissTimeAccounted'
    <2>1. /\ ctr'["miss_lat_sum"] =
                ctr["miss_lat_sum"] + (IF MissDone THEN miss_cycles ELSE 0)
          /\ ctr'["wait_rsp"] = ctr["wait_rsp"] + Once(~ifu_hsk_r /\ state = "IF_RSP")
          /\ ctr["wait_rsp"] = ctr["miss_lat_sum"] + (IF Missing THEN miss_cycles - 1 ELSE 0)
      BY Counts DEF PerfInv, TimeAccounted, MissTimeAccounted, Missing
    <2>2. miss_cycles' = IF Accepted /\ ~Hit(pc) THEN 1
                         ELSE IF Missing THEN miss_cycles + 1 ELSE miss_cycles
      BY <1>1, MissStages DEF PerfTick, MissCyclesEdge, Missing
    <2>3. ctr["miss_lat_sum"] \in Nat /\ ctr["wait_rsp"] \in Nat
      BY <1>2 DEF Counter
    <2>4. ctr'["wait_rsp"] = ctr'["miss_lat_sum"] + (IF Missing' THEN miss_cycles' - 1 ELSE 0)
      BY <1>1, <1>3, <2>1, <2>2, <2>3, MissStages DEF Once
    <2> QED
      BY <2>4 DEF MissTimeAccounted, Missing
  <1>14. TimeAccounted'
    BY <1>11, <1>12, <1>13 DEF TimeAccounted
  <1> QED
    BY <1>4, <1>5, <1>6, <1>7, <1>8, <1>9, <1>10, <1>14 DEF PerfInv, Once

(***************************************************************************)
(* The simulation with counters is the simulation: cpu_exec's loop only    *)
(* watches the core.                                                       *)
(***************************************************************************)
LEMMA PerfRefines == PerfSpec => Spec
  <1>1. [PerfTick \/ PerfStop]_<<vars, perfVars>> => [Next]_vars
    BY DEF PerfTick, PerfStop, Next
  <1> QED
    BY <1>1, PTL DEF PerfSpec, Spec

(***************************************************************************)
(* The counters of cpu_exec and of the DPI events always differ by exactly *)
(* what the stage of the fetch in flight explains.                         *)
(***************************************************************************)
THEOREM PerfInvariant == PerfSpec => [](PerfTypeOK /\ PerfInv)
  <1>1. Init /\ PerfInit => PerfTypeOK /\ PerfInv
    <2> SUFFICES ASSUME Init, PerfInit PROVE PerfTypeOK /\ PerfInv
      OBVIOUS
    <2>1. \A c \in Counter : ctr[c] = 0
      BY DEF PerfInit
    <2>2. /\ state = "IF_REQ" /\ ic_state = "IDLE" /\ ~commit_flag
          /\ miss_cycles = 0 /\ perf_inst_cycles = 0 /\ perf_lsu_cycles = 0
      BY DEF Init, CpuInit, IcInit, PerfInit
    <2>3. PerfTypeOK
      BY DEF PerfInit, PerfTypeOK
    <2>4. ~InMem /\ ~Missing
      BY <2>2 DEF InMem, Missing
    <2>5. TimeAccounted
      BY <2>1, <2>2 DEF Counter, TimeAccounted, CyclesAccounted, LsuLatencyAccounted,
                        MissTimeAccounted
    <2> QED
      BY <2>1, <2>2, <2>3, <2>4, <2>5 DEF Counter, PerfInv, Once
  <1>2. TypeOK /\ BusInv /\ PerfTypeOK /\ PerfInv /\ [PerfTick \/ PerfStop]_<<vars, perfVars>>
           => PerfTypeOK' /\ PerfInv'
    <2> SUFFICES ASSUME TypeOK, BusInv, PerfTypeOK, PerfInv,
                        PerfTick \/ UNCHANGED <<vars, perfVars>>
                 PROVE  PerfTypeOK' /\ PerfInv'
      BY DEF PerfStop
    <2>1. CASE PerfTick
      BY <2>1, PerfType, PerfStep
    <2>2. CASE UNCHANGED <<vars, perfVars>>
      BY <2>2 DEF vars, cpuVars, icVars, perfVars, PerfTypeOK, PerfInv, Once, InMem, Missing,
           TimeAccounted, CyclesAccounted, LsuLatencyAccounted, MissTimeAccounted
    <2> QED
      BY <2>1, <2>2
  <1> QED
    BY <1>1, <1>2, BusInvariant, PerfRefines, PTL DEF PerfSpec

(***************************************************************************)
(* Every cycle is accounted for: by the stages, by the instructions, by    *)
(* the latencies of the LSU and by the total miss time of the I-cache.     *)
(***************************************************************************)
THEOREM TimeAlwaysAccounted == PerfSpec => []TimeAccounted
  <1>1. PerfInv => TimeAccounted
    BY DEF PerfInv
  <1> QED
    BY <1>1, PerfInvariant, PTL

(***************************************************************************)
(* print_perf_stats prints PASS at every point where cpu_exec returns.     *)
(***************************************************************************)
THEOREM ConsistencyChecksPass == PerfSpec => []ConsistencyChecks
  <1>1. BusInv /\ PerfTypeOK /\ PerfInv => ConsistencyChecks
    <2> SUFFICES ASSUME BusInv, PerfTypeOK, PerfInv, commit_flag \/ ctr["cycles"] = 0
                 PROVE  /\ ctr["decoded"] = ctr["insts"]
                        /\ ctr["fetch"] = ctr["insts"]
                        /\ ctr["hit"] + ctr["miss"] = ctr["fetch"]
                        /\ ctr["miss_lat"] = ctr["miss"]
                        /\ ctr["load"] = ctr["load_data"]
                        /\ ctr["store"] = ctr["store_done"]
      BY DEF ConsistencyChecks
    <2>1. state = "IF_REQ" /\ ~InMem /\ ~Missing
      BY DEF PerfInv, BusInv, PhaseIfReq, IcQuiet, InMem, Missing
    <2>2. ctr["fetch"] \in Nat /\ ctr["insts"] \in Nat /\ ctr["miss_lat"] \in Nat
      BY DEF PerfTypeOK, Counter
    <2> QED
      BY <2>1, <2>2 DEF PerfInv, Once
  <1> QED
    BY <1>1, PerfInvariant, BusInvariant, PerfRefines, PTL

=============================================================================

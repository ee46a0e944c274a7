---------------------------- MODULE NpcIsa_proofs ----------------------------
(***************************************************************************)
(* Proofs about what the NPC core computes, on top of the bus invariant:   *)
(* the I-cache is transparent, so that the word executed is the word at    *)
(* pc, and every commit is one step of the reference machine.              *)
(***************************************************************************)
EXTENDS NpcCore_proofs

(***************************************************************************)
(* Memory is written only when the response of a store is taken.           *)
(***************************************************************************)
LEMMA MemStays ==
    ASSUME SocEdge, ~(lsu_bready /\ soc_bvalid)
    PROVE  mem' = mem
  BY DEF SocEdge, SocWrite, SocWriteCollect, SocWriteDone, io_master_bready

(***************************************************************************)
(* Until an instruction is fetched, and as long as no beat fails, pc       *)
(* stays.                                                                  *)
(***************************************************************************)
LEMMA FetchPcStays ==
    ASSUME BusInv, CpuEdge, state \in {"IF_REQ", "IF_RSP"}, ~ifu_hsk_r,
           CodeDiscipline
    PROVE  pc' = pc
  <1>1. ~commit
    BY FetchStateWires DEF commit, commit_non_mem
  <1>2. ~axi_write_fault
    BY FetchStateWires DEF axi_write_fault, io_master_bready
  <1>3. ~axi_read_fault
    BY DEF axi_read_fault, BusInv, SocInv, PhaseIfReq, NoRead, CodeDiscipline
  <1> QED
    BY <1>1, <1>2, <1>3 DEF CpuEdge, PcEdge, access_fault

(***************************************************************************)
(* The cache's arrays stay coherent when neither they nor memory change    *)
(* and no fill is abandoned.                                               *)
(***************************************************************************)
LEMMA CoherentFrame ==
    ASSUME CacheCoherent, mem' = mem,
           UNCHANGED <<data_array, tag_array, valid_array>>,
           ic_state = "MISS_R" =>
               ic_state' = "MISS_R" /\ req_addr' = req_addr /\ fill_word' = fill_word
    PROVE  CacheCoherent'
  BY DEF CacheCoherent, Filling, Cacheable

(***************************************************************************)
(* A beat without an error carries the word of memory.                     *)
(***************************************************************************)
LEMMA BeatData ==
    ASSUME SocEdge, SocInv, mem' = mem,
           soc_rvalid /\ ~soc_rerr => soc_rdata = mem[soc_raddr],
           soc_rvalid' /\ ~soc_rerr'
    PROVE  soc_rdata' = mem'[soc_raddr']
  <1>1. CASE SocReadPresent
    BY <1>1, Zenon DEF SocReadPresent, SocBeat
  <1>2. CASE SocReadWait(io_master_rready)
    BY <1>2 DEF SocReadWait, socReadVars
  <1>3. ~SocReadIdle(io_master_arvalid, io_master_rready)
    BY DEF SocReadIdle
  <1>4. ~SocReadAccept(io_master_arvalid, arb_araddr, arb_arlen)
    BY DEF SocReadAccept, SocInv
  <1>5. ~SocReadNext(io_master_rready)
    BY DEF SocReadNext
  <1> QED
    BY <1>1, <1>2, <1>3, <1>4, <1>5 DEF SocEdge, SocRead

(***************************************************************************)
(* A request is accepted: a hit answers with the word of memory, a miss    *)
(* leaves the arrays alone.                                                *)
(***************************************************************************)
LEMMA DataIfReq ==
    ASSUME TypeOK, BusInv, DataInv, CodeDiscipline, Tick, state = "IF_REQ"
    PROVE  DataInv'
  <1> USE DEF Tick
  <1>1. IcQuiet /\ NoRead /\ SocInv
    BY DEF BusInv, PhaseIfReq
  <1>2. mem' = mem
    BY FetchStateWires, MemStays
  <1>3. pc' = pc
    BY FetchPcStays DEF ifu_hsk_r
  <1>4. ~soc_rvalid' /\ ~clint_rvalid'
    <2>1. ~arb_arvalid /\ ~io_master_arvalid
      BY DEF arb_arvalid, Granted, io_master_arvalid, BusInv, PhaseIfReq
    <2> QED
      BY <1>1, <2>1, SocReadQuiet, ClintReadQuiet DEF NoRead
  <1>5. pc \in Val
    BY DEF TypeOK, CpuTypeOK
  <1>6. CASE IcHit(ifu_arvalid, pc)
    <2>1. /\ req_addr' = pc /\ ic_state' = "IDLE"
          /\ resp_data' = data_array[IndexOf(pc)][WordOf(pc)]
          /\ UNCHANGED <<data_array, tag_array, valid_array>>
          /\ Hit(pc)
      BY <1>1, <1>6 DEF IcHit, IcQuiet
    <2>2. data_array[IndexOf(pc)][WordOf(pc)] = mem[pc]
      BY <1>1, <1>5, <2>1, SliceTypes DEF DataInv, CacheCoherent, Filling, Hit, IcQuiet
    <2>3. CacheCoherent'
      BY <1>1, <1>2, <2>1, CoherentFrame DEF DataInv, IcQuiet
    <2> QED
      BY <1>2, <1>3, <1>4, <2>1, <2>2, <2>3 DEF DataInv
  <1>7. CASE IcMiss(ifu_arvalid, pc)
    <2>1. /\ req_addr' = pc /\ ic_state' = "MISS_AR" /\ ~resp_valid'
          /\ UNCHANGED <<data_array, tag_array, valid_array>>
      BY <1>1, <1>7 DEF IcMiss, IcQuiet
    <2>2. CacheCoherent'
      BY <1>1, <1>2, <2>1, CoherentFrame DEF DataInv, IcQuiet
    <2> QED
      BY <1>3, <1>4, <2>1, <2>2 DEF DataInv
  <1> QED
    BY <1>1, <1>6, <1>7 DEF IcacheEdge, IcEdge, IcIdle, IcMissAr, IcFillBeat,
          IcUncachedBeat, IcWaitBeat, IcResp, ifu_arvalid, ic_cpu_arready, IcQuiet

(***************************************************************************)
(* The word is taken: the cache is left as it is.                          *)
(***************************************************************************)
LEMMA DataIfRspTaken ==
    ASSUME TypeOK, BusInv, DataInv, CodeDiscipline, Tick, state = "IF_RSP", resp_valid
    PROVE  DataInv'
  <1> USE DEF Tick
  <1>1. ic_state \in {"IDLE", "RESP"} /\ arb_state = "IDLE" /\ NoRead /\ SocInv
    BY DEF BusInv, PhaseIfRsp
  <1>2. mem' = mem
    BY FetchStateWires, MemStays
  <1>3. ~soc_rvalid'
    BY <1>1, SocReadQuiet DEF NoRead, arb_arvalid, Granted, io_master_arvalid
  <1>4. /\ ic_state' = "IDLE" /\ ~resp_valid'
        /\ UNCHANGED <<data_array, tag_array, valid_array>>
    BY <1>1 DEF IcacheEdge, IcEdge, IcHit, IcMiss, IcIdle, IcMissAr, IcFillBeat,
                IcUncachedBeat, IcWaitBeat, IcResp, RespKept, ifu_rready,
                ic_cpu_arready
  <1>5. state' # "IF_RSP"
    BY InstLatched DEF ifu_hsk_r
  <1>6. CacheCoherent'
    BY <1>1, <1>2, <1>4, CoherentFrame DEF DataInv
  <1> QED
    BY <1>3, <1>4, <1>5, <1>6 DEF DataInv

(***************************************************************************)
(* The address of a miss is offered; it does not go to the CLINT.          *)
(***************************************************************************)
LEMMA DataIfRspAddress ==
    ASSUME TypeOK, BusInv, DataInv, CodeDiscipline, Tick,
           state = "IF_RSP", ~resp_valid, ic_state = "MISS_AR"
    PROVE  DataInv'
  <1> USE DEF Tick
  <1>1. fill_word = 0 /\ arb_state # "GRANT_LSU" /\ NoRead /\ SocInv
    BY DEF BusInv, PhaseIfRsp
  <1>2. mem' = mem
    BY FetchStateWires, MemStays
  <1>3. pc' = pc
    BY FetchPcStays DEF ifu_hsk_r
  <1>4. /\ ~resp_valid' /\ req_addr' = req_addr /\ fill_word' = 0
        /\ UNCHANGED <<data_array, tag_array, valid_array>>
    BY <1>1 DEF IcacheEdge, IcEdge, IcHit, IcMiss, IcIdle, IcMissAr, IcFillBeat,
                IcUncachedBeat, IcWaitBeat, IcResp, RespKept, ic_cpu_arready
  <1>5. CacheCoherent'
    BY <1>2, <1>4, CoherentFrame DEF DataInv
  <1>6. ~soc_rvalid'
    BY <1>1, SocReadQuiet, SocReadStart DEF NoRead
  <1>7. ~clint_rvalid'
    <2>1. ~(arb_arvalid /\ sel_clint)
      BY <1>1, IcRequest DEF arb_arvalid, arb_araddr, sel_clint, Granted,
             ic_mem_araddr, DataInv, CodeDiscipline
    <2> QED
      BY <1>1, <2>1, ClintReadQuiet DEF NoRead
  <1>8. req_addr' = pc'
    BY <1>3, <1>4 DEF DataInv
  <1>9. ~(WordOf(req_addr)' < fill_word') /\ ~(fill_word' > 0)
    <2>1. WordOf(req_addr) \in Word
      BY SliceTypes DEF TypeOK, IcTypeOK
    <2> QED
      BY <1>4, <2>1 DEF Word, WordOf
  <1> QED
    BY <1>4, <1>5, <1>6, <1>7, <1>8, <1>9 DEF DataInv

(***************************************************************************)
(* Word w of the line that is being filled arrives: the words up to w are  *)
(* the memory's.  An older line at the same place does not count any more. *)
(***************************************************************************)
LEMMA FillCoherent ==
    ASSUME TypeOK, DataInv, mem' = mem, ic_state = "MISS_R", Cacheable(req_addr),
           NEW data, data = mem[LineBase(req_addr) + fill_word],
           data_array' = [data_array EXCEPT ![IndexOf(req_addr)][fill_word] = data],
           tag_array' = [tag_array EXCEPT ![IndexOf(req_addr)] = TagOf(req_addr)],
           valid_array' = [valid_array EXCEPT ![IndexOf(req_addr)] = TRUE],
           req_addr' = req_addr,
           \/ ic_state' = "MISS_R" /\ fill_word' = fill_word + 1
           \/ ic_state' # "MISS_R" /\ fill_word = LAST_WORD
    PROVE  /\ CacheCoherent'
           /\ (\A i \in Index : valid_array[i] => tag_array[i] \in CacheableTags)'
           /\ Hit(req_addr)'
  <1> DEFINE i == IndexOf(req_addr)
             base == LineBase(req_addr)
  <1>1. /\ req_addr \in Val /\ i \in Index /\ fill_word \in Word
        /\ fill_word \in Nat /\ LAST_WORD \in Nat
        /\ data_array \in [Index -> [Word -> Val]]
        /\ tag_array \in [Index -> Tag] /\ valid_array \in [Index -> BOOLEAN]
    <2>1. /\ req_addr \in Val /\ fill_word \in Word
          /\ data_array \in [Index -> [Word -> Val]]
          /\ tag_array \in [Index -> Tag] /\ valid_array \in [Index -> BOOLEAN]
      BY DEF TypeOK, IcTypeOK
    <2>2. fill_word \in Nat /\ LAST_WORD \in Nat
      BY <2>1, ParamsAssumption DEF Word, LAST_WORD
    <2> QED
      BY <2>1, <2>2, SliceTypes
  <1>2. /\ data_array'[i][fill_word] = data
        /\ \A w \in Word : w # fill_word => data_array'[i][w] = data_array[i][w]
        /\ tag_array'[i] = TagOf(req_addr) /\ valid_array'[i]
    BY <1>1
  <1>3. \A j \in Index : j # i =>
            /\ data_array'[j] = data_array[j]
            /\ tag_array'[j] = tag_array[j] /\ valid_array'[j] = valid_array[j]
    BY <1>1
  <1>4. Hit(req_addr)'
    BY <1>2 DEF Hit, Cacheable
  <1>5. (\A j \in Index : valid_array[j] => tag_array[j] \in CacheableTags)'
    BY <1>2, <1>3 DEF DataInv, Cacheable
  <1>6. CacheCoherent'
    <2> SUFFICES ASSUME NEW j \in Index, NEW w \in Word, valid_array'[j],
                        Filling(j)' => w < fill_word',
                        NEW a \in Val, TagOf(a) = tag_array'[j], IndexOf(a) = j,
                        WordOf(a) = w
                 PROVE  data_array'[j][w] = mem[a]
      BY DEF CacheCoherent
    <2>1. CASE j # i
      <3>1. valid_array[j] /\ tag_array[j] = TagOf(a) /\ ~Filling(j)
        BY <1>3, <2>1 DEF Filling
      <3>2. data_array[j][w] = mem[a]
        BY <3>1 DEF DataInv, CacheCoherent
      <3> QED
        BY <1>3, <2>1, <3>2
    <2>2. CASE j = i /\ w = fill_word
      <3>1. base + fill_word \in Val /\ WordOf(base + fill_word) = w
        BY <1>1, <2>2, LineWord
      <3>2. TagOf(base + fill_word) = TagOf(a) /\ IndexOf(base + fill_word) = IndexOf(a)
        BY <1>1, <1>2, <2>2, LineSlices
      <3>3. a = base + fill_word
        BY <3>1, <3>2, SlicesInjective
      <3> QED
        BY <1>2, <2>2, <3>3
    <2>3. CASE j = i /\ w # fill_word
      <3>1. w \in Nat /\ w < fill_word
        <4>1. w \in Nat /\ w <= LAST_WORD
          BY <1>1 DEF Word
        <4>2. CASE ic_state' = "MISS_R" /\ fill_word' = fill_word + 1
          <5>1. w < fill_word + 1
            BY <2>3, <4>2 DEF Filling, Cacheable
          <5> QED
            BY <1>1, <2>3, <4>1, <5>1
        <4>3. CASE fill_word = LAST_WORD
          BY <1>1, <2>3, <4>1, <4>3
        <4> QED
          BY <4>2, <4>3
      <3>2. fill_word > 0
        BY <1>1, <3>1
      <3>3. valid_array[i] /\ tag_array[i] = TagOf(a)
        BY <1>2, <2>3, <3>2 DEF DataInv, Hit
      <3>4. data_array[i][w] = mem[a]
        BY <1>1, <2>3, <3>1, <3>3 DEF DataInv, CacheCoherent
      <3> QED
        BY <1>2, <2>3, <3>4
    <2> QED
      BY <2>1, <2>2, <2>3
  <1> QED
    BY <1>4, <1>5, <1>6

(***************************************************************************)
(* The wires of the cache's bus port while a fetch is being answered.  The *)
(* CLINT is silent, so a beat is the SoC's and carries the memory's word.  *)
(***************************************************************************)
LEMMA FetchBeat ==
    ASSUME TypeOK, BusInv, DataInv, CodeDiscipline,
           state = "IF_RSP", ~resp_valid, ic_state = "MISS_R"
    PROVE  /\ BurstInStep /\ SocInv /\ arb_state = "GRANT_IFU"
           /\ soc_rbusy /\ ~arb_arvalid /\ ~ifu_hsk_r
           /\ arb_rvalid <=> soc_rvalid
           /\ arb_rlast <=> soc_rleft = 0
           /\ arb_rdata = soc_rdata
           /\ soc_rvalid => soc_rdata = mem[soc_raddr]
  <1>1. BurstInStep /\ SocInv /\ arb_state = "GRANT_IFU" /\ ~clint_rvalid
    BY DEF BusInv, PhaseIfRsp, BurstInStep, DataInv
  <1>2. soc_rbusy /\ ~arb_arvalid /\ arb_rready /\ ~ifu_hsk_r
    BY <1>1 DEF BurstInStep, arb_arvalid, arb_rready, Granted, ic_mem_arvalid,
                ic_mem_rready, ifu_hsk_r
  <1>3. /\ arb_rvalid <=> soc_rvalid
        /\ arb_rlast <=> soc_rleft = 0
        /\ arb_rdata = soc_rdata
    BY <1>1 DEF arb_rvalid, arb_rlast, arb_rdata, soc_rlast
  <1>4. soc_rvalid => ~soc_rerr
    BY <1>2 DEF CodeDiscipline, axi_read_fault, io_master_rready
  <1> QED
    BY <1>1, <1>2, <1>3, <1>4 DEF DataInv

(***************************************************************************)
(* A burst, or a single beat, is under way.                                *)
(***************************************************************************)
LEMMA DataIfRspData ==
    ASSUME TypeOK, BusInv, DataInv, CodeDiscipline, Tick,
           state = "IF_RSP", ~resp_valid, ic_state = "MISS_R"
    PROVE  DataInv'
  <1> USE DEF Tick
  <1>1. /\ BurstInStep /\ SocInv /\ arb_state = "GRANT_IFU"
        /\ soc_rbusy /\ ~arb_arvalid /\ ~ifu_hsk_r
        /\ arb_rvalid <=> soc_rvalid
        /\ arb_rlast <=> soc_rleft = 0
        /\ arb_rdata = soc_rdata
        /\ soc_rvalid => soc_rdata = mem[soc_raddr]
    BY FetchBeat
  <1>2. mem' = mem
    BY FetchStateWires, MemStays
  <1>3. pc' = pc
    BY <1>1, FetchPcStays
  <1>4. ~clint_rvalid'
    BY <1>1, ClintReadQuiet DEF DataInv
  <1>5. soc_rvalid' /\ ~soc_rerr' => soc_rdata' = mem'[soc_raddr']
    BY <1>1, <1>2, BeatData DEF DataInv
  <1>6. req_addr = pc /\ req_addr \in Val /\ fill_word \in Nat /\ WordOf(req_addr) \in Nat
        /\ WordOf(req_addr) <= LAST_WORD /\ LAST_WORD \in Nat
    BY SliceTypes, ParamsAssumption DEF DataInv, TypeOK, IcTypeOK, Word, LAST_WORD
  <1>7. CASE ~soc_rvalid
    <2>1. /\ UNCHANGED <<ic_state, req_addr, resp_data, fill_word,
                         data_array, tag_array, valid_array>>
          /\ ~resp_valid'
      BY <1>1, <1>7 DEF IcacheEdge, IcEdge, IcHit, IcMiss, IcIdle, IcMissAr, IcFillBeat,
                IcUncachedBeat, IcWaitBeat, IcResp, RespKept, ic_cpu_arready
    <2>2. CacheCoherent'
      BY <1>2, <2>1, CoherentFrame DEF DataInv
    <2>3. Hit(req_addr) => Hit(req_addr)'
      BY <2>1 DEF Hit, Cacheable
    <2> QED
      BY <1>2, <1>3, <1>4, <1>5, <1>6, <2>1, <2>2, <2>3 DEF DataInv, Cacheable, WordOf
  <1>8. CASE soc_rvalid /\ Cacheable(req_addr)
    <2>1. IcFillBeat(ifu_rready, arb_state = "GRANT_IFU" /\ arb_rvalid, arb_rdata, arb_rlast)
      BY <1>1, <1>8 DEF IcacheEdge, IcEdge, IcHit, IcMiss, IcIdle, IcMissAr,
                IcUncachedBeat, IcWaitBeat, IcResp, ic_cpu_arready
    <2>2. /\ soc_raddr = LineBase(req_addr) + fill_word
          /\ arb_rlast <=> fill_word = LAST_WORD
      BY <1>1, <1>6, <1>8 DEF BurstInStep
    <2>3. soc_rdata = mem[LineBase(req_addr) + fill_word]
      BY <1>1, <1>8, <2>2
    <2>4. /\ data_array' = [data_array EXCEPT ![IndexOf(req_addr)][fill_word] = soc_rdata]
          /\ tag_array' = [tag_array EXCEPT ![IndexOf(req_addr)] = TagOf(req_addr)]
          /\ valid_array' = [valid_array EXCEPT ![IndexOf(req_addr)] = TRUE]
          /\ resp_data' = IF fill_word = WordOf(req_addr) THEN soc_rdata ELSE resp_data
          /\ req_addr' = req_addr
      BY <1>1, <2>1 DEF IcFillBeat
    <2>5. \/ /\ fill_word = LAST_WORD /\ ic_state' = "RESP"
          \/ /\ fill_word # LAST_WORD /\ ic_state' = "MISS_R" /\ ~resp_valid'
             /\ fill_word' = fill_word + 1
      BY <2>1, <2>2 DEF IcFillBeat, RespKept
    <2>6. /\ CacheCoherent' /\ Hit(req_addr)'
          /\ (\A i \in Index : valid_array[i] => tag_array[i] \in CacheableTags)'
      BY <1>2, <1>8, <2>3, <2>4, <2>5, FillCoherent
    <2>7. WordOf(req_addr) <= fill_word => resp_data' = mem[req_addr]
      <3>1. CASE WordOf(req_addr) = fill_word
        BY <1>6, <2>3, <2>4, <3>1, OwnWord
      <3>2. CASE WordOf(req_addr) < fill_word
        BY <1>6, <1>8, <2>4, <3>2 DEF DataInv
      <3> QED
        BY <1>6, <3>1, <3>2
    <2>8. CASE fill_word = LAST_WORD /\ ic_state' = "RESP"
      <3>1. resp_data' = mem[pc]
        BY <1>6, <2>7, <2>8
      <3> QED
        BY <1>2, <1>3, <1>4, <1>5, <1>6, <2>4, <2>6, <2>8, <3>1 DEF DataInv
    <2>9. CASE /\ fill_word # LAST_WORD /\ ic_state' = "MISS_R" /\ ~resp_valid'
               /\ fill_word' = fill_word + 1
      <3>1. WordOf(req_addr)' < fill_word' => resp_data' = mem'[req_addr']
        <4>1. WordOf(req_addr) < fill_word + 1 => resp_data' = mem[req_addr]
          BY <1>6, <2>7
        <4> QED
          BY <1>2, <2>4, <2>9, <4>1 DEF WordOf
      <3> QED
        BY <1>2, <1>3, <1>4, <1>5, <1>6, <2>4, <2>6, <2>9, <3>1 DEF DataInv
    <2> QED
      BY <2>5, <2>8, <2>9
  <1>9. CASE soc_rvalid /\ ~Cacheable(req_addr)
    <2>1. /\ UNCHANGED <<req_addr, fill_word, data_array, tag_array, valid_array>>
          /\ ic_state' = "RESP" /\ resp_data' = soc_rdata
      BY <1>1, <1>9 DEF IcacheEdge, IcEdge, IcHit, IcMiss, IcIdle, IcMissAr, IcFillBeat,
                IcUncachedBeat, IcWaitBeat, IcResp, ic_cpu_arready
    <2>2. resp_data' = mem[pc]
      BY <1>1, <1>6, <1>9, <2>1 DEF BurstInStep
    <2>3. CacheCoherent'
      BY <1>2, <1>9, <2>1 DEF DataInv, CacheCoherent, Filling
    <2> QED
      BY <1>2, <1>3, <1>4, <1>5, <1>6, <2>1, <2>2, <2>3 DEF DataInv
  <1> QED
    BY <1>7, <1>8, <1>9

(***************************************************************************)
(* A load or a store is executed: the I-cache rests, and a store that      *)
(* reaches memory changes no word of a line that is held.                  *)
(***************************************************************************)
LEMMA IcMemFrame ==
    ASSUME TypeOK, BusInv, Tick, state \in {"MEM_REQ", "MEM_RSP"}
    PROVE  /\ IcQuiet /\ SocInv /\ IcQuiet' /\ state' # "IF_RSP"
           /\ UNCHANGED <<data_array, tag_array, valid_array>>
  <1> USE DEF Tick
  <1>1. IcQuiet /\ SocInv
    BY DEF BusInv, PhaseLoad, PhaseStore
  <1>2. IcQuiet'
    BY <1>1, IcStaysQuiet
  <1>3. UNCHANGED <<data_array, tag_array, valid_array>>
    BY <1>1 DEF IcacheEdge, IcEdge, IcHit, IcMiss, IcIdle, IcMissAr, IcFillBeat,
                IcUncachedBeat, IcWaitBeat, IcResp, IcQuiet, ifu_arvalid
  <1>4. state' # "IF_RSP"
    BY DEF CpuEdge, FsmEdge, IfReq, IfRsp, MemReqLoad, MemReqStore, MemRsp
  <1> QED
    BY <1>1, <1>2, <1>3, <1>4

\* Loads and stores: a store that is done changes no word that the cache holds.
LEMMA DataMem ==
    ASSUME TypeOK, BusInv, DataInv, CodeDiscipline, Tick,
           state \in {"MEM_REQ", "MEM_RSP"}
    PROVE  DataInv'
  <1> USE DEF Tick
  <1>1. /\ IcQuiet /\ SocInv /\ IcQuiet' /\ state' # "IF_RSP"
        /\ UNCHANGED <<data_array, tag_array, valid_array>>
    BY IcMemFrame
  <1>2. CASE ~(lsu_bready /\ soc_bvalid)
    <2>1. mem' = mem
      BY <1>2, MemStays
    <2>2. soc_rvalid' /\ ~soc_rerr' => soc_rdata' = mem'[soc_raddr']
      BY <1>1, <2>1, BeatData DEF DataInv
    <2>3. CacheCoherent'
      BY <1>1, <2>1, CoherentFrame DEF DataInv, IcQuiet
    <2> QED
      BY <1>1, <2>2, <2>3 DEF DataInv, IcQuiet
  <1>3. CASE lsu_bready /\ soc_bvalid
    <2>1. /\ state = "MEM_RSP" /\ op_store /\ soc_aw /\ soc_awaddr = bus_addr
          /\ NoRead /\ arb_state = "IDLE" /\ ~op_load
      BY <1>1, <1>3 DEF lsu_bready, SocInv, BusInv, PhaseStore, op_load, op_store
    <2>2. ~soc_rvalid'
      BY <1>1, <2>1, StoreReadSide
    <2>3. \A a \in Val : a # bus_addr => mem'[a] = mem[a]
      <3>1. SocWriteDone(io_master_bready)
        BY <1>3 DEF SocEdge, SocWrite, SocWriteCollect, io_master_bready
      <3> QED
        BY <2>1, <3>1 DEF SocWriteDone, TypeOK, SocTypeOK
    <2>4. ~Hit(bus_addr)
      BY <1>3, <2>1 DEF CodeDiscipline
    <2>5. CacheCoherent'
      <3> SUFFICES ASSUME NEW i \in Index, NEW w \in Word, valid_array[i],
                          NEW a \in Val, TagOf(a) = tag_array[i], IndexOf(a) = i,
                          WordOf(a) = w
                   PROVE  data_array[i][w] = mem'[a]
        BY <1>1 DEF CacheCoherent
      <3>1. a # bus_addr
        BY <2>4 DEF DataInv, Hit, Cacheable
      <3>2. data_array[i][w] = mem[a]
        BY <1>1 DEF DataInv, CacheCoherent, Filling, IcQuiet
      <3> QED
        BY <2>3, <3>1, <3>2
    <2> QED
      BY <1>1, <2>2, <2>5 DEF DataInv, IcQuiet
  <1> QED
    BY <1>2, <1>3

(***************************************************************************)
(* The initial states satisfy DataInv, and a clock edge keeps it.          *)
(***************************************************************************)
LEMMA InitData ==
    ASSUME Init
    PROVE  DataInv
  BY DEF Init, CpuInit, IcInit, SocInit, ClintInit, DataInv, CacheCoherent

\* A clock edge keeps the data invariant, in whichever state the CPU is.
LEMMA TickData ==
    ASSUME TypeOK, BusInv, DataInv, CodeDiscipline, Tick
    PROVE  DataInv'
  <1>1. state \in {"IF_REQ", "IF_RSP", "MEM_REQ", "MEM_RSP"}
    BY DEF TypeOK, CpuTypeOK
  <1>2. CASE state = "IF_RSP"
    BY <1>2, DataIfRspTaken, DataIfRspAddress, DataIfRspData DEF BusInv, PhaseIfRsp
  <1> QED
    BY <1>1, <1>2, DataIfReq, DataMem

\* And so does no edge at all.
LEMMA StutterData ==
    ASSUME DataInv, UNCHANGED vars
    PROVE  DataInv'
  BY DEF vars, cpuVars, icVars, busVars, clintVars, socReadVars, socWriteVars,
         DataInv, CacheCoherent, Filling, Hit, Cacheable, WordOf

(***************************************************************************)
(* Under CodeDiscipline the lines of the I-cache and the words under way   *)
(* are the memory's, for every program, cache geometry and bus timing.     *)
(***************************************************************************)
THEOREM DataInvariant == Spec /\ []CodeDiscipline => []DataInv
  <1>1. Init => DataInv
    BY InitData
  <1>2. TypeOK /\ BusInv /\ DataInv /\ CodeDiscipline /\ [Next]_vars => DataInv'
    BY TickData, StutterData DEF Next, Finished
  <1> QED
    BY <1>1, <1>2, BusInvariant, PTL DEF Spec

(***************************************************************************)
(* The word the core executes is the word memory holds at pc, as long as   *)
(* the program does not store into lines the I-cache holds, does not run   *)
(* from the CLINT, and no fetch is answered with an error.                 *)
(***************************************************************************)
THEOREM FetchAlwaysCorrect == Spec /\ []CodeDiscipline => []FetchCorrect
  <1>1. DataInv => FetchCorrect
    BY DEF DataInv, FetchCorrect, ifu_hsk_r
  <1> QED
    BY <1>1, DataInvariant, PTL

(***************************************************************************)
(* The reference sees the core's operands when its instruction is the one  *)
(* the core executes: x0 is 0, so reading it needs no special case.        *)
(***************************************************************************)
LEMMA RefWires ==
    ASSUME TypeOK, IsaInv, inst = Decode[mem[pc]]
    PROVE  /\ Ref!IsaInst = inst
           /\ Ref!src1 = rs1_data /\ Ref!src2 = rs2_data
           /\ Ref!IsaSnpc = snpc /\ Ref!MemAddr = bus_addr
  <1>1. Ref!IsaInst = inst
    BY DEF Ref!IsaInst
  <1>2. Ref!src1 = rs1_data /\ Ref!src2 = rs2_data
    BY <1>1 DEF Ref!src1, Ref!src2, rs1_data, rs2_data, IsaInv
  <1> QED
    BY <1>1, <1>2 DEF Ref!IsaSnpc, Ref!MemAddr, snpc, bus_addr, alu_result

(***************************************************************************)
(* The core's register file, like the reference's, drops a write to x0.    *)
(***************************************************************************)
LEMMA RefSetR ==
    ASSUME TypeOK, IsaInv, inst = Decode[mem[pc]], NEW v,
           rf' = IF inst.rd # 0 THEN [rf EXCEPT ![inst.rd] = v] ELSE rf
    PROVE  Ref!SetR(v)
  <1>1. Ref!IsaInst = inst /\ inst.rd \in Reg /\ rf \in [Reg -> Val]
    BY RefWires, WireTypes DEF Inst, TypeOK, CpuTypeOK
  <1> QED
    BY <1>1 DEF Ref!SetR, IsaInv

(***************************************************************************)
(* An instruction that does not access memory commits in the cycle it is   *)
(* fetched, and does what the reference does.                              *)
(***************************************************************************)
LEMMA RefNonMem ==
    ASSUME TypeOK, BusInv, DataInv, IsaInv, KnownCode, Tick, commit_non_mem
    PROVE  Ref!IsaNext
  <1> USE DEF Tick
  <1>1. /\ ifu_hsk_r /\ commit /\ ~is_mem_inst
        /\ state = "IF_RSP" /\ resp_valid /\ NoRead /\ NoWrite /\ SocInv
    BY DEF commit, commit_non_mem, ifu_hsk_r, BusInv, PhaseIfRsp
  <1>2. inst = Decode[mem[pc]]
    BY <1>1 DEF inst, DataInv
  <1>3. ~access_fault /\ mem' = mem
    BY <1>1, MemStays DEF access_fault, axi_read_fault, axi_write_fault, NoRead, NoWrite, SocInv
  <1>4. /\ pc' = dnpc
        /\ rf' = IF rf_wen /\ inst.rd # 0 THEN [rf EXCEPT ![inst.rd] = rf_wdata] ELSE rf
        /\ csr' = IF inst.op = "ecall"
                  THEN [csr EXCEPT !["mepc"] = pc, !["mcause"] = 11]
                  ELSE IF csr_wen /\ inst.csr # "none"
                  THEN [csr EXCEPT ![inst.csr] = csr_wdata]
                  ELSE csr
    BY <1>1, <1>3 DEF CpuEdge, PcEdge, RegfileEdge, CsrEdge
  <1>5. finish = FALSE /\ finish' = (inst.op = "ebreak")
    BY <1>1 DEF CpuEdge, TrapEdge, TypeOK, CpuTypeOK
  <1>6. /\ Ref!IsaInst = inst
        /\ Ref!src1 = rs1_data /\ Ref!src2 = rs2_data
        /\ Ref!IsaSnpc = snpc
    BY <1>2, RefWires
  <1>7. rf_wen => Ref!SetR(rf_wdata)
    BY <1>2, <1>4, RefSetR
  <1>8. inst \in Inst /\ ~op_load /\ ~op_store
    BY <1>1, WireTypes DEF is_mem_inst
  <1>9. CASE inst.op = "alu"
    <2>1. rf_wen /\ rf_wdata = (rs1_data + inst.imm) % ValNum /\ dnpc = snpc /\ csr' = csr
      BY <1>4, <1>9 DEF rf_wen, rf_wdata, is_csr, op_load, alu_result, dnpc, csr_wen
    <2> QED
      BY <1>3, <1>4, <1>5, <1>6, <1>7, <1>9, <2>1 DEF Ref!IsaNext, Ref!Compute
  <1>10. CASE inst.op \in {"jal", "jalr"}
    <2>1. /\ rf_wen /\ rf_wdata = snpc /\ csr' = csr
          /\ dnpc = ((IF inst.op = "jal" THEN pc ELSE rs1_data) + inst.imm) % ValNum
      BY <1>4, <1>10 DEF rf_wen, rf_wdata, is_csr, op_load, dnpc, csr_wen
    <2> QED
      BY <1>3, <1>4, <1>5, <1>6, <1>7, <1>10, <2>1 DEF Ref!IsaNext, Ref!Jump
  <1>11. CASE inst.op = "branch"
    <2>1. /\ ~rf_wen /\ csr' = csr
          /\ dnpc = IF rs1_data = rs2_data THEN (pc + inst.imm) % ValNum ELSE snpc
      BY <1>4, <1>11 DEF rf_wen, dnpc, csr_wen
    <2> QED
      BY <1>3, <1>4, <1>5, <1>6, <1>11, <2>1 DEF Ref!IsaNext, Ref!Branch
  <1>12. CASE inst.op \in {"csrrw", "csrrs"}
    <2> DEFINE c == inst.csr
    <2>1. c # "none" /\ c \in CsrName /\ csr \in [CsrName -> Val]
      BY <1>1, <1>8, <1>12 DEF KnownCode, is_csr, Inst, TypeOK, CpuTypeOK
    <2>2. rf_wen /\ rf_wdata = csr[c] /\ dnpc = snpc /\ csr_rdata = csr[c]
      BY <1>12, <2>1 DEF rf_wen, rf_wdata, is_csr, op_load, csr_rdata, dnpc
    <2>3. csr' = [csr EXCEPT ![c] = IF inst.op = "csrrw" THEN rs1_data
                                     ELSE BitOr(csr[c], rs1_data)]
      <3>1. CASE csr_wen
        BY <1>4, <1>12, <2>1, <2>2, <3>1 DEF csr_wdata
      <3>2. CASE ~csr_wen
        <4>1. inst.op = "csrrs" /\ rs1_data = 0
          BY <1>12, <3>2 DEF csr_wen, rs1_data
        <4>2. BitOr(csr[c], 0) = csr[c]
          BY <2>1, ParamsAssumption
        <4>3. csr' = csr /\ csr = [csr EXCEPT ![c] = csr[c]]
          BY <1>4, <1>12, <2>1, <3>2
        <4> QED
          BY <4>1, <4>2, <4>3
      <3> QED
        BY <3>1, <3>2
    <2> QED
      BY <1>3, <1>4, <1>5, <1>6, <1>7, <1>12, <2>1, <2>2, <2>3
      DEF Ref!IsaNext, Ref!CsrAccess
  <1>13. CASE inst.op \in {"ecall", "mret", "ebreak"}
    <2>1. /\ rf' = rf
          /\ dnpc = CASE inst.op = "ecall" -> csr["mtvec"]
                      [] inst.op = "mret" -> csr["mepc"]
                      [] OTHER -> snpc
      BY <1>4, <1>13 DEF rf_wen, dnpc
    <2>2. inst.op # "ecall" => csr' = csr
      BY <1>4, <1>13 DEF csr_wen
    <2> QED
      BY <1>3, <1>4, <1>5, <1>6, <1>13, <2>1, <2>2
      DEF Ref!IsaNext, Ref!Ecall, Ref!Mret, Ref!Ebreak
  <1> QED
    BY <1>1, <1>8, <1>9, <1>10, <1>11, <1>12, <1>13
    DEF Inst, Op, KnownCode, op_load, op_store

(***************************************************************************)
(* The CPU's registers when a load or a store commits: the instruction is  *)
(* still the one at pc, and an access that failed is replaced by a trap.   *)
(***************************************************************************)
LEMMA MemCommit ==
    ASSUME TypeOK, IsaInv, Tick, commit_mem, is_mem_inst
    PROVE  /\ inst = Decode[mem[pc]]
           /\ finish = FALSE /\ finish' = FALSE
           /\ ~access_fault =>
                 /\ pc' = snpc /\ csr' = csr
                 /\ rf' = IF op_load /\ inst.rd # 0
                          THEN [rf EXCEPT ![inst.rd] = arb_rdata] ELSE rf
           /\ access_fault =>
                 /\ pc' = csr["mtvec"] /\ rf' = rf
                 /\ csr' = [csr EXCEPT !["mepc"] = pc, !["mcause"] = access_fault_cause]
  <1> USE DEF Tick
  <1>1. state = "MEM_RSP" /\ commit /\ inst.op \in {"load", "store"}
    BY DEF commit, commit_mem, is_mem_inst, op_load, op_store
  <1>2. inst = Decode[mem[pc]]
    BY <1>1 DEF inst, ifu_hsk_r, IsaInv
  <1>3. finish = FALSE /\ finish' = FALSE
    BY <1>1 DEF CpuEdge, TrapEdge, TypeOK, CpuTypeOK
  <1>4. dnpc = snpc /\ ~csr_wen /\ inst.op # "ecall"
    BY <1>1 DEF dnpc, csr_wen
  <1>5. (rf_wen <=> op_load) /\ (op_load => rf_wdata = arb_rdata)
    BY <1>1 DEF rf_wen, rf_wdata, is_csr, op_load
  <1> QED
    BY <1>1, <1>2, <1>3, <1>4, <1>5 DEF CpuEdge, PcEdge, CsrEdge, RegfileEdge

(***************************************************************************)
(* The reference decodes an address as the core does.                      *)
(***************************************************************************)
LEMMA RefClint ==
    ASSUME NEW a
    PROVE  Ref!InClint(a) <=> InClint(a)
  BY DEF Ref!InClint, Ref!TagOf, Ref!LineOf, InClint, TagOf, LineOf

(***************************************************************************)
(* A load commits with its beat: the word of memory, a value of the CLINT  *)
(* that DiffTest skips, or a trap.                                         *)
(***************************************************************************)
LEMMA RefLoad ==
    ASSUME TypeOK, BusInv, DataInv, IsaInv, Tick, commit_mem, op_load
    PROVE  Ref!IsaNext
  <1> USE DEF Tick
  <1>1. /\ state = "MEM_RSP" /\ arb_rvalid /\ NoWrite /\ SocInv
        /\ soc_rbusy <=> ~clint_rvalid
        /\ soc_rbusy => soc_raddr = bus_addr /\ ~InClint(bus_addr)
        /\ clint_rvalid => InClint(bus_addr)
        /\ arb_state = "GRANT_LSU"
    BY DEF commit_mem, lsu_hsk_r, BusInv, PhaseLoad
  <1>2. /\ inst = Decode[mem[pc]]
        /\ finish = FALSE /\ finish' = FALSE
        /\ ~access_fault =>
              /\ pc' = snpc /\ csr' = csr
              /\ rf' = IF inst.rd # 0 THEN [rf EXCEPT ![inst.rd] = arb_rdata] ELSE rf
        /\ access_fault =>
              /\ pc' = csr["mtvec"] /\ rf' = rf
              /\ csr' = [csr EXCEPT !["mepc"] = pc, !["mcause"] = access_fault_cause]
    BY MemCommit DEF is_mem_inst
  <1>3. mem' = mem
    BY <1>1, MemStays DEF NoWrite
  <1>4. /\ Ref!IsaInst = inst /\ inst.op = "load"
        /\ Ref!IsaSnpc = snpc /\ Ref!MemAddr = bus_addr
    BY <1>2, RefWires DEF op_load
  <1>5. ~axi_write_fault
    BY <1>1 DEF axi_write_fault, NoWrite
  <1>6. CASE clint_rvalid
    <2>1. ~access_fault
      BY <1>1, <1>5, <1>6 DEF access_fault, axi_read_fault, SocInv
    <2>2. Ref!SetR(arb_rdata) /\ arb_rdata \in Ref!Val
      BY <1>2, <2>1, RefSetR, WireTypes DEF Val, Ref!Val
    <2>3. Ref!InClint(Ref!MemAddr)
      BY <1>1, <1>4, <1>6, RefClint
    <2> QED
      BY <1>2, <1>3, <1>4, <2>1, <2>2, <2>3 DEF Ref!IsaNext, Ref!Skip
  <1>7. CASE ~clint_rvalid /\ ~soc_rerr
    <2>1. ~access_fault
      BY <1>5, <1>7 DEF access_fault, axi_read_fault
    <2>2. soc_rvalid /\ arb_rdata = mem[bus_addr] /\ ~InClint(bus_addr)
      BY <1>1, <1>7 DEF arb_rvalid, arb_rdata, DataInv
    <2>3. Ref!SetR(arb_rdata) /\ ~Ref!InClint(Ref!MemAddr)
      BY <1>2, <1>4, <2>1, <2>2, RefSetR, RefClint
    <2> QED
      BY <1>2, <1>3, <1>4, <2>1, <2>2, <2>3 DEF Ref!IsaNext, Ref!Load
  <1>8. CASE ~clint_rvalid /\ soc_rerr
    <2>1. soc_rvalid /\ bus_addr \in FaultAddr
      BY <1>1, <1>8 DEF arb_rvalid, IsaInv
    <2>2. access_fault /\ access_fault_cause = 5
      BY <1>1, <1>5, <1>8, <2>1 DEF access_fault, axi_read_fault, access_fault_cause,
             io_master_rready, arb_rready, Granted, lsu_rready
    <2> QED
      BY <1>2, <1>3, <1>4, <2>1, <2>2 DEF Ref!IsaNext, Ref!AccessFault, Ref!FaultTrap
  <1> QED
    BY <1>6, <1>7, <1>8

(***************************************************************************)
(* A store commits with its response: memory is written, the CLINT ignores *)
(* it, or it is a trap and memory is as before.                            *)
(***************************************************************************)
LEMMA RefStore ==
    ASSUME TypeOK, BusInv, DataInv, IsaInv, Tick, commit_mem, ~op_load
    PROVE  Ref!IsaNext
  <1> USE DEF Tick
  <1>1. /\ state = "MEM_RSP" /\ arb_bvalid /\ NoRead /\ SocInv /\ op_store /\ lsu_bready
        /\ clint_bvalid <=> InClint(bus_addr)
        /\ (soc_aw <=> ~clint_bvalid) /\ (soc_w <=> ~clint_bvalid)
    BY DEF commit_mem, lsu_hsk_b, BusInv, PhaseStore, lsu_bready
  <1>2. /\ inst = Decode[mem[pc]]
        /\ finish = FALSE /\ finish' = FALSE
        /\ ~access_fault => pc' = snpc /\ csr' = csr /\ rf' = rf
        /\ access_fault =>
              /\ pc' = csr["mtvec"] /\ rf' = rf
              /\ csr' = [csr EXCEPT !["mepc"] = pc, !["mcause"] = access_fault_cause]
    BY <1>1, MemCommit DEF is_mem_inst
  <1>3. /\ Ref!IsaInst = inst /\ inst.op = "store"
        /\ Ref!src2 = rs2_data
        /\ Ref!IsaSnpc = snpc /\ Ref!MemAddr = bus_addr
    BY <1>1, <1>2, RefWires DEF op_store
  <1>4. ~axi_read_fault
    BY <1>1 DEF axi_read_fault, NoRead, SocInv
  <1>5. CASE clint_bvalid
    <2>1. ~soc_bvalid
      BY <1>1, <1>5 DEF SocInv
    <2>2. ~access_fault /\ mem' = mem
      BY <1>4, <2>1, MemStays DEF access_fault, axi_write_fault
    <2>3. Ref!InClint(Ref!MemAddr)
      BY <1>1, <1>3, <1>5, RefClint
    <2> QED
      BY <1>2, <1>3, <2>2, <2>3 DEF Ref!IsaNext, Ref!Skip
  <1>6. CASE ~clint_bvalid
    <2>1. soc_bvalid /\ io_master_bready /\ soc_awaddr = bus_addr /\ soc_wdata = rs2_data
      BY <1>1, <1>6 DEF arb_bvalid, io_master_bready, SocInv
    <2>2. mem' = IF soc_berr THEN mem ELSE [mem EXCEPT ![bus_addr] = rs2_data]
      BY <2>1 DEF SocEdge, SocWrite, SocWriteCollect, SocWriteDone
    <2>3. CASE soc_berr
      <3>1. access_fault /\ access_fault_cause = 7
        BY <2>1, <2>3 DEF access_fault, axi_write_fault, access_fault_cause
      <3>2. bus_addr \in FaultAddr
        BY <2>1, <2>3 DEF IsaInv
      <3> QED
        BY <1>2, <1>3, <2>2, <2>3, <3>1, <3>2
        DEF Ref!IsaNext, Ref!AccessFault, Ref!FaultTrap
    <2>4. CASE ~soc_berr
      <3>1. ~access_fault
        BY <1>4, <2>4 DEF access_fault, axi_write_fault
      <3>2. ~Ref!InClint(Ref!MemAddr)
        BY <1>1, <1>3, <1>6, RefClint
      <3> QED
        BY <1>2, <1>3, <2>2, <2>4, <3>1, <3>2 DEF Ref!IsaNext, Ref!Store
    <2> QED
      BY <2>3, <2>4
  <1> QED
    BY <1>5, <1>6

(***************************************************************************)
(* A cycle in which nothing commits leaves the architectural state alone.  *)
(***************************************************************************)
LEMMA SilentCycle ==
    ASSUME TypeOK, BusInv, CodeDiscipline, Tick, ~commit
    PROVE  UNCHANGED <<pc, rf, csr, mem, finish>>
  <1> USE DEF Tick
  <1>1. ~soc_bvalid
    BY DEF BusInv, SocInv, PhaseIfReq, PhaseIfRsp, PhaseLoad, PhaseStore, NoWrite,
           TypeOK, CpuTypeOK, commit, commit_mem, lsu_hsk_b, lsu_bready, arb_bvalid
  <1>2. ~axi_read_fault
    BY DEF BusInv, SocInv, PhaseIfReq, PhaseLoad, PhaseStore, NoRead,
           TypeOK, CpuTypeOK, commit, commit_mem, lsu_hsk_r, lsu_rready, arb_rvalid,
           axi_read_fault, CodeDiscipline
  <1>3. ~access_fault /\ mem' = mem
    BY <1>1, <1>2, MemStays DEF access_fault, axi_write_fault
  <1>4. pc' = pc /\ rf' = rf /\ csr' = csr
    BY <1>3 DEF CpuEdge, PcEdge, RegfileEdge, CsrEdge
  <1>5. finish' = finish
    BY DEF CpuEdge, TrapEdge, TypeOK, CpuTypeOK
  <1> QED
    BY <1>3, <1>4, <1>5

(***************************************************************************)
(* One clock cycle of the core is one step of the reference or none.       *)
(***************************************************************************)
LEMMA RefStep ==
    ASSUME TypeOK, BusInv, DataInv, IsaInv, CodeDiscipline, KnownCode, Tick
    PROVE  Ref!IsaNext \/ UNCHANGED <<pc, rf, csr, mem, finish>>
  BY RefNonMem, RefLoad, RefStore, SilentCycle DEF commit

(***************************************************************************)
(* A clock edge keeps IsaInv.                                              *)
(***************************************************************************)
LEMMA TickIsa ==
    ASSUME TypeOK, BusInv, DataInv, IsaInv, CodeDiscipline, Tick
    PROVE  IsaInv'
  <1> USE DEF Tick
  <1>1. rf'[0] = 0
    BY ParamsAssumption DEF IsaInv, CpuEdge, RegfileEdge, TypeOK, CpuTypeOK
  <1>2. state' \in {"MEM_REQ", "MEM_RSP"} => inst_reg' = mem'[pc']
    <2> SUFFICES ASSUME state' \in {"MEM_REQ", "MEM_RSP"}
                 PROVE  inst_reg' = mem'[pc']
      OBVIOUS
    <2>1. ~commit
      BY DEF commit, commit_non_mem, commit_mem, ifu_hsk_r, CpuEdge, FsmEdge,
             IfReq, IfRsp, MemReqLoad, MemReqStore, MemRsp
    <2>2. pc' = pc /\ mem' = mem
      BY <2>1, SilentCycle
    <2>3. CASE ifu_hsk_r
      BY <2>2, <2>3 DEF CpuEdge, InstRegEdge, DataInv, ifu_hsk_r
    <2>4. CASE ~ifu_hsk_r
      <3>1. state \in {"MEM_REQ", "MEM_RSP"}
        BY <2>4 DEF CpuEdge, FsmEdge, IfReq, IfRsp, MemReqLoad, MemReqStore, MemRsp
      <3> QED
        BY <2>2, <2>4, <3>1 DEF CpuEdge, InstRegEdge, IsaInv
    <2> QED
      BY <2>3, <2>4
  <1>3. soc_rvalid' /\ soc_rerr' => soc_raddr' \in FaultAddr
    <2> SUFFICES ASSUME soc_rvalid', soc_rerr' PROVE soc_raddr' \in FaultAddr
      OBVIOUS
    <2>1. CASE SocReadPresent
      <3>1. soc_rerr' # FALSE /\ soc_raddr' = soc_raddr
        BY <2>1 DEF SocReadPresent
      <3> QED
        BY <2>1, <3>1 DEF SocReadPresent, SocBeat
    <2>2. CASE SocReadWait(io_master_rready)
      BY <2>2 DEF SocReadWait, socReadVars, IsaInv
    <2>3. ~SocReadIdle(io_master_arvalid, io_master_rready)
      BY DEF SocReadIdle
    <2>4. ~SocReadAccept(io_master_arvalid, arb_araddr, arb_arlen)
      BY DEF SocReadAccept, BusInv, SocInv
    <2>5. ~SocReadNext(io_master_rready)
      BY DEF SocReadNext
    <2> QED
      BY <2>1, <2>2, <2>3, <2>4, <2>5 DEF SocEdge, SocRead
  <1>4. soc_bvalid' /\ soc_berr' => soc_awaddr' \in FaultAddr
    <2>1. CASE SocWriteCollect(io_master_awvalid, bus_addr, io_master_wvalid, rs2_data,
                               io_master_bready)
      <3>1. soc_bvalid' => soc_aw /\ soc_w
        BY <2>1 DEF SocWriteCollect, BusInv, SocInv
      <3>2. soc_aw => soc_awaddr' = soc_awaddr
        BY <2>1 DEF SocWriteCollect, BusInv, SocInv
      <3> QED
        BY <2>1, <3>1, <3>2 DEF SocWriteCollect, IsaInv
    <2>2. CASE SocWriteDone(io_master_bready)
      BY <2>2 DEF SocWriteDone
    <2> QED
      BY <2>1, <2>2 DEF SocEdge, SocWrite
  <1> QED
    BY <1>1, <1>2, <1>3, <1>4 DEF IsaInv

\* After reset both machines are about to run the same instruction.
LEMMA InitIsa ==
    ASSUME Init
    PROVE  IsaInv
  BY ParamsAssumption DEF Init, CpuInit, SocInit, IsaInv

\* No edge changes nothing of it.
LEMMA StutterIsa ==
    ASSUME IsaInv, UNCHANGED vars
    PROVE  IsaInv'
  BY DEF vars, cpuVars, busVars, socReadVars, socWriteVars, IsaInv

\* For every program that keeps CodeDiscipline, cache geometry, decoder and
\* SoC timing: the instruction that waits for memory is still the one at pc,
\* x0 reads as 0, and an error response is about an address that may fail.
THEOREM IsaInvariant == Spec /\ []CodeDiscipline => []IsaInv
  <1>1. Init => IsaInv
    BY InitIsa
  <1>2. TypeOK /\ BusInv /\ DataInv /\ IsaInv /\ CodeDiscipline /\ [Next]_vars => IsaInv'
    BY TickIsa, StutterIsa DEF Next, Finished
  <1> QED
    BY <1>1, <1>2, BusInvariant, DataInvariant, PTL DEF Spec

(***************************************************************************)
(* The core implements NEMU: for every program of instructions NEMU knows  *)
(* that keeps CodeDiscipline, and for every timing and every failing data  *)
(* access, each clock cycle is one step of the reference machine or leaves *)
(* its state unchanged.                                                    *)
(***************************************************************************)
THEOREM CoreImplementsNemu ==
    Spec /\ []CodeDiscipline /\ []KnownCode => ImplementsNemu
  <1>1. Init => Ref!IsaInit
    BY DEF Init, CpuInit, SocInit, Ref!IsaInit, CsrName, Ref!CsrName
  <1>2. TypeOK /\ BusInv /\ DataInv /\ IsaInv /\ CodeDiscipline /\ KnownCode /\ [Next]_vars
           => [Ref!IsaNext]_Ref!isaVars
    <2> SUFFICES ASSUME TypeOK, BusInv, DataInv, IsaInv, CodeDiscipline, KnownCode,
                        [Next]_vars
                 PROVE  Ref!IsaNext \/ UNCHANGED Ref!isaVars
      OBVIOUS
    <2>1. CASE Tick
      BY <2>1, RefStep DEF Ref!isaVars
    <2>2. CASE UNCHANGED vars
      BY <2>2 DEF vars, cpuVars, busVars, socWriteVars, Ref!isaVars
    <2> QED
      BY <2>1, <2>2 DEF Next, Finished
  <1> QED
    BY <1>1, <1>2, BusInvariant, DataInvariant, IsaInvariant, PTL
    DEF Spec, ImplementsNemu, Ref!IsaSpec

=============================================================================

--------------------------- MODULE NpcCore_proofs ---------------------------
(***************************************************************************)
(* Proofs about the NPC core, for every memory size, cache geometry,       *)
(* decoder and program: type correctness, the invariants of the bus and    *)
(* the stability of requests.                                              *)
(***************************************************************************)
EXTENDS NpcCore, TLAPS

-----------------------------------------------------------------------------
(* The address slices: the arithmetic the proofs about the core rest on.   *)

(***************************************************************************)
(* Quotient and remainder, the arithmetic behind taking bit slices.        *)
(***************************************************************************)
LEMMA DivMod ==
    ASSUME NEW n \in Nat, NEW d \in Nat \ {0}
    PROVE  /\ n \div d \in Nat
           /\ n % d \in 0 .. d - 1
           /\ n = d * (n \div d) + (n % d)
  OBVIOUS

(***************************************************************************)
(* Quotient and remainder are determined by n = d * q + r with 0 <= r < d. *)
(***************************************************************************)
LEMMA DivModUnique ==
    ASSUME NEW d \in Nat \ {0}, NEW q \in Nat, NEW r \in 0 .. d - 1
    PROVE  /\ (d * q + r) \div d = q
           /\ (d * q + r) % d = r
  <1> DEFINE n == d * q + r
  <1>1. n \in Nat
    OBVIOUS
  <1>2. PICK e \in Nat, s \in 0 .. d - 1 :
            e = n \div d /\ s = n % d /\ n = d * e + s
    BY <1>1, DivMod
  <1>3. d * q + r = d * e + s
    BY <1>2
  <1>4. ~(q < e)
    <2> SUFFICES ASSUME q < e PROVE FALSE
      OBVIOUS
    <2>1. e >= q + 1
      OBVIOUS
    <2>2. d * e >= d * (q + 1)
      BY <2>1
    <2> QED
      BY <2>2, <1>3
  <1>5. ~(e < q)
    <2> SUFFICES ASSUME e < q PROVE FALSE
      OBVIOUS
    <2>1. q >= e + 1
      OBVIOUS
    <2>2. d * q >= d * (e + 1)
      BY <2>1
    <2> QED
      BY <2>2, <1>3
  <1>6. e = q
    BY <1>4, <1>5
  <1>7. s = r
    BY <1>3, <1>6
  <1> QED
    BY <1>2, <1>6, <1>7

(***************************************************************************)
(* The sum of two values, taken modulo 2^w, is a value.                    *)
(***************************************************************************)
LEMMA WrapVal ==
    ASSUME NEW a \in Nat
    PROVE  a % ValNum \in Val
  BY ParamsAssumption, DivMod DEF Val

(***************************************************************************)
(* A line is a run of WORDS_PER_LINE values: word k of the line of a is a  *)
(* value, in the same line, with word slice k.                             *)
(***************************************************************************)
LEMMA LineWord ==
    ASSUME NEW a \in Val, NEW k \in Word
    PROVE  /\ LineBase(a) + k \in Val
           /\ LineOf(LineBase(a) + k) = LineOf(a)
           /\ WordOf(LineBase(a) + k) = k
  <1> DEFINE W == WORDS_PER_LINE
             q == LineOf(a)
             n == ValNum \div W
  <1>1. W \in Nat \ {0} /\ ValNum \in Nat \ {0} /\ a \in Nat /\ a < ValNum
    BY ParamsAssumption DEF Val
  <1>2. q \in Nat /\ a % W \in 0 .. W - 1 /\ a = W * q + (a % W)
    BY <1>1, DivMod DEF LineOf
  <1>3. n \in Nat /\ ValNum = W * n
    BY <1>1, DivMod, ParamsAssumption
  <1>4. k \in 0 .. W - 1
    BY DEF Word, LAST_WORD
  <1>5. q < n
    <2> SUFFICES ASSUME n <= q PROVE FALSE
      BY <1>2, <1>3
    <2>1. W * n <= W * q
      BY <1>1, <1>2, <1>3
    <2> QED
      BY <2>1, <1>1, <1>2, <1>3
  <1>6. W * q + k < W * n
    <2>1. W * (q + 1) <= W * n
      BY <1>1, <1>2, <1>3, <1>5
    <2> QED
      BY <2>1, <1>1, <1>2, <1>3, <1>4
  <1>7. W * q + k \in Val
    BY <1>1, <1>2, <1>3, <1>4, <1>6 DEF Val
  <1>8. (W * q + k) \div W = q /\ (W * q + k) % W = k
    BY <1>1, <1>2, <1>4, DivModUnique
  <1> QED
    BY <1>7, <1>8 DEF LineBase, LineOf, WordOf

(***************************************************************************)
(* Two addresses with the same tag, index and word are the same address:   *)
(* the slices lose nothing, so a hit identifies the word.                  *)
(***************************************************************************)
LEMMA SlicesInjective ==
    ASSUME NEW a \in Val, NEW b \in Val,
           TagOf(a) = TagOf(b), IndexOf(a) = IndexOf(b), WordOf(a) = WordOf(b)
    PROVE  a = b
  <1>1. a \in Nat /\ b \in Nat
    BY ParamsAssumption DEF Val
  <1>2. LineOf(a) \in Nat /\ LineOf(b) \in Nat
    BY <1>1, DivMod, ParamsAssumption DEF LineOf
  <1>3. LineOf(a) = LineOf(b)
    <2>1. LINE_NUM \in Nat \ {0}
      BY ParamsAssumption
    <2>2. LineOf(a) = LINE_NUM * TagOf(a) + IndexOf(a)
      BY <1>2, <2>1, DivMod DEF TagOf, IndexOf
    <2>3. LineOf(b) = LINE_NUM * TagOf(b) + IndexOf(b)
      BY <1>2, <2>1, DivMod DEF TagOf, IndexOf
    <2> QED
      BY <2>2, <2>3
  <1> QED
    BY <1>1, <1>3, DivMod, ParamsAssumption DEF LineOf, WordOf

(***************************************************************************)
(* The slices of an address have their types.                              *)
(***************************************************************************)
LEMMA SliceTypes ==
    ASSUME NEW a \in Val
    PROVE  /\ IndexOf(a) \in Index
           /\ WordOf(a) \in Word
           /\ TagOf(a) \in Tag
  <1>1. a \in Nat
    BY ParamsAssumption DEF Val
  <1>2. LineOf(a) \in Nat
    BY <1>1, DivMod, ParamsAssumption DEF LineOf
  <1>3. IndexOf(a) \in Index
    BY <1>2, DivMod, ParamsAssumption DEF IndexOf, Index
  <1>4. WordOf(a) \in Word
    BY <1>1, DivMod, ParamsAssumption DEF WordOf, Word, LAST_WORD
  <1> QED
    BY <1>3, <1>4 DEF Tag

(***************************************************************************)
(* All words of a line have its tag and index, and its cacheability.       *)
(***************************************************************************)
LEMMA LineSlices ==
    ASSUME NEW a \in Val, NEW k \in Word
    PROVE  /\ TagOf(LineBase(a) + k) = TagOf(a)
           /\ IndexOf(LineBase(a) + k) = IndexOf(a)
  BY LineWord DEF TagOf, IndexOf

(***************************************************************************)
(* An address is word WordOf(a) of its own line.                           *)
(***************************************************************************)
LEMMA OwnWord ==
    ASSUME NEW a \in Val
    PROVE  LineBase(a) + WordOf(a) = a
  <1>1. a \in Nat
    BY ParamsAssumption DEF Val
  <1> QED
    BY <1>1, DivMod, ParamsAssumption DEF LineBase, LineOf, WordOf

-----------------------------------------------------------------------------

(***************************************************************************)
(* Types of the wires between the registers: the decoded instruction, the  *)
(* operands, the next pc, the CSR data and the merged read data.           *)
(***************************************************************************)
LEMMA WireTypes ==
    ASSUME TypeOK
    PROVE  /\ inst \in Inst
           /\ rs1_data \in Val /\ rs2_data \in Val
           /\ bus_addr \in Val /\ alu_result \in Val
           /\ snpc \in Val /\ dnpc \in Val
           /\ csr_rdata \in Val /\ csr_wdata \in Val
           /\ arb_rdata \in Val
  <1>0. 0 \in Val /\ Val \subseteq Nat /\ ValNum \in Nat \ {0}
    BY ParamsAssumption DEF Val
  <1>1. inst \in Inst
    BY ParamsAssumption DEF TypeOK, CpuTypeOK, IcTypeOK, inst
  <1>2. rs1_data \in Val /\ rs2_data \in Val
    BY <1>0, <1>1 DEF TypeOK, CpuTypeOK, rs1_data, rs2_data, Inst
  <1>3. inst.imm \in Val /\ pc \in Val
    BY <1>1 DEF Inst, TypeOK, CpuTypeOK
  <1>4. /\ bus_addr \in Val /\ alu_result \in Val /\ snpc \in Val
        /\ (pc + inst.imm) % ValNum \in Val
        /\ (rs1_data + inst.imm) % ValNum \in Val
    <2>1. rs1_data \in Nat /\ inst.imm \in Nat /\ pc \in Nat
      BY <1>0, <1>2, <1>3
    <2>2. ASSUME NEW a \in Nat, NEW b \in Nat PROVE (a + b) % ValNum \in Val
      BY WrapVal
    <2> QED
      BY <2>1, <2>2 DEF bus_addr, alu_result, snpc
  <1>5. csr["mtvec"] \in Val /\ csr["mepc"] \in Val
    BY DEF TypeOK, CpuTypeOK, CsrName
  <1>6. dnpc \in Val
    BY <1>4, <1>5 DEF dnpc
  <1>7. csr_rdata \in Val
    BY <1>0, <1>1 DEF csr_rdata, Inst, TypeOK, CpuTypeOK
  <1>8. csr_wdata \in Val
    BY <1>2, <1>7, ParamsAssumption DEF csr_wdata
  <1>9. arb_rdata \in Val
    BY DEF arb_rdata, TypeOK, ClintTypeOK, SocTypeOK
  <1> QED
    BY <1>1, <1>2, <1>4, <1>6, <1>7, <1>8, <1>9

(***************************************************************************)
(* A clock edge keeps the CPU's registers in their types.                  *)
(***************************************************************************)
LEMMA CpuType ==
    ASSUME TypeOK, CpuEdge
    PROVE  CpuTypeOK'
  <1> USE DEF TypeOK, CpuEdge, CpuTypeOK
  <1>1. /\ state' \in {"IF_REQ", "IF_RSP", "MEM_REQ", "MEM_RSP"}
        /\ aw_done' \in BOOLEAN /\ w_done' \in BOOLEAN
    BY DEF FsmEdge, IfReq, IfRsp, MemReqLoad, MemReqStore, MemRsp
  <1>2. inst_reg' \in Val
    BY DEF InstRegEdge, IcTypeOK
  <1>3. pc' \in Val
    BY WireTypes DEF PcEdge, CsrName
  <1>4. csr' \in [CsrName -> Val]
    <2>1. {1, 5, 7, 11} \subseteq Val
      BY ParamsAssumption, CauseAssumption DEF Val
    <2>2. inst \in Inst /\ csr_wdata \in Val
      BY WireTypes
    <2> QED
      BY <2>1, <2>2 DEF CsrEdge, access_fault_cause, CsrName, Inst
  <1>5. rf' \in [Reg -> Val]
    <2>1. rf_wdata \in Val
      BY WireTypes DEF rf_wdata
    <2>2. inst \in Inst
      BY WireTypes
    <2> QED
      BY <2>1, <2>2 DEF RegfileEdge, Inst
  <1>6. finish' \in BOOLEAN
    BY DEF TrapEdge
  <1> QED
    BY <1>1, <1>2, <1>3, <1>4, <1>5, <1>6

(***************************************************************************)
(* A clock edge keeps the I-cache's registers and arrays in their types.   *)
(***************************************************************************)
LEMMA IcacheType ==
    ASSUME TypeOK, IcacheEdge
    PROVE  IcTypeOK'
  <1> USE DEF TypeOK, IcTypeOK
  <1>1. arb_rdata \in Val /\ pc \in Val
    BY WireTypes DEF CpuTypeOK
  <1>2. 0 \in Word /\ fill_word \in Word
    BY ParamsAssumption DEF Word, LAST_WORD
  <1>3. /\ IndexOf(pc) \in Index /\ WordOf(pc) \in Word
        /\ IndexOf(req_addr) \in Index /\ TagOf(req_addr) \in Tag
    BY <1>1, SliceTypes
  <1>4. fill_word # LAST_WORD => fill_word + 1 \in Word
    BY <1>2, ParamsAssumption DEF Word, LAST_WORD
  <1>5. CASE IcHit(ifu_arvalid, pc)
    BY <1>5, <1>1, <1>3 DEF IcHit
  <1>6. CASE IcMiss(ifu_arvalid, pc)
    BY <1>6, <1>1, <1>2 DEF IcMiss
  <1>7. CASE IcIdle(ifu_arvalid, ifu_rready)
    BY <1>7 DEF IcIdle, RespKept
  <1>8. CASE IcMissAr(ifu_rready, arb_state = "GRANT_IFU" /\ arb_arready)
    BY <1>8 DEF IcMissAr, RespKept
  <1>9. CASE IcFillBeat(ifu_rready, arb_state = "GRANT_IFU" /\ arb_rvalid, arb_rdata, arb_rlast)
    BY <1>9, <1>1, <1>2, <1>3, <1>4 DEF IcFillBeat, RespKept
  <1>10. CASE IcUncachedBeat(arb_state = "GRANT_IFU" /\ arb_rvalid, arb_rdata)
    BY <1>10, <1>1 DEF IcUncachedBeat
  <1>11. CASE IcWaitBeat(ifu_rready, arb_state = "GRANT_IFU" /\ arb_rvalid)
    BY <1>11 DEF IcWaitBeat, RespKept
  <1>12. CASE IcResp(ifu_rready)
    BY <1>12 DEF IcResp, RespKept
  <1> QED
    BY <1>5, <1>6, <1>7, <1>8, <1>9, <1>10, <1>11, <1>12 DEF IcacheEdge, IcEdge

(***************************************************************************)
(* A clock edge keeps the CLINT's registers in their types: each half of   *)
(* mtime fits a value.                                                     *)
(***************************************************************************)
LEMMA ClintType ==
    ASSUME TypeOK, ClintPortEdge
    PROVE  ClintTypeOK'
  <1> USE DEF TypeOK, ClintTypeOK
  <1>1. mtime' \in Mtime
    <2>1. MtimeHalf * MtimeHalf \in Nat \ {0} /\ mtime + 1 \in Nat
      BY ClintAssumption DEF Mtime
    <2> QED
      BY <2>1, DivMod DEF ClintPortEdge, ClintEdge, ClintTime, Mtime
  <1>2. mtime % MtimeHalf \in Val /\ mtime \div MtimeHalf \in Val /\ 0 \in Val
    <2> DEFINE q == mtime \div MtimeHalf
    <2>1. MtimeHalf \in Nat \ {0} /\ mtime \in Nat /\ mtime < MtimeHalf * MtimeHalf
      BY ClintAssumption DEF Mtime
    <2>2. /\ q \in Nat /\ mtime % MtimeHalf \in 0 .. MtimeHalf - 1
          /\ mtime = MtimeHalf * q + (mtime % MtimeHalf)
      BY <2>1, DivMod
    <2>3. q < MtimeHalf
      <3> SUFFICES ASSUME MtimeHalf <= q PROVE FALSE
        BY <2>1, <2>2
      <3>1. MtimeHalf * MtimeHalf <= MtimeHalf * q
        BY <2>1, <2>2
      <3> QED
        BY <3>1, <2>1, <2>2
    <2>4. ASSUME NEW n \in Nat, n < MtimeHalf PROVE n \in Val
      BY <2>1, <2>4, ClintAssumption, ParamsAssumption DEF Val
    <2>5. q \in Val
      BY <2>2, <2>3, <2>4
    <2>6. (mtime % MtimeHalf) \in Nat /\ (mtime % MtimeHalf) < MtimeHalf
      BY <2>1, <2>2
    <2>7. 0 \in Val
      BY ParamsAssumption DEF Val
    <2> QED
      BY <2>4, <2>5, <2>6, <2>7
  <1>3. clint_rvalid' \in BOOLEAN /\ clint_rdata' \in Val
    BY <1>2 DEF ClintPortEdge, ClintEdge, ClintRead
  <1>4. clint_bvalid' \in BOOLEAN
    BY DEF ClintPortEdge, ClintEdge, ClintWrite, lsu_bready, lsu_awvalid, lsu_wvalid
  <1> QED
    BY <1>1, <1>3, <1>4

(***************************************************************************)
(* The start of a line is a value with the line's tag and index.           *)
(***************************************************************************)
LEMMA LineBaseFacts ==
    ASSUME NEW a \in Val
    PROVE  /\ LineBase(a) \in Val
           /\ LineBase(a) \in Nat
           /\ TagOf(LineBase(a)) = TagOf(a)
  <1>1. 0 \in Word
    BY ParamsAssumption DEF Word, LAST_WORD
  <1>2. LineBase(a) \in Nat
    <2>1. a \in Nat
      BY ParamsAssumption DEF Val
    <2>2. LineOf(a) \in Nat
      BY <2>1, DivMod, ParamsAssumption DEF LineOf
    <2> QED
      BY <2>2, ParamsAssumption DEF LineBase
  <1>3. LineBase(a) + 0 = LineBase(a)
    BY <1>2
  <1> QED
    BY <1>1, <1>2, <1>3, LineWord, LineSlices

(***************************************************************************)
(* The request the I-cache offers has the types of the bus, and a line     *)
(* fill never goes to the CLINT.                                           *)
(***************************************************************************)
LEMMA IcRequest ==
    ASSUME TypeOK
    PROVE  /\ ic_mem_araddr \in Val
           /\ ic_mem_arlen \in Word
           /\ Cacheable(req_addr) => ~InClint(ic_mem_araddr)
  <1>1. req_addr \in Val
    BY DEF TypeOK, IcTypeOK
  <1>2. 0 \in Word /\ LAST_WORD \in Word
    BY ParamsAssumption DEF Word, LAST_WORD
  <1>3. Cacheable(req_addr) => ~InClint(ic_mem_araddr)
    BY <1>1, LineBaseFacts, ParamsAssumption DEF ic_mem_araddr, Cacheable, InClint
  <1> QED
    BY <1>1, <1>2, <1>3, LineBaseFacts DEF ic_mem_araddr, ic_mem_arlen

(***************************************************************************)
(* The read channel of the SoC when the core offers nothing.               *)
(***************************************************************************)
LEMMA SocReadQuiet ==
    ASSUME SocEdge, SocInv, ~io_master_arvalid, ~soc_rbusy
    PROVE  ~soc_rbusy' /\ ~soc_rvalid'
  BY DEF SocEdge, SocRead, SocReadIdle, SocReadAccept, SocReadWait,
         SocReadPresent, SocReadNext, SocInv, socReadVars

(***************************************************************************)
(* The read channel of the SoC when the core offers an address.            *)
(***************************************************************************)
LEMMA SocReadStart ==
    ASSUME SocEdge, SocInv, io_master_arvalid, ~soc_rbusy
    PROVE  /\ ~soc_rvalid'
           /\ \/ ~soc_arready /\ ~soc_rbusy'
              \/ /\ soc_arready /\ soc_rbusy' /\ ~soc_arready'
                 /\ soc_raddr' = arb_araddr /\ soc_rleft' = arb_arlen
  BY DEF SocEdge, SocRead, SocReadIdle, SocReadAccept, SocReadWait,
         SocReadPresent, SocReadNext, SocInv, socReadVars

(***************************************************************************)
(* The read channel of the SoC during a burst.                             *)
(***************************************************************************)
LEMMA SocReadServing ==
    ASSUME SocEdge, SocInv, soc_rbusy
    PROVE  \/ /\ soc_rvalid /\ io_master_rready /\ soc_rlast
              /\ ~soc_rbusy' /\ ~soc_rvalid'
           \/ /\ soc_rvalid /\ io_master_rready /\ ~soc_rlast
              /\ soc_rbusy' /\ ~soc_rvalid' /\ ~soc_arready'
              /\ soc_raddr' = soc_raddr + 1 /\ soc_rleft' = soc_rleft - 1
           \/ /\ ~(soc_rvalid /\ io_master_rready)
              /\ soc_rbusy' /\ ~soc_arready'
              /\ soc_raddr' = soc_raddr /\ soc_rleft' = soc_rleft
  BY DEF SocEdge, SocRead, SocReadIdle, SocReadAccept, SocReadWait,
         SocReadPresent, SocReadNext, SocInv, socReadVars

(***************************************************************************)
(* The write channel of the SoC when the core offers nothing.              *)
(***************************************************************************)
LEMMA SocWriteQuiet ==
    ASSUME SocEdge, ~io_master_awvalid, ~io_master_wvalid,
           ~soc_aw, ~soc_w, ~soc_bvalid
    PROVE  ~soc_aw' /\ ~soc_w' /\ ~soc_bvalid'
  BY DEF SocEdge, SocWrite, SocWriteCollect, SocWriteDone

(***************************************************************************)
(* The CLINT when the core offers it nothing.                              *)
(***************************************************************************)
LEMMA ClintReadQuiet ==
    ASSUME ClintPortEdge, ~(arb_arvalid /\ sel_clint), ~clint_rvalid
    PROVE  ~clint_rvalid'
  BY DEF ClintPortEdge, ClintEdge, ClintRead

\* The CLINT answers no store that is not for it.
LEMMA ClintWriteQuiet ==
    ASSUME ClintPortEdge, ~(lsu_awvalid /\ lsu_wvalid /\ sel_clint_w), ~clint_bvalid
    PROVE  ~clint_bvalid'
  BY DEF ClintPortEdge, ClintEdge, ClintWrite

(***************************************************************************)
(* While nobody reads, the channels of the core that are not used stay     *)
(* quiet: nothing is offered outside the MEM states.                       *)
(***************************************************************************)
LEMMA FetchStateWires ==
    ASSUME state \in {"IF_REQ", "IF_RSP"}
    PROVE  /\ ~lsu_arvalid /\ ~lsu_rready
           /\ ~lsu_awvalid /\ ~lsu_wvalid /\ ~lsu_bready
           /\ ~io_master_awvalid /\ ~io_master_wvalid
           /\ ~commit_mem
  BY DEF lsu_arvalid, lsu_rready, lsu_awvalid, lsu_wvalid, lsu_bready,
         io_master_awvalid, io_master_wvalid, commit_mem

(***************************************************************************)
(* In the fetch states the write side does not move.                       *)
(***************************************************************************)
LEMMA NoWriteStep ==
    ASSUME CpuEdge, ClintPortEdge, SocEdge, NoWrite, state \in {"IF_REQ", "IF_RSP"}
    PROVE  NoWrite'
  <1>1. ~soc_aw' /\ ~soc_w' /\ ~soc_bvalid'
    BY FetchStateWires, SocWriteQuiet DEF NoWrite
  <1>2. ~clint_bvalid'
    BY FetchStateWires, ClintWriteQuiet DEF NoWrite
  <1>3. ~aw_done' /\ ~w_done'
    BY DEF NoWrite, CpuEdge, FsmEdge, IfReq, IfRsp, MemReqLoad, MemReqStore, MemRsp
  <1> QED
    BY <1>1, <1>2, <1>3 DEF NoWrite

(***************************************************************************)
(* Without a write under way SocInv is about the read channel only.        *)
(***************************************************************************)
LEMMA SocInvRead ==
    ASSUME NoWrite', soc_rvalid' => soc_rbusy', soc_rbusy' => ~soc_arready'
    PROVE  SocInv'
  BY DEF SocInv, NoWrite

(***************************************************************************)
(* A fetch request: the I-cache is free, so it is accepted at once.        *)
(***************************************************************************)
LEMMA StepIfReq ==
    ASSUME TypeOK, BusInv, Tick, state = "IF_REQ"
    PROVE  BusInv'
  <1> USE DEF Tick
  <1>1. arb_state = "IDLE" /\ IcQuiet /\ NoRead /\ NoWrite /\ SocInv
    BY DEF BusInv, PhaseIfReq
  <1>2. NoWrite'
    BY <1>1, NoWriteStep
  <1>3. ~arb_arvalid /\ ~io_master_arvalid
    BY <1>1 DEF arb_arvalid, Granted, io_master_arvalid
  <1>4. ~soc_rbusy' /\ ~soc_rvalid'
    BY <1>1, <1>3, SocReadQuiet DEF NoRead
  <1>5. NoRead'
    BY <1>1, <1>3, <1>4, ClintReadQuiet DEF NoRead
  <1>6. SocInv'
    BY <1>2, <1>4, SocInvRead
  <1>7. arb_state' = "IDLE"
    BY <1>1, FetchStateWires DEF ArbiterEdge, ArbEdge, ic_mem_arvalid, IcQuiet
  <1>8. state' = "IF_RSP"
    BY <1>1 DEF CpuEdge, FsmEdge, IfReq, IfRsp, MemReqLoad, MemReqStore, MemRsp,
                ifu_hsk_ar, ifu_arvalid, ic_cpu_arready, IcQuiet
  <1>9. \/ resp_valid' /\ ic_state' = "IDLE"
        \/ ~resp_valid' /\ ic_state' = "MISS_AR" /\ fill_word' = 0
    BY <1>1 DEF IcacheEdge, IcEdge, IcHit, IcMiss, IcIdle, IcMissAr, IcFillBeat,
                IcUncachedBeat, IcWaitBeat, IcResp, ifu_arvalid, ic_cpu_arready, IcQuiet
  <1> QED
    BY <1>2, <1>5, <1>6, <1>7, <1>8, <1>9
    DEF BusInv, PhaseIfReq, PhaseIfRsp, PhaseLoad, PhaseStore

(***************************************************************************)
(* The state after a fetched instruction is taken: it is latched, so the   *)
(* decoder sees the same instruction in the MEM states.                    *)
(***************************************************************************)
LEMMA InstLatched ==
    ASSUME CpuEdge, ifu_hsk_r
    PROVE  /\ state' = IF is_mem_inst THEN "MEM_REQ" ELSE "IF_REQ"
           /\ inst' = inst
  BY DEF CpuEdge, FsmEdge, IfReq, IfRsp, MemReqLoad, MemReqStore, MemRsp,
         InstRegEdge, ifu_hsk_r, inst

(***************************************************************************)
(* Waiting for the fetch: the response of the I-cache is taken.            *)
(***************************************************************************)
LEMMA StepIfRspTaken ==
    ASSUME TypeOK, BusInv, Tick, state = "IF_RSP", resp_valid
    PROVE  BusInv'
  <1> USE DEF Tick
  <1>1. /\ ic_state \in {"IDLE", "RESP"} /\ arb_state = "IDLE"
        /\ NoRead /\ NoWrite /\ SocInv
    BY DEF BusInv, PhaseIfRsp
  <1>2. NoWrite'
    BY <1>1, NoWriteStep
  <1>3. ~arb_arvalid /\ ~io_master_arvalid
    BY <1>1 DEF arb_arvalid, Granted, io_master_arvalid
  <1>4. ~soc_rbusy' /\ ~soc_rvalid'
    BY <1>1, <1>3, SocReadQuiet DEF NoRead
  <1>5. NoRead'
    BY <1>1, <1>3, <1>4, ClintReadQuiet DEF NoRead
  <1>6. SocInv'
    BY <1>2, <1>4, SocInvRead
  <1>7. arb_state' = "IDLE"
    BY <1>1, FetchStateWires DEF ArbiterEdge, ArbEdge, ic_mem_arvalid
  <1>8. IcQuiet'
    BY <1>1 DEF IcacheEdge, IcEdge, IcHit, IcMiss, IcIdle, IcMissAr, IcFillBeat,
                IcUncachedBeat, IcWaitBeat, IcResp, RespKept, ifu_rready,
                ic_cpu_arready, IcQuiet
  <1>9. /\ state' = IF is_mem_inst THEN "MEM_REQ" ELSE "IF_REQ"
        /\ inst' = inst
    BY InstLatched DEF ifu_hsk_r
  <1>10. PhaseStore'
    BY <1>2, <1>5, <1>7, <1>8, <1>9
    DEF PhaseStore, NoWrite, is_mem_inst, op_load, op_store
  <1> QED
    BY <1>2, <1>5, <1>6, <1>7, <1>8, <1>9, <1>10
    DEF BusInv, PhaseIfReq, PhaseIfRsp, PhaseLoad

(***************************************************************************)
(* Waiting for the fetch: the I-cache waits for the grant, or offers its   *)
(* address to the CLINT or to the SoC.                                     *)
(***************************************************************************)
LEMMA StepIfRspAddress ==
    ASSUME TypeOK, BusInv, Tick, state = "IF_RSP", ~resp_valid, ic_state = "MISS_AR"
    PROVE  BusInv'
  <1> USE DEF Tick
  <1>1. /\ fill_word = 0 /\ arb_state # "GRANT_LSU" /\ NoRead /\ NoWrite /\ SocInv
        /\ arb_state \in {"IDLE", "GRANT_IFU"}
    BY DEF BusInv, PhaseIfRsp, TypeOK, ArbTypeOK
  <1>2. NoWrite'
    BY <1>1, NoWriteStep
  <1>3. state' = "IF_RSP"
    BY DEF CpuEdge, FsmEdge, IfReq, IfRsp, MemReqLoad, MemReqStore, MemRsp, ifu_hsk_r
  <1>4. /\ ~resp_valid' /\ req_addr' = req_addr /\ fill_word' = 0
        /\ ic_state' = IF arb_state = "GRANT_IFU" /\ arb_arready
                       THEN "MISS_R" ELSE "MISS_AR"
    BY <1>1 DEF IcacheEdge, IcEdge, IcHit, IcMiss, IcIdle, IcMissAr, IcFillBeat,
                IcUncachedBeat, IcWaitBeat, IcResp, RespKept, ic_cpu_arready
  <1>5. CASE arb_state = "IDLE"
    <2>1. ~arb_arvalid /\ ~io_master_arvalid
      BY <1>5 DEF arb_arvalid, Granted, io_master_arvalid
    <2>2. ~soc_rbusy' /\ ~soc_rvalid'
      BY <1>1, <2>1, SocReadQuiet DEF NoRead
    <2>3. NoRead'
      BY <1>1, <2>1, <2>2, ClintReadQuiet DEF NoRead
    <2>4. SocInv'
      BY <1>2, <2>2, SocInvRead
    <2>5. arb_state' # "GRANT_LSU"
      BY <1>5, FetchStateWires DEF ArbiterEdge, ArbEdge
    <2> QED
      BY <1>2, <1>3, <1>4, <1>5, <2>3, <2>4, <2>5
      DEF BusInv, PhaseIfReq, PhaseIfRsp, PhaseLoad, PhaseStore
  <1>6. CASE arb_state = "GRANT_IFU"
    <2>1. /\ arb_arvalid /\ arb_araddr = ic_mem_araddr /\ arb_arlen = ic_mem_arlen
          /\ ~arb_rready
      BY <1>6 DEF arb_arvalid, arb_araddr, arb_arlen, arb_rready, Granted,
                  ic_mem_arvalid, ic_mem_rready
    <2>2. arb_state' = "GRANT_IFU"
      BY <1>6, <2>1 DEF ArbiterEdge, ArbEdge
    <2>3. CASE sel_clint
      <3>1. ~io_master_arvalid /\ arb_arready
        BY <1>1, <2>3 DEF io_master_arvalid, arb_arready, clint_arready, NoRead
      <3>2. ~soc_rbusy' /\ ~soc_rvalid'
        BY <1>1, <3>1, SocReadQuiet DEF NoRead
      <3>3. clint_rvalid'
        BY <1>1, <2>1, <2>3 DEF ClintPortEdge, ClintEdge, ClintRead, NoRead
      <3>4. ~Cacheable(req_addr)
        BY <2>1, <2>3, IcRequest DEF sel_clint
      <3>5. SocInv'
        BY <1>2, <3>2, SocInvRead
      <3>6. BurstInStep'
        BY <1>4, <2>2, <3>2, <3>3, <3>4 DEF BurstInStep, Cacheable
      <3> QED
        BY <1>2, <1>3, <1>4, <1>6, <3>1, <3>5, <3>6
        DEF BusInv, PhaseIfReq, PhaseIfRsp, PhaseLoad, PhaseStore
    <2>4. CASE ~sel_clint
      <3>1. io_master_arvalid /\ arb_arready = soc_arready
        BY <2>1, <2>4 DEF io_master_arvalid, arb_arready
      <3>2. ~clint_rvalid'
        BY <1>1, <2>4, ClintReadQuiet DEF NoRead
      <3>3. CASE soc_arready
        <4>1. /\ ~soc_rvalid' /\ soc_rbusy' /\ ~soc_arready'
              /\ soc_raddr' = ic_mem_araddr /\ soc_rleft' = ic_mem_arlen
          BY <1>1, <2>1, <3>1, <3>3, SocReadStart DEF NoRead
        <4>2. SocInv'
          BY <1>2, <4>1, SocInvRead
        <4>3. Cacheable(req_addr) =>
                  /\ soc_raddr' = LineBase(req_addr) + 0
                  /\ soc_rleft' = LAST_WORD - 0
          <5>1. LineBase(req_addr) \in Nat
            BY LineBaseFacts DEF TypeOK, IcTypeOK
          <5>2. LAST_WORD \in Nat
            BY ParamsAssumption DEF LAST_WORD
          <5> QED
            BY <4>1, <5>1, <5>2 DEF ic_mem_araddr, ic_mem_arlen
        <4>4. ~Cacheable(req_addr) => soc_raddr' = req_addr /\ soc_rleft' = 0
          BY <4>1 DEF ic_mem_araddr, ic_mem_arlen
        <4>5. BurstInStep'
          BY <1>4, <2>2, <4>1, <4>3, <4>4, <3>2 DEF BurstInStep, Cacheable, LineBase
        <4> QED
          BY <1>2, <1>3, <1>4, <1>6, <3>1, <3>3, <4>2, <4>5
          DEF BusInv, PhaseIfReq, PhaseIfRsp, PhaseLoad, PhaseStore
      <3>4. CASE ~soc_arready
        <4>1. ~soc_rvalid' /\ ~soc_rbusy'
          BY <1>1, <3>1, <3>4, SocReadStart DEF NoRead
        <4>2. SocInv'
          BY <1>2, <4>1, SocInvRead
        <4>3. ic_state' = "MISS_AR"
          BY <1>4, <3>1, <3>4
        <4> QED
          BY <1>2, <1>3, <1>4, <2>2, <3>2, <4>1, <4>2, <4>3
          DEF BusInv, PhaseIfReq, PhaseIfRsp, PhaseLoad, PhaseStore, NoRead
      <3> QED
        BY <3>3, <3>4
    <2> QED
      BY <2>3, <2>4
  <1> QED
    BY <1>1, <1>5, <1>6

(***************************************************************************)
(* Waiting for the fetch: a burst, or a single beat, is under way.  The    *)
(* I-cache's fill_word and the slave's beat counter move together, so the  *)
(* last beat of the burst is the last word of the line.                    *)
(***************************************************************************)
LEMMA StepIfRspData ==
    ASSUME TypeOK, BusInv, Tick, state = "IF_RSP", ~resp_valid, ic_state = "MISS_R"
    PROVE  BusInv'
  <1> USE DEF Tick
  <1>1. BurstInStep /\ NoWrite /\ SocInv /\ arb_state = "GRANT_IFU"
    BY DEF BusInv, PhaseIfRsp, BurstInStep
  <1>2. NoWrite'
    BY <1>1, NoWriteStep
  <1>3. state' = "IF_RSP"
    BY DEF CpuEdge, FsmEdge, IfReq, IfRsp, MemReqLoad, MemReqStore, MemRsp, ifu_hsk_r
  <1>4. ~arb_arvalid /\ arb_rready /\ ~io_master_arvalid
    BY <1>1 DEF arb_arvalid, arb_rready, Granted, ic_mem_arvalid, ic_mem_rready,
                io_master_arvalid
  <1>5. req_addr' = req_addr
    BY DEF IcacheEdge, IcEdge, IcHit, IcMiss, IcIdle, IcMissAr, IcFillBeat,
           IcUncachedBeat, IcWaitBeat, IcResp, ic_cpu_arready
  <1>6. CASE clint_rvalid
    <2>1. ~soc_rbusy /\ ~Cacheable(req_addr) /\ arb_rvalid /\ arb_rlast
      BY <1>1, <1>6 DEF BurstInStep, arb_rvalid, arb_rlast
    <2>2. ~soc_rbusy' /\ ~soc_rvalid'
      BY <1>1, <1>4, <2>1, SocReadQuiet
    <2>3. ~clint_rvalid'
      BY <1>4, <1>6 DEF ClintPortEdge, ClintEdge, ClintRead
    <2>4. arb_state' = "IDLE"
      BY <1>1, <1>4, <2>1 DEF ArbiterEdge, ArbEdge
    <2>5. resp_valid' /\ ic_state' = "RESP"
      BY <1>1, <2>1 DEF IcacheEdge, IcEdge, IcHit, IcMiss, IcIdle, IcMissAr,
              IcFillBeat, IcUncachedBeat, IcWaitBeat, IcResp, ic_cpu_arready
    <2>6. SocInv'
      BY <1>2, <2>2, SocInvRead
    <2> QED
      BY <1>2, <1>3, <2>2, <2>3, <2>4, <2>5, <2>6
      DEF BusInv, PhaseIfReq, PhaseIfRsp, PhaseLoad, PhaseStore, NoRead
  <1>7. CASE ~clint_rvalid
    <2>1. /\ soc_rbusy
          /\ arb_rvalid <=> soc_rvalid
          /\ arb_rlast <=> soc_rlast
          /\ io_master_rready <=> soc_rvalid
      BY <1>1, <1>4, <1>7 DEF BurstInStep, arb_rvalid, arb_rlast, io_master_rready
    <2>2. ~clint_rvalid'
      BY <1>4, <1>7, ClintReadQuiet
    <2>3. /\ fill_word \in Nat /\ soc_rleft \in Nat /\ LAST_WORD \in Nat
          /\ soc_raddr \in Nat /\ LineBase(req_addr) \in Nat
      <3>1. fill_word \in Nat /\ soc_rleft \in Nat /\ soc_raddr \in Nat /\ req_addr \in Val
        BY DEF TypeOK, IcTypeOK, SocTypeOK, Word, Val
      <3>2. LAST_WORD \in Nat
        BY ParamsAssumption DEF LAST_WORD
      <3> QED
        BY <3>1, <3>2, LineBaseFacts
    <2>4. CASE ~soc_rvalid
      <3>1. /\ soc_rbusy' /\ ~soc_arready'
            /\ soc_raddr' = soc_raddr /\ soc_rleft' = soc_rleft
        BY <1>1, <2>1, <2>4, SocReadServing
      <3>2. ~resp_valid' /\ ic_state' = "MISS_R" /\ fill_word' = fill_word
        BY <2>1, <2>4 DEF IcacheEdge, IcEdge, IcHit, IcMiss, IcIdle, IcMissAr,
                IcFillBeat, IcUncachedBeat, IcWaitBeat, IcResp, RespKept, ic_cpu_arready
      <3>3. arb_state' = "GRANT_IFU"
        BY <1>1, <2>1, <2>4 DEF ArbiterEdge, ArbEdge
      <3>4. SocInv'
        BY <1>2, <3>1, SocInvRead
      <3>5. BurstInStep'
        BY <1>1, <1>5, <2>1, <2>2, <3>1, <3>2, <3>3
        DEF BurstInStep, Cacheable, LineBase
      <3> QED
        BY <1>2, <1>3, <3>2, <3>4, <3>5
        DEF BusInv, PhaseIfReq, PhaseIfRsp, PhaseLoad, PhaseStore
    <2>5. CASE soc_rvalid /\ soc_rlast
      <3>1. ~soc_rbusy' /\ ~soc_rvalid'
        BY <1>1, <2>1, <2>5, SocReadServing
      <3>2. resp_valid' /\ ic_state' = "RESP"
        BY <1>1, <2>1, <2>5 DEF IcacheEdge, IcEdge, IcHit, IcMiss, IcIdle, IcMissAr,
                IcFillBeat, IcUncachedBeat, IcWaitBeat, IcResp, ic_cpu_arready
      <3>3. arb_state' = "IDLE"
        BY <1>1, <1>4, <2>1, <2>5 DEF ArbiterEdge, ArbEdge
      <3>4. SocInv'
        BY <1>2, <3>1, SocInvRead
      <3> QED
        BY <1>2, <1>3, <2>2, <3>1, <3>2, <3>3, <3>4
        DEF BusInv, PhaseIfReq, PhaseIfRsp, PhaseLoad, PhaseStore, NoRead
    <2>6. CASE soc_rvalid /\ ~soc_rlast
      <3>1. /\ soc_rbusy' /\ ~soc_rvalid' /\ ~soc_arready'
            /\ soc_raddr' = soc_raddr + 1 /\ soc_rleft' = soc_rleft - 1
        BY <1>1, <2>1, <2>6, SocReadServing
      <3>2. /\ Cacheable(req_addr)
            /\ soc_raddr = LineBase(req_addr) + fill_word
            /\ soc_rleft = LAST_WORD - fill_word
            /\ fill_word # LAST_WORD
        BY <1>1, <2>1, <2>3, <2>6 DEF BurstInStep, soc_rlast
      <3>3. ~resp_valid' /\ ic_state' = "MISS_R" /\ fill_word' = fill_word + 1
        BY <1>1, <2>1, <2>6, <3>2
        DEF IcacheEdge, IcEdge, IcHit, IcMiss, IcIdle, IcMissAr,
            IcFillBeat, IcUncachedBeat, IcWaitBeat, IcResp, RespKept, ic_cpu_arready
      <3>4. arb_state' = "GRANT_IFU"
        BY <1>1, <2>1, <2>6 DEF ArbiterEdge, ArbEdge
      <3>5. SocInv'
        BY <1>2, <3>1, SocInvRead
      <3>6. /\ soc_raddr' = LineBase(req_addr) + fill_word'
            /\ soc_rleft' = LAST_WORD - fill_word'
        BY <2>3, <3>1, <3>2, <3>3
      <3>7. BurstInStep'
        BY <1>5, <2>2, <3>1, <3>2, <3>4, <3>6 DEF BurstInStep, Cacheable, LineBase
      <3> QED
        BY <1>2, <1>3, <3>3, <3>5, <3>7
        DEF BusInv, PhaseIfReq, PhaseIfRsp, PhaseLoad, PhaseStore
    <2> QED
      BY <2>4, <2>5, <2>6
  <1> QED
    BY <1>6, <1>7

(***************************************************************************)
(* Waiting for the fetch: the three situations of PhaseIfRsp.              *)
(***************************************************************************)
LEMMA StepIfRsp ==
    ASSUME TypeOK, BusInv, Tick, state = "IF_RSP"
    PROVE  BusInv'
  BY StepIfRspTaken, StepIfRspAddress, StepIfRspData DEF BusInv, PhaseIfRsp

(***************************************************************************)
(* Until it commits, a load or store sees the same instruction, address    *)
(* and data: nothing it depends on is written.                             *)
(***************************************************************************)
LEMMA MemFrame ==
    ASSUME CpuEdge, state \in {"MEM_REQ", "MEM_RSP"},
           state' \in {"MEM_REQ", "MEM_RSP"}
    PROVE  /\ inst' = inst /\ bus_addr' = bus_addr /\ rs2_data' = rs2_data
           /\ (op_load' <=> op_load) /\ (op_store' <=> op_store)
  <1>1. inst' = inst
    BY DEF CpuEdge, InstRegEdge, ifu_hsk_r, inst
  <1>2. ~commit
    BY DEF CpuEdge, FsmEdge, IfReq, IfRsp, MemReqLoad, MemReqStore, MemRsp,
           commit, commit_non_mem, commit_mem, ifu_hsk_r
  <1>3. rf' = rf
    BY <1>2 DEF CpuEdge, RegfileEdge
  <1> QED
    BY <1>1, <1>3 DEF bus_addr, alu_result, rs1_data, rs2_data, op_load, op_store

(***************************************************************************)
(* The I-cache does nothing while no fetch is requested.                   *)
(***************************************************************************)
LEMMA IcStaysQuiet ==
    ASSUME IcacheEdge, IcQuiet, state # "IF_REQ"
    PROVE  IcQuiet'
  BY DEF IcacheEdge, IcEdge, IcHit, IcMiss, IcIdle, IcMissAr, IcFillBeat,
         IcUncachedBeat, IcWaitBeat, IcResp, RespKept, ifu_arvalid,
         ic_cpu_arready, IcQuiet

(***************************************************************************)
(* A load or a store that commits leaves the bus as a fetch needs it.      *)
(***************************************************************************)
LEMMA BackToFetch ==
    ASSUME state' = "IF_REQ", arb_state' = "IDLE", IcQuiet', NoWrite',
           ~soc_rbusy', ~soc_rvalid', ~clint_rvalid'
    PROVE  BusInv'
  BY DEF BusInv, SocInv, PhaseIfReq, PhaseIfRsp, PhaseLoad, PhaseStore, NoRead, NoWrite

(***************************************************************************)
(* A load offers its address, once it has been granted the bus, to the     *)
(* CLINT or to the SoC.                                                    *)
(***************************************************************************)
LEMMA StepLoadAddress ==
    ASSUME TypeOK, BusInv, Tick, state = "MEM_REQ", op_load
    PROVE  BusInv'
  <1> USE DEF Tick
  <1>1. /\ IcQuiet /\ NoWrite /\ NoRead /\ SocInv
        /\ arb_state \in {"IDLE", "GRANT_LSU"}
    BY DEF BusInv, PhaseLoad, TypeOK, ArbTypeOK
  <1>2. ~op_store /\ lsu_arvalid /\ ~lsu_rready
    BY DEF op_load, op_store, lsu_arvalid, lsu_rready
  <1>3. /\ ~lsu_awvalid /\ ~lsu_wvalid /\ ~io_master_awvalid /\ ~io_master_wvalid
    BY <1>2 DEF lsu_awvalid, lsu_wvalid, io_master_awvalid, io_master_wvalid
  <1>4. /\ state' = IF lsu_hsk_ar THEN "MEM_RSP" ELSE "MEM_REQ"
        /\ ~aw_done' /\ ~w_done'
    BY <1>1, <1>2 DEF CpuEdge, FsmEdge, IfReq, IfRsp, MemReqLoad, MemReqStore, MemRsp,
                      NoWrite
  <1>5. NoWrite'
    BY <1>1, <1>3, <1>4, SocWriteQuiet, ClintWriteQuiet DEF NoWrite
  <1>6. IcQuiet'
    BY <1>1, IcStaysQuiet
  <1>7. inst' = inst /\ bus_addr' = bus_addr /\ op_load'
    BY <1>4, MemFrame
  <1>8. CASE arb_state = "IDLE"
    <2>1. ~arb_arvalid /\ ~io_master_arvalid /\ ~lsu_hsk_ar
      BY <1>8 DEF arb_arvalid, Granted, io_master_arvalid, lsu_hsk_ar
    <2>2. ~soc_rbusy' /\ ~soc_rvalid'
      BY <1>1, <2>1, SocReadQuiet DEF NoRead
    <2>3. ~clint_rvalid'
      BY <1>1, <2>1, ClintReadQuiet DEF NoRead
    <2>4. arb_state' = "GRANT_LSU"
      BY <1>2, <1>8 DEF ArbiterEdge, ArbEdge
    <2>5. SocInv'
      BY <1>5, <2>2, SocInvRead
    <2> QED
      BY <1>4, <1>5, <1>6, <1>7, <2>1, <2>2, <2>3, <2>4, <2>5
      DEF BusInv, PhaseIfReq, PhaseIfRsp, PhaseLoad, PhaseStore, NoRead
  <1>9. CASE arb_state = "GRANT_LSU"
    <2>1. /\ arb_arvalid /\ arb_araddr = bus_addr /\ arb_arlen = 0 /\ ~arb_rready
          /\ lsu_hsk_ar <=> arb_arready
      BY <1>2, <1>9 DEF arb_arvalid, arb_araddr, arb_arlen, arb_rready, Granted,
                        lsu_hsk_ar
    <2>2. arb_state' = "GRANT_LSU"
      BY <1>9, <2>1 DEF ArbiterEdge, ArbEdge
    <2>3. CASE sel_clint
      <3>1. ~io_master_arvalid /\ arb_arready /\ InClint(bus_addr)
        BY <1>1, <2>1, <2>3
        DEF io_master_arvalid, arb_arready, clint_arready, NoRead, sel_clint
      <3>2. ~soc_rbusy' /\ ~soc_rvalid'
        BY <1>1, <3>1, SocReadQuiet DEF NoRead
      <3>3. clint_rvalid'
        BY <1>1, <2>1, <2>3 DEF ClintPortEdge, ClintEdge, ClintRead, NoRead
      <3>4. SocInv'
        BY <1>5, <3>2, SocInvRead
      <3> QED
        BY <1>4, <1>5, <1>6, <1>7, <2>1, <2>2, <3>1, <3>2, <3>3, <3>4
        DEF BusInv, PhaseIfReq, PhaseIfRsp, PhaseLoad, PhaseStore, InClint
    <2>4. CASE ~sel_clint
      <3>1. /\ io_master_arvalid /\ (arb_arready <=> soc_arready)
            /\ ~InClint(bus_addr)
        BY <2>1, <2>4 DEF io_master_arvalid, arb_arready, sel_clint
      <3>2. ~clint_rvalid'
        BY <1>1, <2>4, ClintReadQuiet DEF NoRead
      <3>3. CASE soc_arready
        <4>1. /\ ~soc_rvalid' /\ soc_rbusy' /\ ~soc_arready'
              /\ soc_raddr' = bus_addr /\ soc_rleft' = 0
          BY <1>1, <2>1, <3>1, <3>3, SocReadStart DEF NoRead
        <4>2. SocInv'
          BY <1>5, <4>1, SocInvRead
        <4> QED
          BY <1>4, <1>5, <1>6, <1>7, <2>1, <2>2, <3>1, <3>2, <3>3, <4>1, <4>2
          DEF BusInv, PhaseIfReq, PhaseIfRsp, PhaseLoad, PhaseStore, InClint
      <3>4. CASE ~soc_arready
        <4>1. ~soc_rvalid' /\ ~soc_rbusy'
          BY <1>1, <3>1, <3>4, SocReadStart DEF NoRead
        <4>2. SocInv'
          BY <1>5, <4>1, SocInvRead
        <4> QED
          BY <1>4, <1>5, <1>6, <1>7, <2>1, <2>2, <3>1, <3>2, <3>4, <4>1, <4>2
          DEF BusInv, PhaseIfReq, PhaseIfRsp, PhaseLoad, PhaseStore, NoRead
      <3> QED
        BY <3>3, <3>4
    <2> QED
      BY <2>3, <2>4
  <1> QED
    BY <1>1, <1>8, <1>9

(***************************************************************************)
(* A load waits for its data, from the CLINT or from the SoC.              *)
(***************************************************************************)
LEMMA StepLoadData ==
    ASSUME TypeOK, BusInv, Tick, state = "MEM_RSP", op_load
    PROVE  BusInv'
  <1> USE DEF Tick
  <1>1. /\ IcQuiet /\ NoWrite /\ SocInv /\ arb_state = "GRANT_LSU"
        /\ soc_rbusy <=> ~clint_rvalid
        /\ soc_rbusy => soc_raddr = bus_addr /\ soc_rleft = 0 /\ ~InClint(bus_addr)
    BY DEF BusInv, PhaseLoad
  <1>2. ~op_store /\ ~lsu_arvalid /\ lsu_rready
    BY DEF op_load, op_store, lsu_arvalid, lsu_rready
  <1>3. ~lsu_awvalid /\ ~lsu_wvalid /\ ~io_master_awvalid /\ ~io_master_wvalid
    BY <1>2 DEF lsu_awvalid, lsu_wvalid, io_master_awvalid, io_master_wvalid
  <1>4. ~arb_arvalid /\ arb_rready /\ ~io_master_arvalid
    BY <1>1, <1>2 DEF arb_arvalid, arb_rready, Granted, io_master_arvalid
  <1>5. /\ state' = IF arb_rvalid THEN "IF_REQ" ELSE "MEM_RSP"
        /\ ~aw_done' /\ ~w_done'
    BY <1>1, <1>2 DEF CpuEdge, FsmEdge, IfReq, IfRsp, MemReqLoad, MemReqStore, MemRsp,
                      NoWrite, commit_mem, lsu_hsk_r
  <1>6. NoWrite'
    BY <1>1, <1>3, <1>5, SocWriteQuiet, ClintWriteQuiet DEF NoWrite
  <1>7. IcQuiet'
    BY <1>1, IcStaysQuiet
  <1>8. CASE clint_rvalid
    <2>1. arb_rvalid /\ arb_rlast /\ ~soc_rbusy
      BY <1>1, <1>8 DEF arb_rvalid, arb_rlast
    <2>2. ~soc_rbusy' /\ ~soc_rvalid'
      BY <1>1, <1>4, <2>1, SocReadQuiet
    <2>3. ~clint_rvalid'
      BY <1>4, <1>8 DEF ClintPortEdge, ClintEdge, ClintRead
    <2>4. arb_state' = "IDLE"
      BY <1>1, <1>4, <2>1 DEF ArbiterEdge, ArbEdge
    <2> QED
      BY <1>5, <1>6, <1>7, <2>1, <2>2, <2>3, <2>4, BackToFetch
  <1>9. CASE ~clint_rvalid /\ soc_rvalid
    <2>1. arb_rvalid /\ arb_rlast /\ soc_rbusy /\ io_master_rready /\ soc_rlast
      BY <1>1, <1>4, <1>9 DEF arb_rvalid, arb_rlast, io_master_rready, soc_rlast
    <2>2. ~soc_rbusy' /\ ~soc_rvalid'
      BY <1>1, <1>9, <2>1, SocReadServing
    <2>3. ~clint_rvalid'
      BY <1>4, <1>9, ClintReadQuiet
    <2>4. arb_state' = "IDLE"
      BY <1>1, <1>4, <2>1 DEF ArbiterEdge, ArbEdge
    <2> QED
      BY <1>5, <1>6, <1>7, <2>1, <2>2, <2>3, <2>4, BackToFetch
  <1>10. CASE ~clint_rvalid /\ ~soc_rvalid
    <2>1. ~arb_rvalid /\ soc_rbusy
      BY <1>1, <1>10 DEF arb_rvalid
    <2>2. /\ soc_rbusy' /\ ~soc_arready'
          /\ soc_raddr' = soc_raddr /\ soc_rleft' = soc_rleft
      BY <1>1, <1>10, <2>1, SocReadServing
    <2>3. ~clint_rvalid'
      BY <1>4, <1>10, ClintReadQuiet
    <2>4. arb_state' = "GRANT_LSU"
      BY <1>1, <2>1 DEF ArbiterEdge, ArbEdge
    <2>5. SocInv'
      BY <1>6, <2>2, SocInvRead
    <2>6. state' = "MEM_RSP" /\ bus_addr' = bus_addr /\ op_load'
      BY <1>5, <2>1, MemFrame
    <2> QED
      BY <1>1, <1>6, <1>7, <2>1, <2>2, <2>3, <2>4, <2>5, <2>6
      DEF BusInv, PhaseIfReq, PhaseIfRsp, PhaseLoad, PhaseStore, InClint
  <1> QED
    BY <1>8, <1>9, <1>10

(***************************************************************************)
(* The write channel of the SoC before its response is taken, and when it  *)
(* is.                                                                     *)
(***************************************************************************)
LEMMA SocWriteCollects ==
    ASSUME SocEdge, SocInv, ~(soc_bvalid /\ io_master_bready)
    PROVE  /\ soc_aw' <=> soc_aw \/ (io_master_awvalid /\ soc_awready)
           /\ soc_aw => soc_awaddr' = soc_awaddr
           /\ io_master_awvalid /\ soc_awready => soc_awaddr' = bus_addr
           /\ soc_w' <=> soc_w \/ (io_master_wvalid /\ soc_wready)
           /\ soc_w => soc_wdata' = soc_wdata
           /\ io_master_wvalid /\ soc_wready => soc_wdata' = rs2_data
           /\ soc_aw' => ~soc_awready'
           /\ soc_w' => ~soc_wready'
           /\ soc_bvalid' => soc_bvalid \/ (soc_aw /\ soc_w)
  <1>1. SocWriteCollect(io_master_awvalid, bus_addr, io_master_wvalid, rs2_data,
                        io_master_bready)
    BY DEF SocEdge, SocWrite, SocWriteDone
  <1>2. /\ soc_aw' <=> soc_aw \/ (io_master_awvalid /\ soc_awready)
        /\ soc_aw => soc_awaddr' = soc_awaddr
        /\ io_master_awvalid /\ soc_awready => soc_awaddr' = bus_addr
        /\ soc_aw' => ~soc_awready'
    BY <1>1 DEF SocWriteCollect, SocInv
  <1>3. /\ soc_w' <=> soc_w \/ (io_master_wvalid /\ soc_wready)
        /\ soc_w => soc_wdata' = soc_wdata
        /\ io_master_wvalid /\ soc_wready => soc_wdata' = rs2_data
        /\ soc_w' => ~soc_wready'
    BY <1>1 DEF SocWriteCollect, SocInv
  <1>4. soc_bvalid' => soc_bvalid \/ (soc_aw /\ soc_w)
    BY <1>1 DEF SocWriteCollect
  <1> QED
    BY <1>2, <1>3, <1>4

\* A store to the SoC that is answered leaves nothing behind there.
LEMMA SocWriteEnds ==
    ASSUME SocEdge, soc_bvalid, io_master_bready
    PROVE  ~soc_aw' /\ ~soc_w' /\ ~soc_bvalid'
  BY DEF SocEdge, SocWrite, SocWriteCollect, SocWriteDone

(***************************************************************************)
(* During a store nothing moves on the read side.                          *)
(***************************************************************************)
LEMMA StoreReadSide ==
    ASSUME Tick, SocInv, NoRead, arb_state = "IDLE", IcQuiet, op_store,
           state \in {"MEM_REQ", "MEM_RSP"}
    PROVE  /\ ~soc_rbusy' /\ ~soc_rvalid' /\ ~clint_rvalid'
           /\ arb_state' = "IDLE" /\ IcQuiet'
  <1> USE DEF Tick
  <1>1. ~arb_arvalid /\ ~io_master_arvalid /\ ~lsu_arvalid
    BY DEF arb_arvalid, Granted, io_master_arvalid, lsu_arvalid, op_load, op_store
  <1>2. ~soc_rbusy' /\ ~soc_rvalid'
    BY <1>1, SocReadQuiet DEF NoRead
  <1>3. ~clint_rvalid'
    BY <1>1, ClintReadQuiet DEF NoRead
  <1>4. arb_state' = "IDLE"
    BY <1>1 DEF ArbiterEdge, ArbEdge, ic_mem_arvalid, IcQuiet
  <1>5. IcQuiet'
    BY IcStaysQuiet
  <1> QED
    BY <1>2, <1>3, <1>4, <1>5

(***************************************************************************)
(* A store offers its address and its data, each until it is accepted: the *)
(* CLINT accepts both at once, the SoC in any order.                       *)
(***************************************************************************)
LEMMA StepStoreRequest ==
    ASSUME TypeOK, BusInv, Tick, state = "MEM_REQ", ~op_load
    PROVE  BusInv'
  <1> USE DEF Tick
  <1>1. /\ op_store /\ IcQuiet /\ NoRead /\ arb_state = "IDLE" /\ SocInv
        /\ ~clint_bvalid /\ ~soc_bvalid
        /\ (soc_aw <=> aw_done) /\ (soc_w <=> w_done) /\ ~(aw_done /\ w_done)
        /\ InClint(bus_addr) => ~aw_done /\ ~w_done
    BY DEF BusInv, PhaseStore
  <1>2. /\ ~soc_rbusy' /\ ~soc_rvalid' /\ ~clint_rvalid'
        /\ arb_state' = "IDLE" /\ IcQuiet'
    BY <1>1, StoreReadSide
  <1>3. (lsu_awvalid <=> ~aw_done) /\ (lsu_wvalid <=> ~w_done)
    BY <1>1 DEF lsu_awvalid, lsu_wvalid
  <1> DEFINE aw == aw_done \/ lsu_hsk_aw
             w == w_done \/ lsu_hsk_w
  <1>4. /\ state' = IF aw /\ w THEN "MEM_RSP" ELSE "MEM_REQ"
        /\ aw_done' <=> aw /\ ~w
        /\ w_done' <=> w /\ ~aw
    BY <1>1 DEF CpuEdge, FsmEdge, IfReq, IfRsp, MemReqLoad, MemReqStore, MemRsp
  <1>5. /\ bus_addr' = bus_addr /\ rs2_data' = rs2_data
        /\ ~op_load' /\ op_store'
    BY <1>1, <1>4, MemFrame
  <1>6. CASE InClint(bus_addr)
    <2>1. aw /\ w /\ ~io_master_awvalid /\ ~io_master_wvalid
      BY <1>1, <1>3, <1>6 DEF lsu_hsk_aw, lsu_hsk_w, lsu_awready, lsu_wready,
              clint_awready, clint_wready, sel_clint_w, io_master_awvalid, io_master_wvalid
    <2>2. ~soc_aw' /\ ~soc_w' /\ ~soc_bvalid'
      BY <1>1, <1>6, <2>1, SocWriteQuiet
    <2>3. clint_bvalid'
      BY <1>1, <1>3, <1>6 DEF ClintPortEdge, ClintEdge, ClintWrite, sel_clint_w
    <2>4. SocInv'
      BY <1>2, <2>2 DEF SocInv
    <2> QED
      BY <1>2, <1>4, <1>5, <1>6, <2>1, <2>2, <2>3, <2>4
      DEF BusInv, PhaseIfReq, PhaseIfRsp, PhaseLoad, PhaseStore, NoRead, InClint
  <1>7. CASE ~InClint(bus_addr)
    <2>1. /\ io_master_awvalid <=> lsu_awvalid
          /\ io_master_wvalid <=> lsu_wvalid
          /\ aw <=> soc_aw \/ (io_master_awvalid /\ soc_awready)
          /\ w <=> soc_w \/ (io_master_wvalid /\ soc_wready)
      BY <1>1, <1>3, <1>7 DEF lsu_hsk_aw, lsu_hsk_w, lsu_awready, lsu_wready,
              sel_clint_w, io_master_awvalid, io_master_wvalid
    <2>2. ~clint_bvalid'
      BY <1>1, <1>7, ClintWriteQuiet DEF sel_clint_w
    <2>3. /\ (soc_aw' <=> aw) /\ (soc_w' <=> w) /\ ~soc_bvalid'
          /\ soc_aw' => ~soc_awready' /\ soc_awaddr' = bus_addr
          /\ soc_w' => ~soc_wready' /\ soc_wdata' = rs2_data
      BY <1>1, <2>1, SocWriteCollects DEF SocInv
    <2>4. SocInv'
      BY <1>2, <1>5, <2>3 DEF SocInv
    <2> QED
      BY <1>2, <1>4, <1>5, <1>7, <2>2, <2>3, <2>4
      DEF BusInv, PhaseIfReq, PhaseIfRsp, PhaseLoad, PhaseStore, NoRead, InClint
  <1> QED
    BY <1>6, <1>7

(***************************************************************************)
(* A store waits for its response.                                         *)
(***************************************************************************)
LEMMA StepStoreResponse ==
    ASSUME TypeOK, BusInv, Tick, state = "MEM_RSP", ~op_load
    PROVE  BusInv'
  <1> USE DEF Tick
  <1>1. /\ op_store /\ IcQuiet /\ NoRead /\ arb_state = "IDLE" /\ SocInv
        /\ ~aw_done /\ ~w_done
        /\ clint_bvalid <=> InClint(bus_addr)
        /\ (soc_aw <=> ~clint_bvalid) /\ (soc_w <=> ~clint_bvalid)
    BY DEF BusInv, PhaseStore
  <1>2. /\ ~soc_rbusy' /\ ~soc_rvalid' /\ ~clint_rvalid'
        /\ arb_state' = "IDLE" /\ IcQuiet'
    BY <1>1, StoreReadSide
  <1>3. /\ lsu_bready /\ ~lsu_awvalid /\ ~lsu_wvalid
        /\ ~io_master_awvalid /\ ~io_master_wvalid
    BY <1>1 DEF lsu_bready, lsu_awvalid, lsu_wvalid, io_master_awvalid, io_master_wvalid
  <1>4. /\ state' = IF arb_bvalid THEN "IF_REQ" ELSE "MEM_RSP"
        /\ ~aw_done' /\ ~w_done'
    BY <1>1, <1>3 DEF CpuEdge, FsmEdge, IfReq, IfRsp, MemReqLoad, MemReqStore, MemRsp,
                      commit_mem, lsu_hsk_b
  <1>5. CASE clint_bvalid
    <2>1. arb_bvalid /\ ~soc_aw /\ ~soc_w /\ ~soc_bvalid
      BY <1>1, <1>5 DEF arb_bvalid, SocInv
    <2>2. ~soc_aw' /\ ~soc_w' /\ ~soc_bvalid'
      BY <1>3, <2>1, SocWriteQuiet
    <2>3. ~clint_bvalid'
      BY <1>3, <1>5 DEF ClintPortEdge, ClintEdge, ClintWrite
    <2>4. NoWrite'
      BY <1>4, <2>2, <2>3 DEF NoWrite
    <2> QED
      BY <1>2, <1>4, <2>1, <2>4, BackToFetch
  <1>6. CASE ~clint_bvalid /\ soc_bvalid
    <2>1. arb_bvalid /\ io_master_bready
      BY <1>3, <1>6 DEF arb_bvalid, io_master_bready
    <2>2. ~soc_aw' /\ ~soc_w' /\ ~soc_bvalid'
      BY <1>6, <2>1, SocWriteEnds
    <2>3. ~clint_bvalid'
      BY <1>3, <1>6, ClintWriteQuiet
    <2>4. NoWrite'
      BY <1>4, <2>2, <2>3 DEF NoWrite
    <2> QED
      BY <1>2, <1>4, <2>1, <2>4, BackToFetch
  <1>7. CASE ~clint_bvalid /\ ~soc_bvalid
    <2>1. ~arb_bvalid /\ ~InClint(bus_addr)
      BY <1>1, <1>7 DEF arb_bvalid
    <2>2. ~clint_bvalid'
      BY <1>3, <1>7, ClintWriteQuiet
    <2>3. /\ bus_addr' = bus_addr /\ rs2_data' = rs2_data
          /\ ~op_load' /\ op_store'
      BY <1>1, <1>4, <2>1, MemFrame
    <2>4. /\ soc_aw' /\ soc_w' /\ ~soc_awready' /\ ~soc_wready'
          /\ soc_awaddr' = bus_addr /\ soc_wdata' = rs2_data
      BY <1>1, <1>3, <1>7, SocWriteCollects DEF SocInv
    <2>5. SocInv'
      BY <1>2, <2>3, <2>4 DEF SocInv
    <2> QED
      BY <1>2, <1>4, <2>1, <2>2, <2>3, <2>4, <2>5
      DEF BusInv, PhaseIfReq, PhaseIfRsp, PhaseLoad, PhaseStore, NoRead, InClint
  <1> QED
    BY <1>5, <1>6, <1>7

(***************************************************************************)
(* Every clock edge keeps the bus invariant.                               *)
(***************************************************************************)
LEMMA BusStep ==
    ASSUME TypeOK, BusInv, Tick
    PROVE  BusInv'
  <1>1. state \in {"IF_REQ", "IF_RSP", "MEM_REQ", "MEM_RSP"}
    BY DEF TypeOK, CpuTypeOK
  <1> QED
    BY <1>1, StepIfReq, StepIfRsp, StepLoadAddress, StepLoadData,
       StepStoreRequest, StepStoreResponse

(***************************************************************************)
(* The next beat of a burst stays in the line that is being filled, so the *)
(* slave's address does not overflow.                                      *)
(***************************************************************************)
LEMMA NextBeatType ==
    ASSUME TypeOK, BusInv, soc_rbusy, ~soc_rlast
    PROVE  soc_raddr + 1 \in Val /\ soc_rleft - 1 \in Word
  <1>1. state = "IF_RSP" /\ ic_state = "MISS_R" /\ BurstInStep
    BY DEF BusInv, PhaseIfReq, PhaseIfRsp, PhaseLoad, PhaseStore, NoRead, IcQuiet,
           soc_rlast, TypeOK, CpuTypeOK
  <1>2. /\ soc_raddr = LineBase(req_addr) + fill_word
        /\ soc_rleft = LAST_WORD - fill_word
    BY <1>1 DEF BurstInStep, soc_rlast
  <1>3. req_addr \in Val /\ fill_word \in Word /\ LAST_WORD \in Nat
        /\ LineBase(req_addr) \in Nat
    BY LineBaseFacts, ParamsAssumption DEF TypeOK, IcTypeOK, LAST_WORD
  <1>4. fill_word \in Nat /\ fill_word + 1 \in Word /\ soc_rleft - 1 \in Word
    BY <1>2, <1>3 DEF soc_rlast, Word
  <1>5. LineBase(req_addr) + (fill_word + 1) \in Val
    BY <1>3, <1>4, LineWord
  <1>6. LineBase(req_addr) + (fill_word + 1) = soc_raddr + 1
    BY <1>2, <1>3, <1>4
  <1> QED
    BY <1>4, <1>5, <1>6

(***************************************************************************)
(* A clock edge keeps the SoC's registers in their types.                  *)
(***************************************************************************)
LEMMA SocType ==
    ASSUME TypeOK, BusInv, SocEdge
    PROVE  SocTypeOK'
  <1> USE DEF TypeOK, SocTypeOK
  <1>1. arb_araddr \in Val /\ arb_arlen \in Word
    <2>1. 0 \in Val /\ 0 \in Word
      BY ParamsAssumption DEF Val, Word, LAST_WORD
    <2> QED
      BY <2>1, WireTypes, IcRequest DEF arb_araddr, arb_arlen, Granted
  <1>2. /\ soc_arready' \in BOOLEAN /\ soc_rbusy' \in BOOLEAN
        /\ soc_raddr' \in Val /\ soc_rleft' \in Word
        /\ soc_rvalid' \in BOOLEAN /\ soc_rdata' \in Val /\ soc_rerr' \in BOOLEAN
    <2>1. CASE SocReadIdle(io_master_arvalid, io_master_rready)
      BY <2>1 DEF SocReadIdle
    <2>2. CASE SocReadAccept(io_master_arvalid, arb_araddr, arb_arlen)
      BY <2>2, <1>1 DEF SocReadAccept
    <2>3. CASE SocReadWait(io_master_rready)
      BY <2>3 DEF SocReadWait, socReadVars
    <2>4. CASE SocReadPresent
      BY <2>4, SocAssumption DEF SocReadPresent
    <2>5. CASE SocReadNext(io_master_rready)
      <3>1. soc_rbusy /\ ~soc_rlast
        BY <2>5 DEF SocReadNext, BusInv, SocInv
      <3> QED
        BY <2>5, <3>1, NextBeatType DEF SocReadNext
    <2> QED
      BY <2>1, <2>2, <2>3, <2>4, <2>5 DEF SocEdge, SocRead
  <1>3. /\ mem' \in [Val -> Val]
        /\ soc_awready' \in BOOLEAN /\ soc_aw' \in BOOLEAN /\ soc_awaddr' \in Val
        /\ soc_wready' \in BOOLEAN /\ soc_w' \in BOOLEAN /\ soc_wdata' \in Val
        /\ soc_bvalid' \in BOOLEAN /\ soc_berr' \in BOOLEAN
    <2>1. bus_addr \in Val /\ rs2_data \in Val
      BY WireTypes
    <2>2. CASE SocWriteCollect(io_master_awvalid, bus_addr, io_master_wvalid, rs2_data,
                               io_master_bready)
      BY <2>1, <2>2 DEF SocWriteCollect
    <2>3. CASE SocWriteDone(io_master_bready)
      BY <2>3 DEF SocWriteDone
    <2> QED
      BY <2>2, <2>3 DEF SocEdge, SocWrite
  <1> QED
    BY <1>2, <1>3

(***************************************************************************)
(* The initial states satisfy the invariant, and a clock edge keeps it.    *)
(***************************************************************************)
LEMMA InitInv ==
    ASSUME Init
    PROVE  TypeOK /\ BusInv
  <1>1. 0 \in Val /\ 0 \in Word
    BY ParamsAssumption DEF Val, Word, LAST_WORD
  <1>2. 0 \in Tag
    <2>1. 0 \div WORDS_PER_LINE = 0 /\ 0 \div LINE_NUM = 0
      BY ParamsAssumption
    <2> QED
      BY <1>1, <2>1 DEF Tag, TagOf, LineOf
  <1>3. CpuTypeOK
    BY <1>1, CoreAssumption DEF Init, CpuInit, CpuTypeOK, CsrName
  <1>4. IcTypeOK
    BY <1>1, <1>2 DEF Init, IcInit, IcTypeOK
  <1>5. ArbTypeOK
    BY DEF Init, ArbInit, ArbTypeOK
  <1>6. ClintTypeOK
    <2>1. 0 \in Mtime
      BY ClintAssumption DEF Mtime
    <2> QED
      BY <1>1, <2>1 DEF Init, ClintInit, ClintTypeOK
  <1>7. SocTypeOK
    BY <1>1, CoreAssumption DEF Init, SocInit, SocTypeOK
  <1>8. BusInv
    BY DEF Init, CpuInit, IcInit, ArbInit, ClintInit, SocInit, BusInv, SocInv,
           PhaseIfReq, PhaseIfRsp, PhaseLoad, PhaseStore, IcQuiet, NoRead, NoWrite
  <1> QED
    BY <1>3, <1>4, <1>5, <1>6, <1>7, <1>8 DEF TypeOK

\* A clock edge of all components at once keeps the bus invariant.
LEMMA TickInv ==
    ASSUME TypeOK, BusInv, Tick
    PROVE  TypeOK' /\ BusInv'
  <1>1. ArbTypeOK'
    BY DEF TypeOK, ArbTypeOK, Tick, ArbiterEdge, ArbEdge
  <1>2. TypeOK'
    BY <1>1, CpuType, IcacheType, ClintType, SocType DEF TypeOK, Tick
  <1> QED
    BY <1>2, BusStep

(***************************************************************************)
(* The registers and the memory keep their types, and the modules on the   *)
(* bus agree at every clock edge on who is using it and how far the access *)
(* has come, for every program, cache geometry and timing of the SoC.      *)
(***************************************************************************)
THEOREM BusInvariant == Spec => [](TypeOK /\ BusInv)
  <1>1. Init => TypeOK /\ BusInv
    BY InitInv
  <1>2. TypeOK /\ BusInv /\ [Next]_vars => (TypeOK /\ BusInv)'
    <2> SUFFICES ASSUME TypeOK, BusInv, [Next]_vars PROVE TypeOK' /\ BusInv'
      OBVIOUS
    <2>1. CASE Tick
      BY <2>1, TickInv
    <2>2. CASE UNCHANGED vars
      <3>1. TypeOK'
        BY <2>2 DEF vars, cpuVars, icVars, busVars, clintVars, socReadVars, socWriteVars,
                    TypeOK, CpuTypeOK, IcTypeOK, ArbTypeOK, ClintTypeOK, SocTypeOK
      <3>2. BusInv'
        BY <2>2 DEF vars, cpuVars, icVars, busVars, clintVars, socReadVars, socWriteVars,
                    BusInv, SocInv, PhaseIfReq, PhaseIfRsp, PhaseLoad, PhaseStore,
                    BurstInStep, IcQuiet, NoRead, NoWrite, op_load, op_store,
                    bus_addr, alu_result, rs1_data, rs2_data, inst, ifu_hsk_r,
                    Cacheable, InClint, LineBase
      <3> QED
        BY <3>1, <3>2
    <2> QED
      BY <2>1, <2>2 DEF Next, Finished
  <1> QED
    BY <1>1, <1>2, PTL DEF Spec

(***************************************************************************)
(* The state is type correct: no index of the cache, no word of a burst    *)
(* and no half of mtime leaves its range.                                  *)
(***************************************************************************)
THEOREM TypeCorrect == Spec => []TypeOK
  BY BusInvariant, PTL

(***************************************************************************)
(* The slave's burst and the cache's refill stay in step from the first    *)
(* beat to the last, so the refill ends with rlast, at the last word: for  *)
(* every line size and timing of the SoC.                                  *)
(***************************************************************************)
THEOREM RefillAlwaysInStep == Spec => []RefillInStep
  <1>1. TypeOK /\ BusInv => RefillInStep
    <2> SUFFICES ASSUME TypeOK, BusInv, ic_state = "MISS_R", Cacheable(req_addr)
                 PROVE  BurstInStep
      BY DEF RefillInStep, BurstInStep
    <2>1. state = "IF_RSP"
      <3>1. ~IcQuiet
        BY DEF IcQuiet
      <3>2. state # "IF_REQ" /\ ~(state \in {"MEM_REQ", "MEM_RSP"})
        BY <3>1 DEF BusInv, PhaseIfReq, PhaseLoad, PhaseStore
      <3> QED
        BY <3>2 DEF TypeOK, CpuTypeOK
    <2> QED
      BY <2>1 DEF BusInv, PhaseIfRsp
  <1> QED
    BY <1>1, BusInvariant, PTL

(***************************************************************************)
(* The CLINT and the SoC never answer in the same cycle, so the "or" of    *)
(* the address decoder loses no response.                                  *)
(***************************************************************************)
THEOREM OneResponderAlways == Spec => []OneResponder
  <1>1. TypeOK /\ BusInv => OneResponder
    BY DEF OneResponder, BusInv, SocInv, PhaseIfReq, PhaseIfRsp, PhaseLoad, PhaseStore,
           BurstInStep, NoRead, NoWrite, TypeOK, CpuTypeOK
  <1> QED
    BY <1>1, BusInvariant, PTL

(***************************************************************************)
(* Every beat and every write response finds its requester granted and     *)
(* waiting: the bus cannot hang on a response nobody takes.                *)
(***************************************************************************)
THEOREM ResponsesAwaited == Spec => []ResponseAwaited
  <1>1. TypeOK /\ BusInv => ResponseAwaited
    BY DEF ResponseAwaited, BusInv, SocInv, PhaseIfReq, PhaseIfRsp, PhaseLoad, PhaseStore,
           BurstInStep, NoRead, NoWrite, TypeOK, CpuTypeOK, IcQuiet, arb_rvalid, arb_rready,
           arb_bvalid, lsu_bready, lsu_rready, Granted, ic_mem_rready, op_load, op_store
  <1> QED
    BY <1>1, BusInvariant, PTL

(***************************************************************************)
(* The core and the slave agree on which half of a store has been handed   *)
(* over: neither its address nor its data is offered twice or dropped.     *)
(***************************************************************************)
THEOREM StoresHandedOverOnce == Spec => []WriteHandover
  <1>1. TypeOK /\ BusInv => WriteHandover
    BY DEF WriteHandover, BusInv, SocInv, PhaseIfReq, PhaseIfRsp, PhaseLoad, PhaseStore,
           NoWrite, TypeOK, CpuTypeOK, lsu_bready, op_load, op_store
  <1> QED
    BY <1>1, BusInvariant, PTL

(***************************************************************************)
(* A read address that the SoC has not accepted is offered again: the      *)
(* grant is kept, and neither the I-cache nor a load changes its address.  *)
(***************************************************************************)
LEMMA ReadStable ==
    ASSUME TypeOK, BusInv, Tick, io_master_arvalid, ~soc_arready
    PROVE  io_master_arvalid' /\ arb_araddr' = arb_araddr /\ arb_arlen' = arb_arlen
  <1> USE DEF Tick
  <1>1. ~sel_clint /\ arb_arvalid /\ ~arb_arready
    BY DEF io_master_arvalid, arb_arready
  <1>2. CASE arb_state = "GRANT_LSU"
    <2>1. lsu_arvalid /\ state = "MEM_REQ" /\ op_load /\ ~lsu_rready /\ ~lsu_hsk_ar
      BY <1>1, <1>2 DEF arb_arvalid, Granted, lsu_arvalid, lsu_rready, lsu_hsk_ar
    <2>2. state' = "MEM_REQ"
      BY <2>1 DEF CpuEdge, FsmEdge, IfReq, IfRsp, MemReqLoad, MemReqStore, MemRsp,
                  op_load, op_store
    <2>3. bus_addr' = bus_addr /\ op_load'
      BY <2>1, <2>2, MemFrame
    <2>4. arb_state' = "GRANT_LSU"
      BY <1>2, <2>1 DEF ArbiterEdge, ArbEdge, arb_rready, Granted
    <2>5. arb_araddr = bus_addr /\ arb_araddr' = bus_addr /\ arb_arlen' = arb_arlen
      BY <1>2, <2>3, <2>4 DEF arb_araddr, arb_arlen, Granted
    <2> QED
      BY <1>1, <2>2, <2>3, <2>4, <2>5
      DEF io_master_arvalid, arb_arvalid, Granted, lsu_arvalid, sel_clint, InClint
  <1>3. CASE arb_state = "GRANT_IFU"
    <2>1. ic_state = "MISS_AR"
      BY <1>1, <1>3 DEF arb_arvalid, Granted, ic_mem_arvalid
    <2>2. ic_state' = "MISS_AR" /\ req_addr' = req_addr
      BY <1>1, <2>1 DEF IcacheEdge, IcEdge, IcHit, IcMiss, IcIdle, IcMissAr, IcFillBeat,
                        IcUncachedBeat, IcWaitBeat, IcResp, ic_cpu_arready
    <2>3. arb_state' = "GRANT_IFU"
      BY <1>3, <2>1 DEF ArbiterEdge, ArbEdge, arb_rready, Granted, ic_mem_rready
    <2>4. ic_mem_araddr' = ic_mem_araddr /\ ic_mem_arlen' = ic_mem_arlen
      BY <2>2 DEF ic_mem_araddr, ic_mem_arlen, Cacheable, LineBase
    <2>5. /\ arb_araddr = ic_mem_araddr /\ arb_araddr' = ic_mem_araddr
          /\ arb_arlen' = arb_arlen
      BY <1>3, <2>3, <2>4 DEF arb_araddr, arb_arlen, Granted
    <2> QED
      BY <1>1, <2>2, <2>3, <2>5
      DEF io_master_arvalid, arb_arvalid, Granted, ic_mem_arvalid, sel_clint, InClint
  <1> QED
    BY <1>1, <1>2, <1>3 DEF arb_arvalid, Granted

(***************************************************************************)
(* The address and the data of a store, each on its own channel, are       *)
(* offered again until they are accepted, whatever the other channel does. *)
(***************************************************************************)
LEMMA WriteStable ==
    ASSUME TypeOK, BusInv, Tick
    PROVE  /\ io_master_awvalid /\ ~soc_awready =>
                  io_master_awvalid' /\ bus_addr' = bus_addr
           /\ io_master_wvalid /\ ~soc_wready =>
                  io_master_wvalid' /\ rs2_data' = rs2_data
  <1> USE DEF Tick
  <1> SUFFICES ASSUME state = "MEM_REQ", op_store, ~sel_clint_w,
                      \/ lsu_awvalid /\ ~soc_awready
                      \/ lsu_wvalid /\ ~soc_wready
               PROVE  /\ lsu_awvalid /\ ~soc_awready =>
                             io_master_awvalid' /\ bus_addr' = bus_addr
                      /\ lsu_wvalid /\ ~soc_wready =>
                             io_master_wvalid' /\ rs2_data' = rs2_data
    BY DEF io_master_awvalid, io_master_wvalid, lsu_awvalid, lsu_wvalid
  <1>1. /\ lsu_awvalid <=> ~aw_done
        /\ lsu_wvalid <=> ~w_done
        /\ lsu_awvalid /\ ~soc_awready => ~lsu_hsk_aw
        /\ lsu_wvalid /\ ~soc_wready => ~lsu_hsk_w
    BY DEF lsu_awvalid, lsu_wvalid, lsu_hsk_aw, lsu_hsk_w, lsu_awready, lsu_wready
  <1>2. ~op_load
    BY DEF op_load, op_store
  <1>3. /\ state' = "MEM_REQ"
        /\ lsu_awvalid /\ ~soc_awready => ~aw_done'
        /\ lsu_wvalid /\ ~soc_wready => ~w_done'
    BY <1>1, <1>2 DEF CpuEdge, FsmEdge, IfReq, IfRsp, MemReqLoad, MemReqStore, MemRsp
  <1>4. bus_addr' = bus_addr /\ rs2_data' = rs2_data /\ op_store'
    BY <1>3, MemFrame
  <1>5. ~sel_clint_w'
    BY <1>4 DEF sel_clint_w, InClint
  <1> QED
    BY <1>3, <1>4, <1>5 DEF io_master_awvalid, io_master_wvalid, lsu_awvalid, lsu_wvalid

(***************************************************************************)
(* AXI's rule for a master, on all three channels the core drives: a       *)
(* request that has been offered stays as it is until it is accepted.      *)
(***************************************************************************)
THEOREM RequestsAlwaysStable == Spec => RequestsStable
  <1>1. TypeOK /\ BusInv /\ [Next]_vars =>
           [/\ io_master_arvalid /\ ~soc_arready =>
                  io_master_arvalid' /\ arb_araddr' = arb_araddr /\ arb_arlen' = arb_arlen
            /\ io_master_awvalid /\ ~soc_awready =>
                  io_master_awvalid' /\ bus_addr' = bus_addr
            /\ io_master_wvalid /\ ~soc_wready =>
                  io_master_wvalid' /\ rs2_data' = rs2_data]_vars
    BY ReadStable, WriteStable DEF Next, Finished
  <1> QED
    BY <1>1, BusInvariant, PTL DEF Spec, RequestsStable

=============================================================================

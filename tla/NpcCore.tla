------------------------------- MODULE NpcCore -------------------------------
(***************************************************************************)
(* The NPC core (module ysyx_26060181): a non-pipelined RV32E CPU whose    *)
(* four-state FSM fetches one instruction through the I-cache, executes    *)
(* it, performs its load or store over AXI, and commits; composed with the *)
(* I-cache, the read arbiter, the CLINT, the address decoder in front of   *)
(* them, and the rest of the SoC.                                          *)
(*                                                                         *)
(* The design is synchronous: registers are variables, wires are state     *)
(* functions, and one step is one rising clock edge of every module.       *)
(***************************************************************************)
EXTENDS SimpleIcache, AxiUnits, SocBus

CONSTANTS
    ResetPc,      \* npc_reset_pc(): where the boot memory starts
    MstatusReset, \* reset value of mstatus
    NopInst,      \* the word inst_reg holds after reset
    Programs      \* the memory contents the simulation is started with

ASSUME CoreAssumption ==
    /\ ResetPc \in Val /\ MstatusReset \in Val
    /\ NopInst \in Val /\ Decode[NopInst].op = "alu"
    /\ Programs \subseteq [Val -> Val]

VARIABLES
    state,            \* "IF_REQ", "IF_RSP", "MEM_REQ", "MEM_RSP"
    inst_reg,         \* the instruction fetched last
    aw_done, w_done,  \* the store's address/data has been accepted
    pc, csr, rf,      \* architectural state
    finish            \* ebreak committed: npc_trap has stopped the clock

cpuVars == <<state, inst_reg, aw_done, w_done, pc, csr, rf, finish>>
busVars == <<arb_state, clintVars, socReadVars, socWriteVars>>
vars == <<cpuVars, icVars, busVars>>

CpuTypeOK ==
    /\ state \in {"IF_REQ", "IF_RSP", "MEM_REQ", "MEM_RSP"}
    /\ inst_reg \in Val
    /\ aw_done \in BOOLEAN /\ w_done \in BOOLEAN
    /\ pc \in Val
    /\ csr \in [CsrName -> Val]
    /\ rf \in [Reg -> Val]
    /\ finish \in BOOLEAN

CpuInit ==
    /\ state = "IF_REQ"
    /\ inst_reg = NopInst
    /\ aw_done = FALSE /\ w_done = FALSE
    /\ pc = ResetPc
    /\ csr = [c \in CsrName |-> IF c = "mstatus" THEN MstatusReset ELSE 0]
    /\ rf = [r \in Reg |-> 0]
    /\ finish = FALSE

(***************************************************************************)
(* Decode and execute.                                                     *)
(***************************************************************************)
ifu_hsk_r == resp_valid /\ state = "IF_RSP"

\* The instruction being executed: just fetched, or latched.
inst == Decode[IF ifu_hsk_r THEN resp_data ELSE inst_reg]

op_load == inst.op = "load"
op_store == inst.op = "store"
is_mem_inst == op_load \/ op_store

rs1_data == IF inst.rs1 = 0 THEN 0 ELSE rf[inst.rs1]
rs2_data == IF inst.rs2 = 0 THEN 0 ELSE rf[inst.rs2]
snpc == (pc + 1) % ValNum

\* The adder of the ALU: addi, and the address of a load or a store.
alu_result == (rs1_data + inst.imm) % ValNum
bus_addr == alu_result

dnpc ==
    CASE inst.op = "ecall" -> csr["mtvec"]
      [] inst.op = "mret" -> csr["mepc"]
      [] inst.op = "jal" -> (pc + inst.imm) % ValNum
      [] inst.op = "jalr" -> (rs1_data + inst.imm) % ValNum
      [] inst.op = "branch" /\ rs1_data = rs2_data -> (pc + inst.imm) % ValNum
      [] OTHER -> snpc

is_csr == inst.op \in {"csrrw", "csrrs"}
csr_rdata == IF inst.csr = "none" THEN 0 ELSE csr[inst.csr]
csr_wen == inst.op = "csrrw" \/ (inst.op = "csrrs" /\ inst.rs1 # 0)
csr_wdata == IF inst.op = "csrrw" THEN rs1_data ELSE BitOr(csr_rdata, rs1_data)

(***************************************************************************)
(* Bus wires.  The arbiter picks the side that reads, the address decoder  *)
(* sends it to the CLINT or to the SoC; responses of the two are merged.   *)
(***************************************************************************)
ifu_arvalid == state = "IF_REQ"
ifu_rready == state = "IF_RSP"
lsu_arvalid == state = "MEM_REQ" /\ op_load
lsu_rready == state = "MEM_RSP" /\ op_load
\* Mutation: the data is offered only while the slave accepts the address.
lsu_wvalidWithAw == state = "MEM_REQ" /\ op_store /\ ~w_done /\ soc_awready

lsu_awvalid == state = "MEM_REQ" /\ op_store /\ ~aw_done
lsu_wvalid == state = "MEM_REQ" /\ op_store /\ ~w_done
lsu_bready == state = "MEM_RSP" /\ op_store

arb_arvalid == Granted(lsu_arvalid, ic_mem_arvalid, FALSE)
arb_araddr == Granted(bus_addr, ic_mem_araddr, 0)
arb_arlen == Granted(0, ic_mem_arlen, 0)
arb_rready == Granted(lsu_rready, ic_mem_rready, FALSE)

sel_clint == InClint(arb_araddr)
sel_clint_w == InClint(bus_addr)

io_master_arvalid == arb_arvalid /\ ~sel_clint
io_master_awvalid == lsu_awvalid /\ ~sel_clint_w
io_master_wvalid == lsu_wvalid /\ ~sel_clint_w

arb_arready == IF sel_clint THEN clint_arready ELSE soc_arready
lsu_awready == IF sel_clint_w THEN clint_awready ELSE soc_awready
lsu_wready == IF sel_clint_w THEN clint_wready ELSE soc_wready

arb_rvalid == clint_rvalid \/ soc_rvalid
arb_rdata == IF clint_rvalid THEN clint_rdata ELSE soc_rdata
arb_rlast == IF clint_rvalid THEN TRUE ELSE soc_rlast
io_master_rready == arb_rready /\ soc_rvalid
arb_bvalid == clint_bvalid \/ soc_bvalid
io_master_bready == lsu_bready /\ soc_bvalid

ifu_hsk_ar == ifu_arvalid /\ ic_cpu_arready
lsu_hsk_ar == lsu_arvalid /\ arb_state = "GRANT_LSU" /\ arb_arready
lsu_hsk_r == lsu_rready /\ arb_state = "GRANT_LSU" /\ arb_rvalid
lsu_hsk_aw == lsu_awvalid /\ lsu_awready
lsu_hsk_w == lsu_wvalid /\ lsu_wready
lsu_hsk_b == lsu_bready /\ arb_bvalid

commit_non_mem == ifu_hsk_r /\ ~is_mem_inst
commit_mem == state = "MEM_RSP" /\ (IF op_load THEN lsu_hsk_r ELSE lsu_hsk_b)
commit == commit_non_mem \/ commit_mem

axi_read_fault == soc_rvalid /\ io_master_rready /\ soc_rerr
axi_write_fault == soc_bvalid /\ io_master_bready /\ soc_berr
access_fault == axi_read_fault \/ axi_write_fault
access_fault_cause == IF axi_write_fault THEN 7 ELSE IF op_load THEN 5 ELSE 1

(***************************************************************************)
(* The CPU's registers at a clock edge.                                    *)
(***************************************************************************)
IfReq ==
    /\ state = "IF_REQ"
    /\ state' = IF ifu_hsk_ar THEN "IF_RSP" ELSE state
    /\ UNCHANGED <<aw_done, w_done>>

IfRsp ==
    /\ state = "IF_RSP"
    /\ state' = IF ~ifu_hsk_r THEN state
                ELSE IF is_mem_inst THEN "MEM_REQ" ELSE "IF_REQ"
    /\ UNCHANGED <<aw_done, w_done>>

MemReqLoad ==
    /\ state = "MEM_REQ" /\ op_load
    /\ state' = IF lsu_hsk_ar THEN "MEM_RSP" ELSE state
    /\ UNCHANGED <<aw_done, w_done>>

\* Mutations: the store moves on after the first of its two handshakes; the
\* two handshakes are expected in the same cycle.
MemReqStoreEither ==
    LET aw == aw_done \/ lsu_hsk_aw
        w == w_done \/ lsu_hsk_w
    IN /\ state = "MEM_REQ" /\ op_store
       /\ state' = IF aw \/ w THEN "MEM_RSP" ELSE state
       /\ UNCHANGED <<aw_done, w_done>>
MemReqStoreTogether ==
    /\ state = "MEM_REQ" /\ op_store
    /\ state' = IF lsu_hsk_aw /\ lsu_hsk_w THEN "MEM_RSP" ELSE state
    /\ aw_done' = (aw_done \/ lsu_hsk_aw)
    /\ w_done' = (w_done \/ lsu_hsk_w)

\* The two write channels complete in any order, or together.
MemReqStore ==
    LET aw == aw_done \/ lsu_hsk_aw
        w == w_done \/ lsu_hsk_w
    IN /\ state = "MEM_REQ" /\ op_store
       /\ state' = IF aw /\ w THEN "MEM_RSP" ELSE state
       /\ aw_done' = (aw /\ ~w)
       /\ w_done' = (w /\ ~aw)

MemRsp ==
    /\ state = "MEM_RSP"
    /\ state' = IF commit_mem THEN "IF_REQ" ELSE state
    /\ UNCHANGED <<aw_done, w_done>>

FsmEdge == IfReq \/ IfRsp \/ MemReqLoad \/ MemReqStore \/ MemRsp

InstRegEdge == inst_reg' = IF ifu_hsk_r THEN resp_data ELSE inst_reg

PcEdge == pc' = IF access_fault THEN csr["mtvec"]
                ELSE IF commit THEN dnpc ELSE pc

\* Mutation: ecall saves the address of the next instruction.
CsrEdgeNextPc ==
    csr' = IF commit /\ inst.op = "ecall"
           THEN [csr EXCEPT !["mepc"] = snpc, !["mcause"] = 11]
           ELSE IF commit /\ csr_wen /\ inst.csr # "none"
           THEN [csr EXCEPT ![inst.csr] = csr_wdata]
           ELSE csr

CsrEdge ==
    csr' = IF access_fault
           THEN [csr EXCEPT !["mepc"] = pc, !["mcause"] = access_fault_cause]
           ELSE IF commit /\ inst.op = "ecall"
           THEN [csr EXCEPT !["mepc"] = pc, !["mcause"] = 11]
           ELSE IF commit /\ csr_wen /\ inst.csr # "none"
           THEN [csr EXCEPT ![inst.csr] = csr_wdata]
           ELSE csr

rf_wen == inst.op \in {"alu", "load", "jal", "jalr", "csrrw", "csrrs"}
rf_wdata == CASE is_csr -> csr_rdata
              [] inst.op \in {"jal", "jalr"} -> snpc
              [] op_load -> arb_rdata
              [] OTHER -> alu_result

\* Mutation: a load that faults still writes its register.
RegfileEdgeOnFault ==
    rf' = IF rf_wen /\ commit /\ inst.rd # 0
          THEN [rf EXCEPT ![inst.rd] = rf_wdata]
          ELSE rf

RegfileEdge ==
    rf' = IF rf_wen /\ commit /\ ~access_fault /\ inst.rd # 0
          THEN [rf EXCEPT ![inst.rd] = rf_wdata]
          ELSE rf

TrapEdge == finish' = (commit /\ inst.op = "ebreak")

CpuEdge == /\ FsmEdge /\ InstRegEdge /\ PcEdge
           /\ CsrEdge /\ RegfileEdge /\ TrapEdge

(***************************************************************************)
(* The specification.                                                      *)
(***************************************************************************)
IcacheEdge ==
    IcEdge(ifu_arvalid, pc, ifu_rready,
           arb_state = "GRANT_IFU" /\ arb_arready,
           arb_state = "GRANT_IFU" /\ arb_rvalid, arb_rdata, arb_rlast)

\* Mutation: the grant is released with the first beat.
ArbiterEdgeFirstBeat ==
    ArbEdge(lsu_arvalid, ic_mem_arvalid, arb_rvalid /\ arb_rready)

ArbiterEdge ==
    ArbEdge(lsu_arvalid, ic_mem_arvalid, arb_rvalid /\ arb_rready /\ arb_rlast)

ClintPortEdge ==
    ClintEdge(arb_arvalid /\ sel_clint, arb_araddr, arb_rready /\ clint_rvalid,
              lsu_awvalid /\ sel_clint_w, lsu_wvalid /\ sel_clint_w,
              lsu_bready /\ clint_bvalid)

SocEdge ==
    /\ SocRead(io_master_arvalid, arb_araddr, arb_arlen, io_master_rready)
    /\ SocWrite(io_master_awvalid, bus_addr, io_master_wvalid, rs2_data,
                io_master_bready)

(***************************************************************************)
(* Every register holds a value of its width and every FSM is in one of    *)
(* its states: in particular no burst address leaves the address space and *)
(* no fill leaves its line.                                                *)
(***************************************************************************)
TypeOK == CpuTypeOK /\ IcTypeOK /\ ArbTypeOK /\ ClintTypeOK /\ SocTypeOK

Init == /\ CpuInit /\ IcInit /\ ArbInit /\ ClintInit
        /\ \E contents \in Programs : SocInit(contents)

\* One clock cycle of the simulation (single_cycle), until ebreak stops it.
Tick == /\ ~finish
        /\ CpuEdge /\ IcacheEdge /\ ArbiterEdge /\ ClintPortEdge /\ SocEdge

Finished == finish /\ UNCHANGED vars

Next == Tick \/ Finished

Spec == Init /\ [][Next]_vars

(***************************************************************************)
(* The SoC answers: it does not refuse or delay forever what it could      *)
(* accept or answer.  The clock is the simulation's loop and never stops   *)
(* before ebreak.                                                          *)
(***************************************************************************)
Fairness ==
    /\ WF_vars(Tick)
    /\ WF_vars(Tick /\ soc_arready')
    /\ WF_vars(Tick /\ soc_rvalid')
    /\ WF_vars(Tick /\ soc_awready')
    /\ WF_vars(Tick /\ soc_wready')
    /\ WF_vars(Tick /\ soc_bvalid')

FairSpec == Spec /\ Fairness

-----------------------------------------------------------------------------

(***************************************************************************)
(* The address decoder merges the responses of the CLINT and of the SoC    *)
(* with an "or" and gives the CLINT priority; its comment says the two     *)
(* never answer at once.  If they did, a response would be lost.           *)
(***************************************************************************)
OneResponder ==
    /\ ~(clint_rvalid /\ soc_rvalid)
    /\ ~(clint_bvalid /\ soc_bvalid)

(***************************************************************************)
(* A response is taken in the cycle it appears: whoever asked is granted   *)
(* the bus and waiting.  A beat that found nobody waiting would hold the   *)
(* arbiter's grant for ever.                                               *)
(***************************************************************************)
ResponseAwaited ==
    /\ arb_rvalid => arb_rready
    /\ arb_bvalid => lsu_bready

(***************************************************************************)
(* The write channels of the CPU and of the slave agree on what has been   *)
(* handed over: every store offers its address and its data exactly once.  *)
(***************************************************************************)
WriteHandover ==
    /\ soc_aw <=> \/ state = "MEM_REQ" /\ aw_done
                  \/ lsu_bready /\ ~clint_bvalid
    /\ soc_w <=> \/ state = "MEM_REQ" /\ w_done
                 \/ lsu_bready /\ ~clint_bvalid

(***************************************************************************)
(* A refill ends with rlast or at the last word, whichever comes first, so *)
(* the slave's count of the beats and the cache's count of the words have  *)
(* to agree all the way: the beat that comes next is that of the word that *)
(* is filled next, and the burst ends with the line.                       *)
(***************************************************************************)
RefillInStep ==
    ic_state = "MISS_R" /\ Cacheable(req_addr) =>
        /\ soc_rbusy
        /\ soc_raddr = LineBase(req_addr) + fill_word
        /\ soc_rleft = LAST_WORD - fill_word

(***************************************************************************)
(* What the CPU executes is what memory holds at pc: the I-cache returns   *)
(* the right word of the right line, also right after a refill, after a    *)
(* conflict, and for addresses it does not cache.                          *)
(***************************************************************************)
FetchCorrect == ifu_hsk_r => resp_data = mem[pc]

\* Line i is being filled: its first fill_word words have arrived.
Filling(i) == ic_state = "MISS_R" /\ Cacheable(req_addr) /\ i = IndexOf(req_addr)

(***************************************************************************)
(* A line that is marked valid holds the memory's words for its tag.  The  *)
(* line is marked valid with the first beat of a refill, so during one     *)
(* only the words that have arrived count.                                 *)
(***************************************************************************)
CacheCoherent ==
    \A i \in Index, w \in Word :
        valid_array[i] /\ (Filling(i) => w < fill_word)
            => \A a \in Val :
                  /\ TagOf(a) = tag_array[i] /\ IndexOf(a) = i /\ WordOf(a) = w
                  => data_array[i][w] = mem[a]

(***************************************************************************)
(* AXI: a request that has been offered stays, with the same address, data *)
(* and length, until it is accepted.                                       *)
(***************************************************************************)
RequestsStable ==
    [][/\ io_master_arvalid /\ ~soc_arready =>
              io_master_arvalid' /\ arb_araddr' = arb_araddr /\ arb_arlen' = arb_arlen
       /\ io_master_awvalid /\ ~soc_awready =>
              io_master_awvalid' /\ bus_addr' = bus_addr
       /\ io_master_wvalid /\ ~soc_wready =>
              io_master_wvalid' /\ rs2_data' = rs2_data]_vars

(***************************************************************************)
(* The core never hangs: it commits again and again until ebreak.          *)
(***************************************************************************)
Progress == []<>(commit \/ finish)

(***************************************************************************)
(* The core implements the reference machine: every commit is one step of  *)
(* NEMU's isa_exec_once from the same state, and nothing else changes      *)
(* registers or memory.                                                    *)
(***************************************************************************)
Ref == INSTANCE NemuIsa WITH
    IsaResetPc <- ResetPc, IsaMstatus <- MstatusReset,
    IsaPrograms <- Programs, IsaFaultAddr <- FaultAddr,
    isa_pc <- pc, isa_gpr <- rf, isa_csr <- csr, isa_mem <- mem,
    isa_end <- finish

ImplementsNemu == Ref!IsaSpec

-----------------------------------------------------------------------------

(***************************************************************************)
(* The inductive invariant.  The FSM state says who may be using the bus:  *)
(* one read or one write is outstanding at a time, and every module agrees *)
(* on how far it has come.                                                 *)
(***************************************************************************)
IcQuiet == ic_state = "IDLE" /\ ~resp_valid
NoRead == ~soc_rbusy /\ ~clint_rvalid
NoWrite == /\ ~soc_aw /\ ~soc_w /\ ~soc_bvalid /\ ~clint_bvalid
           /\ ~aw_done /\ ~w_done

SocInv ==
    /\ soc_rvalid => soc_rbusy
    /\ soc_arready => ~soc_rbusy
    /\ soc_bvalid => soc_aw /\ soc_w
    /\ soc_aw => ~soc_awready /\ soc_awaddr = bus_addr
    /\ soc_w => ~soc_wready /\ soc_wdata = rs2_data

PhaseIfReq ==
    state = "IF_REQ" => arb_state = "IDLE" /\ IcQuiet /\ NoRead /\ NoWrite

\* The beats still to come are those of the words still to be filled.
BurstInStep ==
    /\ arb_state = "GRANT_IFU"
    /\ soc_rbusy <=> ~clint_rvalid
    /\ Cacheable(req_addr) =>
          /\ soc_rbusy
          /\ soc_raddr = LineBase(req_addr) + fill_word
          /\ soc_rleft = LAST_WORD - fill_word
    /\ ~Cacheable(req_addr) /\ soc_rbusy => soc_raddr = req_addr /\ soc_rleft = 0

PhaseIfRsp ==
    state = "IF_RSP" =>
        /\ NoWrite
        /\ \/ /\ resp_valid /\ ic_state \in {"IDLE", "RESP"}
              /\ arb_state = "IDLE" /\ NoRead
           \/ /\ ~resp_valid /\ ic_state = "MISS_AR" /\ fill_word = 0
              /\ arb_state # "GRANT_LSU" /\ NoRead
           \/ ~resp_valid /\ ic_state = "MISS_R" /\ BurstInStep

PhaseLoad ==
    state \in {"MEM_REQ", "MEM_RSP"} /\ op_load =>
        /\ IcQuiet /\ NoWrite
        /\ state = "MEM_REQ" => arb_state # "GRANT_IFU" /\ NoRead
        /\ state = "MEM_RSP" =>
              /\ arb_state = "GRANT_LSU"
              /\ soc_rbusy <=> ~clint_rvalid
              /\ soc_rbusy => soc_raddr = bus_addr /\ soc_rleft = 0 /\ ~InClint(bus_addr)
              /\ clint_rvalid => InClint(bus_addr)

PhaseStore ==
    state \in {"MEM_REQ", "MEM_RSP"} /\ ~op_load =>
        /\ op_store /\ IcQuiet /\ NoRead /\ arb_state = "IDLE"
        /\ state = "MEM_REQ" =>
              /\ ~clint_bvalid /\ ~soc_bvalid
              /\ (soc_aw <=> aw_done) /\ (soc_w <=> w_done) /\ ~(aw_done /\ w_done)
              /\ InClint(bus_addr) => ~aw_done /\ ~w_done
        /\ state = "MEM_RSP" =>
              /\ ~aw_done /\ ~w_done
              /\ clint_bvalid <=> InClint(bus_addr)
              /\ (soc_aw <=> ~clint_bvalid) /\ (soc_w <=> ~clint_bvalid)

BusInv == SocInv /\ PhaseIfReq /\ PhaseIfRsp /\ PhaseLoad /\ PhaseStore

(***************************************************************************)
(* The conditions under which the I-cache is transparent: the program does *)
(* not fetch from the CLINT, does not store to a line the I-cache holds    *)
(* (there is no fence.i), and no fetch is answered with an error.          *)
(***************************************************************************)
CodeDiscipline ==
    /\ ~InClint(pc)
    /\ lsu_bready /\ soc_aw => ~Hit(bus_addr)
    /\ state = "IF_RSP" => ~axi_read_fault

\* The second part of the inductive invariant: what the cache holds and the
\* data that is under way.
DataInv ==
    /\ CacheCoherent
    /\ \A i \in Index : valid_array[i] => tag_array[i] \in CacheableTags
    /\ soc_rvalid /\ ~soc_rerr => soc_rdata = mem[soc_raddr]
    /\ state = "IF_RSP" => req_addr = pc /\ ~clint_rvalid
    /\ resp_valid => resp_data = mem[pc]
    /\ ic_state = "MISS_R" /\ Cacheable(req_addr) =>
          /\ fill_word > 0 => Hit(req_addr)
          /\ WordOf(req_addr) < fill_word => resp_data = mem[req_addr]

(***************************************************************************)
(* The instructions NEMU executes: it panics on any other, which the core  *)
(* treats as a nop, or as an access to a CSR that reads as 0.              *)
(***************************************************************************)
KnownCode == ifu_hsk_r => inst.op # "other" /\ (is_csr => inst.csr # "none")

\* The third part: the instruction that waits for memory is still the one at
\* pc, and an error response is about an address that may fail.
IsaInv ==
    /\ rf[0] = 0
    /\ state \in {"MEM_REQ", "MEM_RSP"} => inst_reg = mem[pc]
    /\ soc_rvalid /\ soc_rerr => soc_raddr \in FaultAddr
    /\ soc_bvalid /\ soc_berr => soc_awaddr \in FaultAddr

=============================================================================

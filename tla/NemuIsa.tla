------------------------------ MODULE NemuIsa ------------------------------
(***************************************************************************)
(* The reference machine: NEMU's isa_exec_once, one instruction per step.  *)
(* DiffTest runs it in lock step with the NPC core; here it is the         *)
(* abstract specification the core is checked against.                     *)
(*                                                                         *)
(* Two steps are not NEMU's own.  Skip is DiffTest's treatment of an       *)
(* access to a device the reference does not have: the reference takes     *)
(* over the core's registers.  AccessFault is the trap the core's own      *)
(* comments promise for an access the bus answers with an error.           *)
(***************************************************************************)
EXTENDS NpcParams

CONSTANTS
    IsaResetPc, IsaMstatus,    \* RESET_VECTOR and the reset mstatus
    IsaPrograms,               \* images the machine may be loaded with
    IsaFaultAddr               \* addresses the bus may answer with an error

VARIABLES isa_pc, isa_gpr, isa_csr, isa_mem, isa_end

isaVars == <<isa_pc, isa_gpr, isa_csr, isa_mem, isa_end>>

\* restart(): the zeroed CPU_state with pc and mstatus set.
IsaInit ==
    /\ isa_pc = IsaResetPc
    /\ isa_gpr = [r \in Reg |-> 0]
    /\ isa_csr = [c \in CsrName |-> IF c = "mstatus" THEN IsaMstatus ELSE 0]
    /\ isa_mem \in IsaPrograms
    /\ isa_end = FALSE

IsaInst == Decode[isa_mem[isa_pc]]
src1 == isa_gpr[IsaInst.rs1]
src2 == isa_gpr[IsaInst.rs2]
IsaSnpc == (isa_pc + 1) % ValNum
MemAddr == (src1 + IsaInst.imm) % ValNum

\* R(rd) = v; $zero is reset to 0 after every instruction.
SetR(v) == isa_gpr' = [isa_gpr EXCEPT ![IsaInst.rd] = IF IsaInst.rd = 0 THEN 0 ELSE v]

Compute ==
    /\ IsaInst.op = "alu"
    /\ SetR((src1 + IsaInst.imm) % ValNum)
    /\ isa_pc' = IsaSnpc
    /\ UNCHANGED <<isa_csr, isa_mem, isa_end>>

Load ==
    /\ IsaInst.op = "load" /\ ~InClint(MemAddr)
    /\ SetR(isa_mem[MemAddr])
    /\ isa_pc' = IsaSnpc
    /\ UNCHANGED <<isa_csr, isa_mem, isa_end>>

Store ==
    /\ IsaInst.op = "store" /\ ~InClint(MemAddr)
    /\ isa_mem' = [isa_mem EXCEPT ![MemAddr] = src2]
    /\ isa_pc' = IsaSnpc
    /\ UNCHANGED <<isa_gpr, isa_csr, isa_end>>

Jump ==
    /\ IsaInst.op \in {"jal", "jalr"}
    /\ SetR(IsaSnpc)
    /\ isa_pc' = ((IF IsaInst.op = "jal" THEN isa_pc ELSE src1) + IsaInst.imm) % ValNum
    /\ UNCHANGED <<isa_csr, isa_mem, isa_end>>

Branch ==
    /\ IsaInst.op = "branch"
    /\ isa_pc' = IF src1 = src2 THEN (isa_pc + IsaInst.imm) % ValNum ELSE IsaSnpc
    /\ UNCHANGED <<isa_gpr, isa_csr, isa_mem, isa_end>>

\* csrrw and csrrs: the old CSR goes to rd; csrrs ors src1 into it.
CsrAccess ==
    LET c == IsaInst.csr IN
    /\ IsaInst.op \in {"csrrw", "csrrs"} /\ c # "none"
    /\ isa_csr' = [isa_csr EXCEPT
           ![c] = IF IsaInst.op = "csrrw" THEN src1 ELSE BitOr(@, src1)]
    /\ SetR(isa_csr[c])
    /\ isa_pc' = IsaSnpc
    /\ UNCHANGED <<isa_mem, isa_end>>

\* isa_raise_intr(11, pc)
Ecall ==
    /\ IsaInst.op = "ecall"
    /\ isa_csr' = [isa_csr EXCEPT !["mepc"] = isa_pc, !["mcause"] = 11]
    /\ isa_pc' = isa_csr["mtvec"]
    /\ UNCHANGED <<isa_gpr, isa_mem, isa_end>>

Mret ==
    /\ IsaInst.op = "mret"
    /\ isa_pc' = isa_csr["mepc"]
    /\ UNCHANGED <<isa_gpr, isa_csr, isa_mem, isa_end>>

\* NEMUTRAP ends the run.
Ebreak ==
    /\ IsaInst.op = "ebreak"
    /\ isa_end' = TRUE
    /\ isa_pc' = IsaSnpc
    /\ UNCHANGED <<isa_gpr, isa_csr, isa_mem>>

\* DiffTest's skip: the register a load writes is copied from the core.
Skip ==
    /\ IsaInst.op \in {"load", "store"} /\ InClint(MemAddr)
    /\ \/ IsaInst.op = "store" /\ UNCHANGED isa_gpr
       \/ IsaInst.op = "load" /\ \E v \in Val : SetR(v)
    /\ isa_pc' = IsaSnpc
    /\ UNCHANGED <<isa_csr, isa_mem, isa_end>>

\* The instruction is replaced by a trap: no register or memory is written.
FaultTrap(cause) ==
    /\ isa_csr' = [isa_csr EXCEPT !["mepc"] = isa_pc, !["mcause"] = cause]
    /\ isa_pc' = isa_csr["mtvec"]
    /\ UNCHANGED <<isa_gpr, isa_mem, isa_end>>

AccessFault ==
    \/ isa_pc \in IsaFaultAddr /\ FaultTrap(1)
    \/ IsaInst.op = "load" /\ MemAddr \in IsaFaultAddr /\ FaultTrap(5)
    \/ IsaInst.op = "store" /\ MemAddr \in IsaFaultAddr /\ FaultTrap(7)

IsaNext ==
    /\ ~isa_end
    /\ \/ Compute \/ Load \/ Store \/ Jump \/ Branch \/ CsrAccess
       \/ Ecall \/ Mret \/ Ebreak \/ Skip \/ AccessFault

IsaSpec == IsaInit /\ [][IsaNext]_isaVars

=============================================================================

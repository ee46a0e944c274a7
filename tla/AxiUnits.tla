------------------------------ MODULE AxiUnits ------------------------------
(***************************************************************************)
(* The AXI modules inside the core: the read arbiter and the timer.        *)
(***************************************************************************)
EXTENDS NpcParams

CONSTANTS
    MtimeHalf,           \* values of one half of mtime: 2^32
    MtimeLo, MtimeHi     \* addresses of the two halves

ASSUME ClintAssumption ==
    /\ MtimeHalf \in Nat \ {0}
    /\ MtimeHalf <= ValNum
    /\ MtimeLo \in Val /\ MtimeHi \in Val

(***************************************************************************)
(* The read arbiter between the I-cache and the LSU (module axi_arbiter).  *)
(* The grant is taken in a cycle of its own, LSU first, and kept until the *)
(* last beat of the read; the write channels pass the LSU's wires through. *)
(***************************************************************************)
VARIABLE arb_state   \* "IDLE", "GRANT_LSU", "GRANT_IFU"

ArbTypeOK == arb_state \in {"IDLE", "GRANT_LSU", "GRANT_IFU"}

ArbInit == arb_state = "IDLE"

\* The wires of the granted side, or the idle value.
Granted(lsu, ifu, idle) ==
    IF arb_state = "GRANT_LSU" THEN lsu
    ELSE IF arb_state = "GRANT_IFU" THEN ifu ELSE idle

ArbEdge(lsu_arvalid, ifu_arvalid, last_beat_taken) ==
    \/ /\ arb_state = "IDLE"
       /\ arb_state' = IF lsu_arvalid THEN "GRANT_LSU"
                       ELSE IF ifu_arvalid THEN "GRANT_IFU" ELSE "IDLE"
    \/ /\ arb_state # "IDLE"
       /\ arb_state' = IF last_beat_taken THEN "IDLE" ELSE arb_state

(***************************************************************************)
(* The timer (module axi_clint): a counter twice as wide as a value, read  *)
(* one half at a time, and a write port that answers and ignores every     *)
(* write.                                                                  *)
(***************************************************************************)
VARIABLES mtime, clint_rvalid, clint_rdata, clint_bvalid

clintVars == <<mtime, clint_rvalid, clint_rdata, clint_bvalid>>

Mtime == 0 .. MtimeHalf * MtimeHalf - 1

ClintTypeOK ==
    /\ mtime \in Mtime
    /\ clint_rvalid \in BOOLEAN
    /\ clint_rdata \in Val
    /\ clint_bvalid \in BOOLEAN

ClintInit ==
    /\ mtime = 0
    /\ clint_rvalid = FALSE
    /\ clint_rdata = 0
    /\ clint_bvalid = FALSE

clint_arready == ~clint_rvalid
clint_awready == ~clint_bvalid
clint_wready == ~clint_bvalid

ClintTime == mtime' = (mtime + 1) % (MtimeHalf * MtimeHalf)

\* Mutation: the response is never withdrawn.
ClintReadStuck(arvalid, araddr, rready) ==
    /\ clint_rvalid' = (clint_rvalid \/ arvalid)
    /\ clint_rdata' = IF arvalid /\ ~clint_rvalid THEN mtime % MtimeHalf ELSE clint_rdata

ClintRead(arvalid, araddr, rready) ==
    \/ /\ arvalid /\ ~clint_rvalid
       /\ clint_rvalid' = TRUE
       /\ clint_rdata' = CASE araddr = MtimeLo -> mtime % MtimeHalf
                           [] araddr = MtimeHi -> mtime \div MtimeHalf
                           [] OTHER -> 0
    \/ /\ ~(arvalid /\ ~clint_rvalid)
       /\ clint_rvalid' = (clint_rvalid /\ ~rready)
       /\ UNCHANGED clint_rdata

ClintWrite(awvalid, wvalid, bready) ==
    clint_bvalid' = IF clint_bvalid THEN ~bready ELSE awvalid /\ wvalid

ClintEdge(arvalid, araddr, rready, awvalid, wvalid, bready) ==
    /\ ClintTime
    /\ ClintRead(arvalid, araddr, rready)
    /\ ClintWrite(awvalid, wvalid, bready)

=============================================================================

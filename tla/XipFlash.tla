------------------------------ MODULE XipFlash ------------------------------
(***************************************************************************)
(* Execute-in-place access to the flash (ysyxSoC/perip/spi/rtl/            *)
(* spi_top_apb.v): a state machine that turns an APB read of the flash     *)
(* window into the register accesses a driver would make on the SPI        *)
(* master, which software may use directly through the same port.          *)
(*                                                                         *)
(* One Tick is a clock cycle.  The SPI master (spi_top.v, spi_shift.v) is  *)
(* modelled by its registers: writes are dropped while a transfer is in    *)
(* progress, and one shift register holds what is sent and what has been   *)
(* received.  A transfer takes any number of cycles.  A word is a pair of  *)
(* bytes; the flash sends the lower one first, so it arrives reversed.     *)
(***************************************************************************)
EXTENDS Integers

CONSTANTS
    Addr,         \* word offsets in the flash
    NoAddr,       \* what software sends that is not a read command
    Byte,
    Flash,        \* the contents of the flash
    SoftwareWaits,\* does software let its transfers end before it, or the code
                  \* it runs, touches the flash window?
    EvenLengths   \* does software only use even transfer lengths?

WordSet == Byte \X Byte
Reversed(w) == <<w[2], w[1]>>

ASSUME XipAssumption ==
    /\ NoAddr \notin Addr
    /\ Flash \in [Addr -> WordSet]
    /\ Addr # {} /\ Byte # {}
    /\ SoftwareWaits \in BOOLEAN /\ EvenLengths \in BOOLEAN

VARIABLES
    m_state, req,                       \* the APB master's port
    xip_state, xip_addr, xip_rdata, xip_error,
    data_lo, data_hi,                   \* shift register: TX0/RX0 and TX1
    go, ie, full, odd,                  \* CTRL; full: 64 bits with automatic
                                        \* select; odd: bit 0 of the length
    ss, tip,                            \* flash selected; transfer in progress
    ack, irq, dat_o                     \* wb_ack_o, wb_int_o, wb_dat_o

masterVars == <<m_state, req>>
xipVars == <<xip_state, xip_addr, xip_rdata, xip_error>>
spiVars == <<data_lo, data_hi, go, ie, full, odd, ss, tip, ack, irq, dat_o>>
vars == <<masterVars, xipVars, spiVars>>

XipState == {"IDLE", "W_TX0", "W_TX1", "W_DIV", "W_SS", "W_CTRL",
             "WAIT_IRQ", "R_RX0", "RESP"}
SpiReg == {"TX0", "TX1", "DIV", "SS", "CTRL", "RX0"}
Request == [target : SpiReg \cup {"flash"}, write : BOOLEAN,
            addr : Addr \cup {NoAddr}, go : BOOLEAN, ie : BOOLEAN, odd : BOOLEAN]

TypeOK ==
    /\ m_state \in {"idle", "setup", "access"} /\ req \in Request
    /\ xip_state \in XipState /\ xip_addr \in Addr
    /\ xip_rdata \in WordSet /\ xip_error \in BOOLEAN
    /\ data_lo \in WordSet /\ data_hi \in Addr \cup {NoAddr}
    /\ go \in BOOLEAN /\ ie \in BOOLEAN /\ full \in BOOLEAN /\ odd \in BOOLEAN
    /\ ss \in BOOLEAN /\ tip \in BOOLEAN
    /\ ack \in BOOLEAN /\ irq \in BOOLEAN /\ dat_o \in WordSet

Zero == LET b == CHOOSE x \in Byte : TRUE IN <<b, b>>

Init ==
    /\ m_state = "idle"
    /\ req = [target |-> "RX0", write |-> FALSE, addr |-> NoAddr,
              go |-> FALSE, ie |-> FALSE, odd |-> FALSE]
    /\ xip_state = "IDLE" /\ xip_addr = CHOOSE a \in Addr : TRUE
    /\ xip_rdata = Zero /\ xip_error = FALSE
    /\ data_lo = Zero /\ data_hi = NoAddr
    /\ go = FALSE /\ ie = FALSE /\ full = FALSE /\ odd = FALSE
    /\ ss = FALSE /\ tip = FALSE
    /\ ack = FALSE /\ irq = FALSE /\ dat_o = Zero

in_flash == req.target = "flash"
penable == m_state = "access"
xip_active == xip_state # "IDLE"
xip_start == m_state = "setup" /\ in_flash /\ ~xip_active
in_pready == IF in_flash THEN xip_state = "RESP" ELSE ack

(***************************************************************************)
(* What reaches the SPI master: the register accessed in this cycle.       *)
(***************************************************************************)
\* Without an access the address is 0, which is RX0 when read.
XipReg == [s \in XipState |->
             CASE s = "W_TX0" -> "TX0" [] s = "W_TX1" -> "TX1" [] s = "W_DIV" -> "DIV"
               [] s = "W_SS" -> "SS" [] s = "W_CTRL" -> "CTRL" [] OTHER -> "RX0"]

wb_cyc == IF xip_active THEN xip_state \notin {"WAIT_IRQ", "RESP"} ELSE penable /\ ~in_flash
wb_adr == IF xip_active THEN XipReg[xip_state] ELSE req.target
wb_we == IF xip_active THEN XipReg[xip_state] # "RX0" ELSE req.write

\* The control word of the state machine: start a 64-bit transfer with automatic
\* select, and raise the interrupt when it ends.
\* Mutation: the interrupt is not enabled.
CTRL_XIPNoIrq == [go |-> TRUE, ie |-> FALSE, full |-> TRUE]

CTRL_XIP == [go |-> TRUE, ie |-> TRUE, full |-> TRUE]

Ctrl == IF xip_active THEN CTRL_XIP ELSE [go |-> req.go, ie |-> req.ie, full |-> FALSE]

Writes(reg) == wb_cyc /\ wb_we /\ wb_adr = reg

(***************************************************************************)
(* The APB master: it holds a request until it is answered.                *)
(***************************************************************************)
\* The requests software makes: flash accesses, and any use of the registers.
\* A request carries only what its register has.
Sensible(r) ==
    /\ r.target = "flash" => r.addr \in Addr
    /\ r.target \notin {"flash", "TX1"} => r.addr = NoAddr
    /\ r.go \/ r.ie \/ r.odd => r.target = "CTRL" /\ r.write
    /\ SoftwareWaits /\ r.target = "flash" => ~go /\ ~tip /\ ~Writes("CTRL")
    /\ EvenLengths => ~r.odd

NewRequest == m_state' = "setup" /\ req' \in {r \in Request : Sensible(r)}

MasterEdge ==
    \/ /\ m_state = "idle" \/ (penable /\ in_pready)
       /\ NewRequest \/ (m_state' = "idle" /\ UNCHANGED req)
    \/ m_state = "setup" /\ m_state' = "access" /\ UNCHANGED req
    \/ penable /\ ~in_pready /\ UNCHANGED masterVars

(***************************************************************************)
(* The state machine.                                                      *)
(***************************************************************************)
XipGoto(s) == xip_state' = s /\ UNCHANGED <<xip_addr, xip_rdata, xip_error>>

XipIdle ==
    /\ xip_state = "IDLE"
    /\ IF xip_start
       THEN /\ xip_addr' = req.addr
            /\ xip_rdata' = Zero
            /\ xip_error' = req.write
            /\ xip_state' = IF req.write THEN "RESP" ELSE "W_TX0"
       ELSE UNCHANGED xipVars

Successor == [s \in {"W_TX0", "W_TX1", "W_DIV", "W_SS", "W_CTRL"} |->
                CASE s = "W_TX0" -> "W_TX1" [] s = "W_TX1" -> "W_DIV"
                  [] s = "W_DIV" -> "W_SS" [] s = "W_SS" -> "W_CTRL"
                  [] OTHER -> "WAIT_IRQ"]

XipWrite ==
    /\ xip_state \in DOMAIN Successor
    /\ IF ack THEN XipGoto(Successor[xip_state]) ELSE UNCHANGED xipVars

\* Mutation: the machine does not wait for the transfer.
XipWaitNot == xip_state = "WAIT_IRQ" /\ XipGoto("R_RX0")

XipWait ==
    /\ xip_state = "WAIT_IRQ"
    /\ IF irq THEN XipGoto("R_RX0") ELSE UNCHANGED xipVars

XipReadRx ==
    /\ xip_state = "R_RX0"
    /\ IF ack THEN /\ xip_rdata' = Reversed(dat_o)
                   /\ xip_state' = "RESP"
                   /\ UNCHANGED <<xip_addr, xip_error>>
       ELSE UNCHANGED xipVars

XipResp ==
    /\ xip_state = "RESP"
    /\ IF penable THEN XipGoto("IDLE") ELSE UNCHANGED xipVars

XipEdge == XipIdle \/ XipWrite \/ XipWait \/ XipReadRx \/ XipResp

(***************************************************************************)
(* The SPI master.                                                         *)
(***************************************************************************)
AckEdge == ack' = (wb_cyc /\ ~ack)

\* TX0 and RX0 have one address; what the other registers read as is left out.
ReadEdge == dat_o' = IF wb_adr \in {"TX0", "RX0"} THEN data_lo ELSE Zero

\* No transfer: registers can be written, and GO starts one.  Bit 0 of CTRL is
\* or-ed with its old value, so an odd transfer length stays odd.
SpiIdle ==
    /\ ~tip
    /\ tip' = go
    /\ data_lo' \in IF Writes("TX0") THEN (IF xip_active THEN {Zero} ELSE WordSet)
                    ELSE {data_lo}
    /\ data_hi' = IF Writes("TX1") THEN (IF xip_active THEN xip_addr ELSE req.addr)
                  ELSE data_hi
    /\ ss' \in IF Writes("SS") THEN (IF xip_active THEN {TRUE} ELSE BOOLEAN) ELSE {ss}
    /\ go' = IF Writes("CTRL") THEN Ctrl.go ELSE go
    /\ ie' = IF Writes("CTRL") THEN Ctrl.ie ELSE ie
    /\ full' = IF Writes("CTRL") THEN Ctrl.full ELSE full
    /\ odd' = (odd \/ (Writes("CTRL") /\ ~xip_active /\ req.odd))
    /\ irq' = (irq /\ ~ack)

SpiShifting ==
    /\ tip
    /\ irq' = (irq /\ ~ack)
    /\ UNCHANGED <<data_lo, data_hi, go, ie, full, odd, ss, tip>>

\* The last bit: a full transfer to the flash has fetched the word.
SpiLast ==
    /\ tip
    /\ tip' = FALSE /\ go' = FALSE
    /\ data_lo' \in IF full /\ ~odd /\ ss /\ data_hi # NoAddr
                    THEN {Reversed(Flash[data_hi])} ELSE WordSet
    /\ data_hi' = NoAddr
    /\ irq' = (ie \/ (irq /\ ~ack))
    /\ UNCHANGED <<ie, full, odd, ss>>

SpiEdge == AckEdge /\ ReadEdge /\ (SpiIdle \/ SpiShifting \/ SpiLast)

Tick == SpiEdge /\ XipEdge /\ MasterEdge

Next == Tick

Spec == Init /\ [][Next]_vars

\* The clock runs and a transfer ends after as many bits as it has.
FairSpec == Spec /\ WF_vars(Tick) /\ WF_vars(SpiLast /\ Tick)

-----------------------------------------------------------------------------

FlashAnswer == penable /\ in_flash /\ in_pready

(***************************************************************************)
(* A read of the flash window is answered with the word of the flash, and  *)
(* a write with an error, whatever software did with the SPI master before.*)
(***************************************************************************)
XipReadsFlash ==
    FlashAnswer => /\ ~req.write => xip_rdata = Flash[req.addr] /\ ~xip_error
                   /\ req.write => xip_error

(***************************************************************************)
(* Every access to the flash window is answered.                           *)
(***************************************************************************)
XipAnswers == (m_state = "setup" /\ in_flash) ~> FlashAnswer

(***************************************************************************)
(* How far a read has come: what the state machine has passed is written,  *)
(* no transfer but its own runs, and that one has delivered the word when  *)
(* it ends.                                                                *)
(***************************************************************************)
XipOwnsPort ==
    /\ xip_active => /\ penable /\ in_flash /\ req.addr = xip_addr
                     /\ xip_error <=> req.write
    /\ xip_active /\ xip_error => xip_state = "RESP"
    /\ in_flash /\ req.addr \notin Addr => m_state = "idle"
    /\ in_flash /\ m_state = "setup" => ~xip_active /\ ~go /\ ~tip /\ ~ack
    /\ in_flash /\ penable => xip_active

XipProgress ==
    /\ xip_state \in {"W_TX0", "W_TX1", "W_DIV", "W_SS", "W_CTRL"} => ~tip
    /\ xip_state \in {"W_TX0", "W_TX1", "W_DIV", "W_SS"} => ~go
    /\ xip_state = "W_TX1" /\ ack => data_hi = xip_addr
    /\ xip_state \in {"W_DIV", "W_SS", "W_CTRL"} => data_hi = xip_addr
    /\ xip_state = "W_SS" /\ ack => ss
    /\ xip_state \in {"W_CTRL", "WAIT_IRQ"} => ss
    /\ xip_state = "W_CTRL" => (go <=> ack) /\ (go => ie /\ full) /\ ~irq
    /\ xip_state = "WAIT_IRQ" => ie /\ full /\ ~ack /\ (tip <=> go) /\ (irq <=> ~tip)
    /\ xip_state = "WAIT_IRQ" /\ tip => data_hi = xip_addr

XipDelivers ==
    /\ xip_state = "WAIT_IRQ" /\ ~tip => data_lo = Reversed(Flash[xip_addr])
    /\ xip_state = "R_RX0" => /\ ~tip /\ ~go
                              /\ data_lo = Reversed(Flash[xip_addr])
                              /\ ack => dat_o = data_lo
    /\ xip_state = "RESP" /\ ~xip_error => xip_rdata = Flash[xip_addr]

XipInv == ~odd /\ ~req.odd /\ XipOwnsPort /\ XipProgress /\ XipDelivers

=============================================================================

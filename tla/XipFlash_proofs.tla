-------------------------- MODULE XipFlash_proofs --------------------------
(***************************************************************************)
(* Proof that execute-in-place returns the contents of the flash for every *)
(* flash and every use software makes of the SPI master, as long as it     *)
(* waits for its own transfers and keeps to even transfer lengths.         *)
(***************************************************************************)
EXTENDS XipFlash, TLAPS

IndInv == TypeOK /\ XipInv

\* The byte swap is its own inverse.
LEMMA ReversedTwice == \A w \in WordSet : Reversed(w) \in WordSet /\ Reversed(Reversed(w)) = w
BY DEF Reversed, WordSet

\* The reset value is a word.
LEMMA ZeroType == Zero \in WordSet
BY XipAssumption DEF Zero, WordSet

\* The flash holds words.
LEMMA FlashType == \A a \in Addr : Flash[a] \in WordSet
BY XipAssumption

USE DEF in_flash, penable, xip_active, xip_start, in_pready, masterVars, xipVars

\* A clock edge keeps the types.
LEMMA TypeNext == ASSUME TypeOK, XipInv, Tick PROVE TypeOK'
<1> USE DEF TypeOK, Tick
<1>1. m_state' \in {"idle", "setup", "access"} /\ req' \in Request
  BY DEF MasterEdge, NewRequest
<1>2. xip_state' \in XipState /\ xip_error' \in BOOLEAN
  BY DEF XipEdge, XipIdle, XipWrite, XipWait, XipReadRx, XipResp, XipGoto, XipState,
         Successor, Request
<1>3. xip_addr' \in Addr
  BY DEF XipEdge, XipIdle, XipWrite, XipWait, XipReadRx, XipResp, XipGoto, Request,
         XipInv, XipOwnsPort
<1>4. xip_rdata' \in WordSet
  BY ZeroType, ReversedTwice
  DEF XipEdge, XipIdle, XipWrite, XipWait, XipReadRx, XipResp, XipGoto
<1>5. /\ ack' \in BOOLEAN /\ dat_o' \in WordSet
  BY ZeroType DEF SpiEdge, AckEdge, ReadEdge, wb_cyc
<1>6. /\ data_hi' \in Addr \cup {NoAddr}
      /\ data_lo' \in WordSet
      /\ ss' \in BOOLEAN
  BY ZeroType, FlashType, ReversedTwice
  DEF SpiEdge, SpiIdle, SpiShifting, SpiLast, Request
<1>7. /\ go' \in BOOLEAN /\ ie' \in BOOLEAN /\ full' \in BOOLEAN
      /\ tip' \in BOOLEAN /\ odd' \in BOOLEAN
  BY DEF SpiEdge, SpiIdle, SpiShifting, SpiLast, Request, Ctrl, CTRL_XIP
<1>8. irq' \in BOOLEAN
  BY DEF SpiEdge, SpiIdle, SpiShifting, SpiLast
<1> QED BY <1>1, <1>2, <1>3, <1>4, <1>5, <1>6, <1>7, <1>8

(***************************************************************************)
(* The state machine owns the port while it is active, and a request for   *)
(* the window finds no transfer pending.                                   *)
(***************************************************************************)
LEMMA OwnsNext ==
    ASSUME SoftwareWaits, EvenLengths, TypeOK, XipInv, Tick
    PROVE  ~odd' /\ ~req'.odd /\ XipOwnsPort'
<1> USE DEF TypeOK, Tick, XipInv
<1>1. ~odd'
  BY DEF SpiEdge, SpiIdle, SpiShifting, SpiLast
<1>2. ~req'.odd
  BY DEF MasterEdge, NewRequest, Sensible
<1>3. ~ack' \/ ~(m_state' = "setup")
  BY DEF SpiEdge, AckEdge, MasterEdge, NewRequest, XipOwnsPort, wb_cyc, XipState
<1>4. (in_flash /\ m_state = "setup")' => ~xip_active' /\ ~go' /\ ~tip'
  <2> SUFFICES ASSUME req'.target = "flash", m_state' = "setup"
               PROVE  xip_state' = "IDLE" /\ ~go' /\ ~tip'
    OBVIOUS
  <2>1. /\ m_state = "idle" \/ (penable /\ in_pready)
        /\ ~go /\ ~tip /\ ~Writes("CTRL")
    BY DEF MasterEdge, NewRequest, Sensible
  <2>2. ~go' /\ ~tip'
    <3>1. SpiIdle
      BY <2>1 DEF SpiEdge, SpiShifting, SpiLast
    <3>2. tip' = go /\ go' = go
      BY <2>1, <3>1 DEF SpiIdle
    <3> QED BY <2>1, <3>2, Zenon
  <2>3. xip_state' = "IDLE"
    BY <2>1 DEF XipOwnsPort, XipEdge, XipIdle, XipWrite, XipWait, XipReadRx, XipResp,
                XipGoto, Successor
  <2> QED BY <2>2, <2>3
<1>5. (in_flash /\ penable)' => xip_active'
  BY DEF MasterEdge, NewRequest, XipOwnsPort, XipEdge, XipIdle, XipWrite, XipWait,
         XipReadRx, XipResp, XipGoto, Successor, Request
<1>6. xip_active' => /\ penable' /\ in_flash' /\ req'.addr = xip_addr'
                     /\ xip_error' <=> req'.write
  BY DEF MasterEdge, NewRequest, XipOwnsPort, XipEdge, XipIdle, XipWrite, XipWait,
         XipReadRx, XipResp, XipGoto, Successor, Request
<1>7. xip_active' /\ xip_error' => xip_state' = "RESP"
  BY DEF MasterEdge, NewRequest, XipOwnsPort, XipEdge, XipIdle, XipWrite, XipWait,
         XipReadRx, XipResp, XipGoto, Successor, Request
<1>8. (in_flash /\ req.addr \notin Addr => m_state = "idle")'
  BY DEF MasterEdge, NewRequest, Sensible, XipOwnsPort
<1> QED BY <1>1, <1>2, <1>3, <1>4, <1>5, <1>6, <1>7, <1>8 DEF XipOwnsPort

(***************************************************************************)
(* One step of the state machine, from each of its states: what it has     *)
(* written stays written, because nobody else reaches the SPI master.      *)
(***************************************************************************)
LEMMA ProgressNext ==
    ASSUME SoftwareWaits, EvenLengths, TypeOK, XipInv, Tick
    PROVE  XipProgress' /\ XipDelivers'
<1> USE DEF TypeOK, Tick, XipInv, XipOwnsPort
<1>0. xip_state \in XipState
  OBVIOUS
<1>1. CASE xip_state = "IDLE"
  BY <1>1 DEF XipEdge, XipIdle, XipWrite, XipWait, XipReadRx, XipResp, Successor,
              XipProgress, XipDelivers, SpiEdge, SpiIdle, SpiShifting, SpiLast,
              Writes, wb_cyc, AckEdge
<1>2. CASE xip_state = "W_TX0"
  <2>1. XipWrite
    BY <1>2 DEF XipEdge, XipIdle, XipWrite, XipWait, XipReadRx, XipResp, Successor
  <2> QED BY <1>2, <2>1, ReversedTwice, FlashType
          DEF XipWrite, XipGoto, Successor, XipProgress, XipDelivers, SpiEdge, SpiIdle,
              SpiShifting, SpiLast, Writes, wb_cyc, wb_adr, wb_we, XipReg, XipState,
              Ctrl, CTRL_XIP, AckEdge, ReadEdge
<1>3. CASE xip_state = "W_TX1"
  <2>1. XipWrite
    BY <1>3 DEF XipEdge, XipIdle, XipWrite, XipWait, XipReadRx, XipResp, Successor
  <2> QED BY <1>3, <2>1, ReversedTwice, FlashType
          DEF XipWrite, XipGoto, Successor, XipProgress, XipDelivers, SpiEdge, SpiIdle,
              SpiShifting, SpiLast, Writes, wb_cyc, wb_adr, wb_we, XipReg, XipState,
              Ctrl, CTRL_XIP, AckEdge, ReadEdge
<1>4. CASE xip_state = "W_DIV"
  <2>1. XipWrite
    BY <1>4 DEF XipEdge, XipIdle, XipWrite, XipWait, XipReadRx, XipResp, Successor
  <2>2. SpiIdle /\ AckEdge
    BY <1>4 DEF XipProgress, SpiEdge, SpiShifting, SpiLast
  <2>3. /\ wb_cyc /\ wb_adr = "DIV" /\ wb_we
        /\ \A reg : Writes(reg) <=> reg = "DIV"
    BY <1>4 DEF wb_cyc, wb_adr, wb_we, XipReg, XipState, Writes
  <2>4. go' = go /\ tip' = go /\ data_hi' = data_hi /\ xip_addr' = xip_addr
    BY <1>4, <2>1, <2>2, <2>3 DEF SpiIdle, XipWrite, XipGoto
  <2>5. ~go' /\ ~tip' /\ data_hi' = xip_addr'
    BY <1>4, <2>4 DEF XipProgress
  <2>6. ack => ~ack'
    BY <2>2 DEF AckEdge
  <2> QED BY <1>4, <2>1, <2>3, <2>5, <2>6
          DEF XipWrite, XipGoto, Successor, XipProgress, XipDelivers
<1>5. CASE xip_state = "W_SS"
  <2>1. XipWrite
    BY <1>5 DEF XipEdge, XipIdle, XipWrite, XipWait, XipReadRx, XipResp, Successor
  <2>2. SpiIdle /\ AckEdge
    BY <1>5 DEF XipProgress, SpiEdge, SpiShifting, SpiLast
  <2>3. /\ wb_cyc /\ wb_adr = "SS" /\ wb_we
        /\ \A reg : Writes(reg) <=> reg = "SS"
    BY <1>5 DEF wb_cyc, wb_adr, wb_we, XipReg, XipState, Writes
  <2>4. go' = go /\ tip' = go /\ data_hi' = data_hi /\ xip_addr' = xip_addr
    BY <1>5, <2>1, <2>2, <2>3 DEF SpiIdle, XipWrite, XipGoto
  <2>5. ~go' /\ ~tip' /\ data_hi' = xip_addr'
    BY <1>5, <2>4 DEF XipProgress
  <2>6. ack => ~irq' /\ ~ack'
    BY <2>2, <2>3 DEF SpiIdle, AckEdge
  <2>7. ss' = TRUE
    BY <1>5, <2>2, <2>3 DEF SpiIdle
  <2> QED BY <1>5, <2>1, <2>3, <2>4, <2>5, <2>6, <2>7
          DEF XipWrite, XipGoto, Successor, XipProgress, XipDelivers
<1>6. CASE xip_state = "W_CTRL"
  <2>1. XipWrite
    BY <1>6 DEF XipEdge, XipIdle, XipWrite, XipWait, XipReadRx, XipResp, Successor
  <2>2. SpiIdle /\ AckEdge
    BY <1>6 DEF XipProgress, SpiEdge, SpiShifting, SpiLast
  <2>3. /\ wb_cyc /\ wb_adr = "CTRL" /\ wb_we
        /\ \A reg : Writes(reg) <=> reg = "CTRL"
    BY <1>6 DEF wb_cyc, wb_adr, wb_we, XipReg, XipState, Writes
  <2>4. /\ go' /\ ie' /\ full' /\ tip' = go /\ ~irq' /\ (ack' <=> ~ack)
        /\ data_hi' = data_hi /\ xip_addr' = xip_addr /\ ss' = ss
    BY <1>6, <2>1, <2>2, <2>3
    DEF SpiIdle, XipWrite, XipGoto, Ctrl, CTRL_XIP, XipProgress, AckEdge
  <2>5. data_hi' = xip_addr' /\ ss' /\ (tip' <=> ack)
    BY <1>6, <2>4 DEF XipProgress
  <2>6. CASE ack
    BY <1>6, <2>1, <2>4, <2>5, <2>6 DEF XipWrite, XipGoto, Successor, XipProgress, XipDelivers
  <2>7. CASE ~ack
    BY <1>6, <2>1, <2>4, <2>5, <2>7 DEF XipWrite, XipGoto, Successor, XipProgress, XipDelivers
  <2> QED BY <2>6, <2>7
<1>7. CASE xip_state = "WAIT_IRQ"
  <2>1. XipWait
    BY <1>7 DEF XipEdge, XipIdle, XipWrite, XipWait, XipReadRx, XipResp, Successor
  <2>2. ~wb_cyc /\ ~ack' /\ xip_addr' = xip_addr
    BY <1>7, <2>1 DEF wb_cyc, SpiEdge, AckEdge, XipWait, XipGoto
  <2>3. CASE SpiIdle
    <3>1. /\ irq /\ xip_state' = "R_RX0" /\ tip' = go /\ go' = go
          /\ data_lo' = data_lo
      BY <1>7, <2>1, <2>2, <2>3 DEF SpiIdle, XipWait, XipGoto, XipProgress, Writes
    <3>2. ~tip' /\ ~go' /\ data_lo' = Reversed(Flash[xip_addr])
      BY <1>7, <2>3, <3>1 DEF SpiIdle, XipProgress, XipDelivers
    <3> QED BY <2>2, <3>1, <3>2 DEF XipProgress, XipDelivers
  <2>4. CASE SpiShifting
    <3>1. /\ ~irq /\ ~irq' /\ xip_state' = xip_state /\ tip' = tip /\ go' = go /\ tip
          /\ data_hi' = data_hi /\ ie' = ie /\ full' = full /\ ss' = ss
      BY <1>7, <2>1, <2>4 DEF SpiShifting, XipWait, XipProgress, xipVars
    <3> QED BY <1>7, <2>2, <3>1 DEF XipProgress, XipDelivers
  <2>5. CASE SpiLast
    <3>1. /\ xip_state' = xip_state /\ ~tip' /\ ~go' /\ irq'
          /\ data_lo' = Reversed(Flash[xip_addr])
          /\ ie' = ie /\ full' = full /\ ss' = ss
      BY <1>7, <2>1, <2>5, XipAssumption DEF SpiLast, XipWait, XipProgress, xipVars
    <3> QED BY <1>7, <2>2, <3>1 DEF XipProgress, XipDelivers
  <2> QED BY <2>3, <2>4, <2>5 DEF SpiEdge
<1>8. CASE xip_state = "R_RX0"
  <2>1. XipReadRx
    BY <1>8 DEF XipEdge, XipIdle, XipWrite, XipWait, XipReadRx, XipResp, Successor
  <2> QED BY <1>8, <2>1, ReversedTwice, FlashType
          DEF XipReadRx, XipGoto, Successor, XipProgress, XipDelivers, SpiEdge, SpiIdle,
              SpiShifting, SpiLast, Writes, wb_cyc, wb_adr, wb_we, XipReg, XipState,
              Ctrl, CTRL_XIP, AckEdge, ReadEdge
<1>9. CASE xip_state = "RESP"
  <2>1. XipResp
    BY <1>9 DEF XipEdge, XipIdle, XipWrite, XipWait, XipReadRx, XipResp, Successor
  <2> QED BY <1>9, <2>1, ReversedTwice, FlashType
          DEF XipResp, XipGoto, Successor, XipProgress, XipDelivers, SpiEdge, SpiIdle,
              SpiShifting, SpiLast, Writes, wb_cyc, wb_adr, wb_we, XipReg, XipState,
              Ctrl, CTRL_XIP, AckEdge, ReadEdge
<1> QED BY <1>0, <1>1, <1>2, <1>3, <1>4, <1>5, <1>6, <1>7, <1>8, <1>9 DEF XipState

\* The reset state satisfies the invariant.
LEMMA InitInd == ASSUME Init PROVE IndInv
<1>1. TypeOK
  <2>1. xip_addr \in Addr
    BY XipAssumption DEF Init
  <2>2. req \in Request
    BY DEF Init, Request, SpiReg
  <2> QED BY ZeroType, <2>1, <2>2 DEF Init, TypeOK, XipState
<1>2. XipInv
  BY DEF Init, XipInv, XipOwnsPort, XipProgress, XipDelivers
<1> QED BY <1>1, <1>2 DEF IndInv

(***************************************************************************)
(* For every flash and every sequence of register accesses by software     *)
(* that waits for its own transfers and uses even lengths, a read of the   *)
(* window (spi_top_apb.v) is answered with the word of the flash and a     *)
(* write with an error.                                                    *)
(***************************************************************************)
THEOREM XipSound ==
    ASSUME SoftwareWaits, EvenLengths
    PROVE  Spec => [](XipInv /\ XipReadsFlash)
<1>1. Init => IndInv
  BY InitInd
<1>2. IndInv /\ [Next]_vars => IndInv'
  <2> SUFFICES ASSUME IndInv, [Next]_vars PROVE IndInv'
    OBVIOUS
  <2>1. CASE Next
    BY <2>1, TypeNext, OwnsNext, ProgressNext DEF Next, IndInv, XipInv
  <2>2. CASE UNCHANGED vars
    <3>1. TypeOK'
      BY <2>2 DEF IndInv, TypeOK, vars, spiVars
    <3>2. XipInv'
      BY <2>2 DEF IndInv, XipInv, XipOwnsPort, XipProgress, XipDelivers, vars, spiVars
    <3> QED BY <3>1, <3>2 DEF IndInv
  <2> QED BY <2>1, <2>2
<1>3. IndInv => XipInv /\ XipReadsFlash
  BY DEF IndInv, XipInv, XipReadsFlash, FlashAnswer, XipOwnsPort, XipDelivers, TypeOK
<1> QED BY <1>1, <1>2, <1>3, PTL DEF Spec

=============================================================================

------------------------------- MODULE SocBus -------------------------------
(***************************************************************************)
(* What the core sees of the rest of ysyxSoC: one AXI4 slave with a        *)
(* memory behind it.  In ysyxSoCFull.v these are cross-bars, a fragmenter  *)
(* that queues an address, a write address and write data and splits a     *)
(* burst into single accesses, a bridge to the devices and a RAM.  The     *)
(* slave serves one read burst and one write at a time, takes any number   *)
(* of cycles before it accepts or answers, holds a response until it is    *)
(* taken, and may answer an access to an address of FaultAddr with an      *)
(* error.  Ready and response wires are chosen at a clock edge for the     *)
(* next cycle.                                                             *)
(*                                                                         *)
(* A write takes effect in the cycle its response is taken; no read can be *)
(* outstanding between the two, so no other moment could be told apart.    *)
(***************************************************************************)
EXTENDS NpcParams

CONSTANTS
    FaultAddr,    \* addresses whose accesses may be answered with an error
    ErrData       \* what the data wires may carry with an error

ASSUME SocAssumption ==
    /\ FaultAddr \subseteq Val
    /\ ErrData \subseteq Val /\ ErrData # {}

VARIABLES
    mem,                                    \* contents of the memories
    soc_arready, soc_rbusy,                 \* read: address accepted?
    soc_raddr, soc_rleft,                   \* next beat, beats after it
    soc_rvalid, soc_rdata, soc_rerr,        \* the beat on the bus
    soc_awready, soc_aw, soc_awaddr,        \* write: address accepted?
    soc_wready, soc_w, soc_wdata,           \* write: data accepted?
    soc_bvalid, soc_berr                    \* the write response

socReadVars == <<soc_arready, soc_rbusy, soc_raddr, soc_rleft,
                 soc_rvalid, soc_rdata, soc_rerr>>
socWriteVars == <<mem, soc_awready, soc_aw, soc_awaddr, soc_wready, soc_w,
                  soc_wdata, soc_bvalid, soc_berr>>

SocTypeOK ==
    /\ mem \in [Val -> Val]
    /\ soc_arready \in BOOLEAN /\ soc_rbusy \in BOOLEAN
    /\ soc_raddr \in Val /\ soc_rleft \in Word
    /\ soc_rvalid \in BOOLEAN /\ soc_rdata \in Val /\ soc_rerr \in BOOLEAN
    /\ soc_awready \in BOOLEAN /\ soc_aw \in BOOLEAN /\ soc_awaddr \in Val
    /\ soc_wready \in BOOLEAN /\ soc_w \in BOOLEAN /\ soc_wdata \in Val
    /\ soc_bvalid \in BOOLEAN /\ soc_berr \in BOOLEAN

SocInit(contents) ==
    /\ mem = contents
    /\ soc_arready \in BOOLEAN /\ soc_awready \in BOOLEAN /\ soc_wready \in BOOLEAN
    /\ soc_rbusy = FALSE /\ soc_raddr = 0 /\ soc_rleft = 0
    /\ soc_rvalid = FALSE /\ soc_rdata = 0 /\ soc_rerr = FALSE
    /\ soc_aw = FALSE /\ soc_awaddr = 0
    /\ soc_w = FALSE /\ soc_wdata = 0
    /\ soc_bvalid = FALSE /\ soc_berr = FALSE

soc_rlast == soc_rleft = 0

(***************************************************************************)
(* Read channel.                                                           *)
(***************************************************************************)

\* A beat is answered with the memory word, or with an error and any data.
SocBeat(a, err, data) ==
    \/ err = FALSE /\ data = mem[a]
    \/ err = TRUE /\ a \in FaultAddr /\ data \in ErrData

\* No burst is being served, or the last beat of one is taken.
SocReadIdle(arvalid, rready) ==
    /\ \/ ~soc_rbusy /\ ~(arvalid /\ soc_arready)
       \/ soc_rvalid /\ rready /\ soc_rlast
    /\ soc_rbusy' = FALSE
    /\ soc_rvalid' = FALSE
    /\ soc_arready' \in BOOLEAN
    /\ UNCHANGED <<soc_raddr, soc_rleft, soc_rdata, soc_rerr>>

SocReadAccept(arvalid, araddr, arlen) ==
    /\ ~soc_rbusy /\ arvalid /\ soc_arready
    /\ soc_rbusy' = TRUE
    /\ soc_arready' = FALSE
    /\ soc_raddr' = araddr
    /\ soc_rleft' = arlen
    /\ UNCHANGED <<soc_rvalid, soc_rdata, soc_rerr>>

\* The slave takes its time, or the core has not taken the beat.
SocReadWait(rready) ==
    /\ soc_rbusy /\ ~(soc_rvalid /\ rready)
    /\ UNCHANGED socReadVars

SocReadPresent ==
    /\ soc_rbusy /\ ~soc_rvalid
    /\ soc_rvalid' = TRUE
    /\ soc_rerr' \in BOOLEAN
    /\ soc_rdata' \in {mem[soc_raddr]} \cup ErrData
    /\ SocBeat(soc_raddr, soc_rerr', soc_rdata')
    /\ UNCHANGED <<soc_arready, soc_rbusy, soc_raddr, soc_rleft>>

\* The beat is taken; the next one of the burst is at the next address.
SocReadNext(rready) ==
    /\ soc_rvalid /\ rready /\ ~soc_rlast
    /\ soc_rvalid' = FALSE
    /\ soc_raddr' = soc_raddr + 1
    /\ soc_rleft' = soc_rleft - 1
    /\ UNCHANGED <<soc_arready, soc_rbusy, soc_rdata, soc_rerr>>

SocRead(arvalid, araddr, arlen, rready) ==
    \/ SocReadIdle(arvalid, rready)
    \/ SocReadAccept(arvalid, araddr, arlen)
    \/ SocReadWait(rready)
    \/ SocReadPresent
    \/ SocReadNext(rready)

(***************************************************************************)
(* Write channel: address and data are accepted independently.             *)
(***************************************************************************)
SocWriteCollect(awvalid, awaddr, wvalid, wdata, bready) ==
    /\ ~(soc_bvalid /\ bready)
    /\ soc_aw' = (soc_aw \/ (awvalid /\ soc_awready))
    /\ soc_awaddr' = IF awvalid /\ soc_awready THEN awaddr ELSE soc_awaddr
    /\ soc_w' = (soc_w \/ (wvalid /\ soc_wready))
    /\ soc_wdata' = IF wvalid /\ soc_wready THEN wdata ELSE soc_wdata
    /\ soc_awready' \in BOOLEAN /\ (soc_aw' => ~soc_awready')
    /\ soc_wready' \in BOOLEAN /\ (soc_w' => ~soc_wready')
    /\ \/ UNCHANGED <<soc_bvalid, soc_berr>>
       \/ /\ soc_aw /\ soc_w /\ ~soc_bvalid
          /\ soc_bvalid' = TRUE
          /\ soc_berr' \in BOOLEAN /\ (soc_berr' => soc_awaddr \in FaultAddr)
    /\ UNCHANGED mem

\* The response is taken: the write is performed, unless it failed.
SocWriteDone(bready) ==
    /\ soc_bvalid /\ bready
    /\ mem' = IF soc_berr THEN mem ELSE [mem EXCEPT ![soc_awaddr] = soc_wdata]
    /\ soc_bvalid' = FALSE /\ soc_aw' = FALSE /\ soc_w' = FALSE
    /\ soc_awready' \in BOOLEAN /\ soc_wready' \in BOOLEAN
    /\ UNCHANGED <<soc_awaddr, soc_wdata, soc_berr>>

SocWrite(awvalid, awaddr, wvalid, wdata, bready) ==
    \/ SocWriteCollect(awvalid, awaddr, wvalid, wdata, bready)
    \/ SocWriteDone(bready)

=============================================================================

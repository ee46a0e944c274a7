--------------------------- MODULE MCNemuMonitor ---------------------------
(***************************************************************************)
(* A small instance of the debugger: three machine states, of which one    *)
(* expression shows the lowest bit; "dev" reads a device, "bad" has no     *)
(* value.                                                                  *)
(***************************************************************************)
EXTENDS NemuMonitor

MCExprVal(e, v) == IF e = "low" THEN v % 2 ELSE 0

=============================================================================

---------------------------- MODULE NemuMonitor ----------------------------
(***************************************************************************)
(* NEMU's execution loop (cpu/cpu-exec.c) under its debugger (monitor/sdb):*)
(* the commands, the loop that executes an instruction, compares it with   *)
(* the reference (cpu/difftest/dut.c), scans the watchpoints and polls the *)
(* devices, and nemu_state, which all of them write.                       *)
(*                                                                         *)
(* The machine under test and the reference are one value each.  Right     *)
(* execution of an instruction adds one; a mistake of the machine under    *)
(* test gives any other value; an access to a device gives any value and   *)
(* makes DiffTest copy instead of compare.                                 *)
(***************************************************************************)
EXTENDS WpPool, Integers

CONSTANTS
    ValNum,             \* number of machine states
    ExprVal(_, _),      \* value of an expression in a machine state
    DeviceExpr,         \* expressions that read a device's registers
    StepCounts,         \* arguments of "si"
    CONFIG_WATCHPOINT   \* the Kconfig option

MVal == 0 .. ValNum - 1

ASSUME MonitorAssumption ==
    /\ ValNum \in Nat \ {0}
    /\ WordVal = MVal
    /\ \A e \in Expr, v \in MVal : ExprVal(e, v) \in MVal
    /\ DeviceExpr \subseteq Expr /\ DeviceExpr \cap BadExpr = {}
    /\ StepCounts \subseteq Int
    /\ CONFIG_WATCHPOINT \in BOOLEAN

VARIABLES
    ctl,          \* where the only thread is
    left,         \* n of execute(); negative: cpu_exec(-1), practically endless
    nstate,       \* nemu_state.state
    halt_ret,     \* nemu_state.halt_ret
    cpu, ref,     \* machine under test, reference machine
    is_skip_ref,  \* do not compare the next instruction
    sdl_quit,     \* the window has been closed, the event is queued
    is_batch_mode,\* run with -b: execute and exit
    \* History: what the properties have to tell apart.
    touched,      \* the instruction in flight has touched a device, or trapped
    peeked,       \* since the last check the debugger has read a device
    overruled     \* the last scan has replaced the end of the program by a stop

histVars == <<touched, peeked, overruled>>

vars == <<wp_next, wp_expr, wp_old, head, free_, aborted, ctl, left, nstate,
          halt_ret, cpu, ref, is_skip_ref, sdl_quit, is_batch_mode, histVars>>

Ended == {"END", "ABORT", "QUIT"}

TypeOK ==
    /\ PoolTypeOK
    /\ ctl \in {"prompt", "loop", "trace", "device", "exited"}
    /\ left \in Int
    /\ nstate \in {"STOP", "RUNNING"} \cup Ended
    /\ halt_ret \in {-1, 0, 1}
    /\ cpu \in MVal /\ ref \in MVal
    /\ is_skip_ref \in BOOLEAN /\ sdl_quit \in BOOLEAN /\ is_batch_mode \in BOOLEAN
    /\ touched \in BOOLEAN /\ peeked \in BOOLEAN /\ overruled \in BOOLEAN

Init ==
    /\ InitWpPool
    /\ ctl = "prompt" /\ left = 0
    /\ nstate = "STOP" /\ halt_ret = 0
    /\ cpu \in MVal /\ ref = cpu
    /\ is_skip_ref = FALSE /\ sdl_quit = FALSE /\ is_batch_mode \in BOOLEAN
    /\ touched = FALSE /\ peeked = FALSE /\ overruled = FALSE

Right(v) == (v + 1) % ValNum

\* What expr() returns now: the machine's state, 0 for an expression it
\* rejects, anything for one that reads a device.
Values == {f \in [Expr -> MVal] :
              \A e \in Expr \ DeviceExpr : f[e] = IF e \in BadExpr THEN 0 ELSE ExprVal(e, cpu)}

\* expr() of a device's register goes through find_mapid_by_addr, which calls
\* difftest_skip_ref.
ReadsDevice(exprs) == exprs \cap DeviceExpr # {}

SkipAfterEval(exprs) ==
    /\ is_skip_ref' = (is_skip_ref \/ ReadsDevice(exprs))
    /\ peeked' = (peeked \/ ReadsDevice(exprs))
    /\ UNCHANGED <<touched, overruled>>

AtPrompt == ctl = "prompt" /\ ~is_batch_mode /\ ~aborted

\* sdb_mainloop drops every queued SDL event before it runs a command.
Dispatch == AtPrompt /\ sdl_quit' = FALSE

(***************************************************************************)
(* The commands.                                                           *)
(***************************************************************************)
CpuExec(n) ==
    \/ /\ nstate \in Ended
       /\ UNCHANGED <<ctl, left, nstate>>
    \/ /\ nstate \notin Ended
       /\ nstate' = "RUNNING"
       /\ left' = n
       /\ ctl' = "loop"

CmdC == /\ Dispatch /\ CpuExec(-1)
        /\ UNCHANGED <<poolVars, halt_ret, cpu, ref, is_skip_ref, histVars>>

CmdSi(n) == /\ Dispatch /\ CpuExec(n)
            /\ UNCHANGED <<poolVars, halt_ret, cpu, ref, is_skip_ref, histVars>>

CmdQ == /\ Dispatch
        /\ nstate' = "QUIT"
        /\ ctl' = "exited"
        /\ UNCHANGED <<poolVars, left, halt_ret, cpu, ref, is_skip_ref, histVars>>

\* End of input: readline returns NULL and the main loop ends.
EndOfInput == /\ AtPrompt
              /\ ctl' = "exited"
              /\ UNCHANGED <<poolVars, left, nstate, halt_ret, cpu, ref,
                             is_skip_ref, sdl_quit, histVars>>

CmdW(e) == /\ Dispatch
           /\ \E vals \in Values :
                 \/ AddWatchpointFull /\ UNCHANGED <<is_skip_ref, histVars>>
                 \/ AddWatchpoint(e, vals[e]) /\ SkipAfterEval({e})
                 \/ AddWatchpointFails(e) /\ UNCHANGED <<is_skip_ref, histVars>>
           /\ UNCHANGED <<ctl, left, nstate, halt_ret, cpu, ref>>

CmdD(no) == /\ Dispatch
            /\ DeleteWatchpoint(no)
            /\ UNCHANGED <<ctl, left, nstate, halt_ret, cpu, ref, is_skip_ref, histVars>>

\* "p EXPR" and "x N ADDR" only look, but looking at a device sets the flag.
CmdP(e) == /\ Dispatch
           /\ SkipAfterEval({e})
           /\ UNCHANGED <<poolVars, ctl, left, nstate, halt_ret, cpu, ref>>

Batch == /\ is_batch_mode /\ ctl = "prompt" /\ nstate = "STOP"
         /\ CpuExec(-1)
         /\ UNCHANGED <<poolVars, halt_ret, cpu, ref, is_skip_ref, sdl_quit, histVars>>

(***************************************************************************)
(* execute(): one instruction, then trace_and_difftest, then the devices.  *)
(***************************************************************************)
InLoop == ctl = "loop" /\ left # 0

\* exec_once of an instruction that touches no device.
ExecPlain ==
    /\ InLoop
    /\ ctl' = "trace"
    /\ cpu' \in MVal
    /\ touched' = FALSE
    /\ UNCHANGED <<poolVars, left, nstate, halt_ret, ref, is_skip_ref, sdl_quit, peeked, overruled>>

ExecDevice ==
    /\ InLoop
    /\ ctl' = "trace"
    /\ cpu' \in MVal
    /\ is_skip_ref' = TRUE /\ touched' = TRUE
    /\ UNCHANGED <<poolVars, left, nstate, halt_ret, ref, sdl_quit, peeked, overruled>>

\* ebreak (NEMUTRAP with the code in a0) and an instruction nobody knows.
ExecTrap(state, code) ==
    /\ InLoop
    /\ ctl' = "trace"
    /\ nstate' = state
    /\ halt_ret' = code
    /\ cpu' = Right(cpu)
    /\ is_skip_ref' = TRUE /\ touched' = TRUE
    /\ UNCHANGED <<poolVars, left, ref, sdl_quit, peeked, overruled>>

ExecOnce == \/ ExecPlain \/ ExecDevice
            \/ \E code \in {0, 1} : ExecTrap("END", code)
            \/ ExecTrap("ABORT", -1)

\* Mutation: nothing is copied.
RefAfterNoCopy == IF is_skip_ref THEN ref ELSE Right(ref)

\* difftest_step: after an instruction that asked for it the registers are
\* copied, otherwise the reference executes one and the results are compared.
RefAfter == IF is_skip_ref THEN cpu ELSE Right(ref)

Verdict == IF is_skip_ref \/ Right(ref) = cpu THEN nstate ELSE "ABORT"

\* Mutation: difftest_step leaves the flag on.
SkipAfterStepKeeps(exprs) == is_skip_ref \/ ReadsDevice(exprs)

\* difftest_step uses the flag up; a scan of the watchpoints exprs after it
\* may set it again, for the next instruction.
SkipAfterStep(exprs) == ReadsDevice(exprs)

\* check_watchpoints has the last word on the state.
TraceWatch ==
    \E vals \in Values : LET exprs == {wp_expr[wp] : wp \in Nodes(head)} IN
        /\ nstate' = IF Changed(vals) # {} THEN "STOP" ELSE Verdict
        /\ is_skip_ref' = SkipAfterStep(exprs)
        /\ peeked' = ReadsDevice(exprs)
        /\ overruled' = (Changed(vals) # {} /\ Verdict \in Ended)
        /\ CheckWatchpoints(vals)

TraceOnly ==
    /\ nstate' = Verdict
    /\ is_skip_ref' = SkipAfterStep({})
    /\ peeked' = FALSE /\ overruled' = FALSE
    /\ UNCHANGED poolVars

\* trace_and_difftest, and the loop's test: on to the devices, or back.
Trace ==
    /\ ctl = "trace"
    /\ ref' = RefAfter
    /\ IF CONFIG_WATCHPOINT THEN TraceWatch ELSE TraceOnly
    /\ ctl' = IF nstate' = "RUNNING" THEN "device" ELSE "prompt"
    /\ touched' = FALSE
    /\ UNCHANGED <<left, halt_ret, cpu, sdl_quit>>

\* device_update: too early since the last one, or all events are handled.
\* Mutation: the event is taken and forgotten.
PollEventsDropsQuit == sdl_quit' = FALSE /\ UNCHANGED nstate

PollEvents ==
    /\ nstate' = IF sdl_quit THEN "QUIT" ELSE nstate
    /\ sdl_quit' = FALSE

DeviceUpdate ==
    /\ ctl = "device"
    /\ UNCHANGED <<nstate, sdl_quit>> \/ PollEvents
    /\ left' = IF left < 0 THEN left ELSE left - 1
    /\ ctl' = "loop"
    /\ UNCHANGED <<poolVars, halt_ret, cpu, ref, is_skip_ref, histVars>>

\* Mutation: cpu_exec stops the machine in whatever state it comes back.
LoopEndStops ==
    /\ ctl = "loop" /\ left = 0
    /\ nstate' = "STOP"
    /\ ctl' = "prompt"
    /\ UNCHANGED <<poolVars, left, halt_ret, cpu, ref, is_skip_ref, sdl_quit, histVars>>

LoopEnd ==
    /\ ctl = "loop" /\ left = 0
    /\ nstate' = IF nstate = "RUNNING" THEN "STOP" ELSE nstate
    /\ ctl' = "prompt"
    /\ UNCHANGED <<poolVars, left, halt_ret, cpu, ref, is_skip_ref, sdl_quit, histVars>>

BatchEnd ==
    /\ is_batch_mode /\ ctl = "prompt" /\ nstate # "STOP"
    /\ ctl' = "exited"
    /\ UNCHANGED <<poolVars, left, nstate, halt_ret, cpu, ref, is_skip_ref, sdl_quit, histVars>>

\* The user closes the window.
CloseWindow ==
    /\ ctl # "exited" /\ ~aborted
    /\ sdl_quit' = TRUE
    /\ UNCHANGED <<poolVars, ctl, left, nstate, halt_ret, cpu, ref, is_skip_ref, histVars>>

Gone == (ctl = "exited" \/ aborted) /\ UNCHANGED vars

Command == \/ CmdC \/ CmdQ \/ EndOfInput
           \/ \E n \in StepCounts : CmdSi(n)
           \/ \E e \in Expr : CmdW(e) \/ CmdP(e)
           \/ \E no \in WP : CmdD(no)

Loop == (ExecOnce \/ Trace \/ DeviceUpdate \/ LoopEnd) /\ UNCHANGED is_batch_mode

Next == \/ (Command \/ Batch \/ BatchEnd \/ CloseWindow) /\ UNCHANGED is_batch_mode
        \/ Loop \/ Gone

Spec == Init /\ [][Next]_vars

(***************************************************************************)
(* The loop is a loop of one thread: it does not stop by itself.  Time     *)
(* passes, so the rate limit of device_update lets it poll now and then.   *)
(***************************************************************************)
FairSpec == Spec /\ WF_vars(Loop) /\ SF_vars(DeviceUpdate /\ PollEvents /\ UNCHANGED is_batch_mode)

-----------------------------------------------------------------------------

Settled == ctl \in {"prompt", "loop", "device"}

(***************************************************************************)
(* Between two instructions every watchpoint remembers the present value   *)
(* of its expression: no change goes unreported, however many watchpoints  *)
(* change at once and whenever they were added.                            *)
(***************************************************************************)
WatchpointsCurrent ==
    CONFIG_WATCHPOINT /\ Settled =>
        \A wp \in Nodes(head) :
            wp_expr[wp] \notin DeviceExpr => wp_old[wp] = ExprVal(wp_expr[wp], cpu)

(***************************************************************************)
(* cpu_exec: "Program execution has ended. To restart the program, exit    *)
(* NEMU and run again."  What is claimed there: a program that has ended,  *)
(* by a trap, a DiffTest mismatch or the user, is never continued.         *)
(***************************************************************************)
EndIsFinal == [][(nstate \in Ended) => (nstate' \in Ended)]_vars

(***************************************************************************)
(* What the code keeps of it: the end of a program is lost only when a     *)
(* watchpoint changes at the very instruction that ends it, or that the    *)
(* window is closed at, because trace_and_difftest writes STOP over the    *)
(* end.  Every other way of going on, and every order of commands, leaves  *)
(* an ended program ended.                                                 *)
(***************************************************************************)
EndKept ==
    [][(nstate \in Ended) => (nstate' \in Ended \/ (ctl = "trace" /\ overruled'))]_vars

(***************************************************************************)
(* DiffTest turned on (CONFIG_DIFFTEST), with watchpoints and a debugger   *)
(* that reads devices or without.  An instruction that leaves the machine  *)
(* in another state than it should aborts the run, unless the instruction  *)
(* itself touches a device, the debugger has read one since the check      *)
(* before, or a watchpoint changes at the mismatch and hides it: a request *)
(* to skip never reaches further than the next instruction.  And between   *)
(* two instructions the reference is in the state of the machine, unless   *)
(* the run is aborted or such a mismatch has been hidden.                  *)
(***************************************************************************)
MismatchAborts ==
    [][ctl = "trace" /\ ctl' # "trace" /\ cpu # Right(ref)
          => nstate' = "ABORT" \/ overruled' \/ touched \/ peeked]_vars

RefInStep == Settled /\ nstate # "ABORT" /\ ~overruled => ref = cpu

DiffTestFaithful == MismatchAborts /\ []RefInStep

(***************************************************************************)
(* "si n" comes back to the prompt, and closing the window ends a program  *)
(* that would run for ever.                                                *)
(***************************************************************************)
StepReturns == (ctl = "loop" /\ left >= 0) ~> (ctl \in {"prompt", "exited"} \/ aborted)
WindowCloses == sdl_quit ~> (ctl \in {"prompt", "exited"} \/ aborted)
MonitorReturns == StepReturns /\ WindowCloses

=============================================================================

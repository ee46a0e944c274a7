------------------------------- MODULE AmCte --------------------------------
(***************************************************************************)
(* Traps and context switching of the Abstract Machine on riscv: trap.S    *)
(* and cte.c of am/src/riscv/npc, and of am/src/riscv/nemu, which differ   *)
(* in the size of the frame (FrameWords).  Memory is words; of the         *)
(* registers the model keeps x1 (a data register, also the first argument),*)
(* x2 = sp and x3, which carries the number of a system call.  A kernel    *)
(* thread computes, uses its stack and traps; the event handler, which the *)
(* program supplies, returns any thread's context.                         *)
(***************************************************************************)
EXTENDS Integers

CONSTANTS
    Threads,      \* 1..n, the kernel threads
    StackWords,   \* the words of a kernel stack
    FrameWords,   \* CONTEXT_SIZE of trap.S
    MaxValue,     \* bound on what a thread adds to its data
    MaxTraps      \* bound on the system calls of a thread

VARIABLES
    gpr, pc,      \* the registers and the program counter
    mem,          \* the stacks
    csr,          \* mcause, mepc, mtvec
    mode,         \* "boot", "thread", or the place in __am_asm_trap
    cur,          \* the thread that runs
    pcb,          \* the contexts the handler keeps
    ev,           \* the event of the trap
    left          \* what each thread had when it trapped

cteVars == <<gpr, pc, mem, csr, mode, cur, pcb, ev, left>>

NR_REGS == 4
ContextWords == NR_REGS + 4      \* sizeof(Context): the registers, mcause, mstatus, mepc, pdir
OffCause == NR_REGS
OffStatus == NR_REGS + 1
OffEpc == NR_REGS + 2
MPP == 6144                      \* 0x1800
Junk == -7                       \* what the C code leaves in a register

Top(t) == t * StackWords         \* kstack.end: the stacks lie one after the other
Stack(t) == Top(t) - StackWords..Top(t) - 1
Entry(t) == 100 * t
Arg(t) == 10 * t

\* CONTEXT_SIZE counts pdir or leaves it out; a stack holds a context.
ASSUME CteAssumption ==
    /\ Threads \in Nat \ {0}
    /\ FrameWords \in {ContextWords - 1, ContextWords}
    /\ StackWords \in Nat /\ StackWords >= ContextWords
    /\ MaxValue \in Nat /\ MaxTraps \in Nat

\* A new thread's context, at the end of its stack.
kcontext(m, t) ==
    LET c == Top(t) - ContextWords
        Word(k) == CASE k = 1 -> Arg(t)
                     [] k = OffStatus -> MPP
                     [] k = OffEpc -> Entry(t)
                     [] OTHER -> 0
    IN [a \in DOMAIN m |-> IF a \in c..c + ContextWords - 1 THEN Word(a - c) ELSE m[a]]

cteInit ==
    /\ gpr = [r \in 1..NR_REGS - 1 |-> 0]
    /\ pc = 0
    /\ mem = [a \in 0..Top(Threads) - 1 |-> Junk]
    /\ csr = [mtvec |-> "unset", mcause |-> 0, mepc |-> 0]
    /\ mode = "boot"
    /\ cur = 0
    /\ pcb = [t \in 1..Threads |-> 0]
    /\ ev = "none"
    /\ left = [t \in 1..Threads |-> [x1 |-> Arg(t), pc |-> Entry(t), stack |-> <<>>, sp |-> Top(t) - ContextWords + FrameWords]]

\* The program registers its handler and makes its threads, then runs the
\* first of them: main yields, and main's own context is never returned to.
cte_init ==
    /\ mode = "boot"
    /\ csr' = [csr EXCEPT !.mtvec = "__am_asm_trap"]
    /\ mem' = LET Made[t \in 0..Threads] == IF t = 0 THEN mem ELSE kcontext(Made[t - 1], t) IN Made[Threads]
    /\ pcb' = [t \in 1..Threads |-> Top(t) - ContextWords]
    /\ \E t \in 1..Threads : cur' = t /\ gpr' = [gpr EXCEPT ![2] = Top(t) - ContextWords]
    /\ mode' = "return"
    /\ UNCHANGED <<pc, ev, left>>

(***************************************************************************)
(* A thread.                                                               *)
(***************************************************************************)
Compute ==
    /\ mode = "thread"
    /\ gpr[1] < Arg(cur) + MaxValue
    /\ gpr' = [gpr EXCEPT ![1] = @ + 1]
    /\ pc' = pc
    /\ UNCHANGED <<mem, csr, mode, cur, pcb, ev, left>>

UseStack ==
    /\ mode = "thread"
    /\ gpr[2] - 1 - FrameWords \in Stack(cur)
    /\ mem' = [mem EXCEPT ![gpr[2] - 1] = gpr[1]]
    /\ gpr' = [gpr EXCEPT ![2] = @ - 1]
    /\ UNCHANGED <<pc, csr, mode, cur, pcb, ev, left>>

\* What the stack of the thread holds above sp.
Held(t, sp, m) == [a \in {b \in Stack(t) : b >= sp} |-> m[a]]

\* isa_raise_intr: the processor takes a trap; yield puts -1 into the register
\* first.
Trap(cause, number) ==
    /\ mode = "thread"
    /\ pc < Entry(cur) + 4 * MaxTraps
    /\ gpr' = [gpr EXCEPT ![3] = number]
    /\ csr' = [csr EXCEPT !.mcause = cause, !.mepc = pc]
    /\ left' = [left EXCEPT ![cur] = [x1 |-> gpr[1], pc |-> IF cause = 11 THEN pc + 4 ELSE pc,
                                      stack |-> Held(cur, gpr[2], mem), sp |-> gpr[2]]]
    /\ mode' = csr.mtvec
    /\ UNCHANGED <<pc, mem, cur, pcb, ev>>

yield == Trap(11, -1)
Syscall == Trap(11, 1)
Exception == Trap(2, 0)

(***************************************************************************)
(* __am_asm_trap: the frame, the call of __am_irq_handle, the return.      *)
(***************************************************************************)
TrapEntry ==
    /\ mode = "__am_asm_trap"
    /\ LET sp == gpr[2] - FrameWords
           Saved(k) == CASE k \in {1, 3} -> gpr[k]
                         [] k = OffCause -> csr.mcause
                         [] k = OffStatus -> MPP
                         [] k = OffEpc -> csr.mepc
       IN /\ mem' = [a \in DOMAIN mem |-> IF a - sp \in {1, 3, OffCause, OffStatus, OffEpc} THEN Saved(a - sp) ELSE mem[a]]
          /\ gpr' = [gpr EXCEPT ![2] = sp]
    /\ mode' = "__am_irq_handle"
    /\ UNCHANGED <<pc, csr, cur, pcb, ev, left>>

Event(c, m) == IF m[c + OffCause] # 11 THEN "error" ELSE IF m[c + 3] = -1 THEN "yield" ELSE "syscall"

\* Mutation: the pc of an ecall is not moved past it.
__am_irq_handleStays ==
    /\ mode = "__am_irq_handle"
    /\ LET c == gpr[2] IN
       /\ ev' = Event(c, mem)
       /\ mem' = mem
       /\ pcb' = [pcb EXCEPT ![cur] = c]
       /\ \E t \in 1..Threads : cur' = t /\ gpr' = [r \in DOMAIN gpr |-> IF r = 2 THEN pcb'[t] ELSE Junk]
    /\ mode' = "return"
    /\ UNCHANGED <<pc, csr, left>>

\* The handler keeps the context it is given and returns any one it has.  A
\* program that calls cte_init gives it a handler, and one that returns NULL
\* ends at the assertion: neither `if (user_handler)` nor that end is modelled.
__am_irq_handle ==
    /\ mode = "__am_irq_handle"
    /\ LET c == gpr[2] IN
       /\ ev' = Event(c, mem)
       /\ mem' = IF mem[c + OffCause] = 11 THEN [mem EXCEPT ![c + OffEpc] = @ + 4] ELSE mem
       /\ pcb' = [pcb EXCEPT ![cur] = c]
       /\ \E t \in 1..Threads : cur' = t /\ gpr' = [r \in DOMAIN gpr |-> IF r = 2 THEN pcb'[t] ELSE Junk]
    /\ mode' = "return"
    /\ UNCHANGED <<pc, csr, left>>

TrapReturn ==
    /\ mode = "return"
    /\ LET sp == gpr[2] IN
       /\ gpr' = [r \in DOMAIN gpr |-> IF r = 2 THEN sp + FrameWords ELSE mem[sp + r]]
       /\ csr' = [csr EXCEPT !.mepc = mem[sp + OffEpc]]
       /\ pc' = mem[sp + OffEpc]
    /\ mode' = "thread"
    /\ UNCHANGED <<mem, cur, pcb, ev, left>>

cteNext ==
    \/ cte_init
    \/ Compute
    \/ UseStack
    \/ yield
    \/ Syscall
    \/ Exception
    \/ TrapEntry
    \/ __am_irq_handle
    \/ TrapReturn

cteSpec == cteInit /\ [][cteNext]_cteVars

\* The thread of a returning trap goes on with the register and the stack it
\* had when it trapped and, after an ecall, the next instruction; a new one
\* starts at its entry with its argument.
Resumed ==
    mode = "return" =>
        LET sp == pcb[cur] IN
        /\ mem[sp + 1] = left[cur].x1
        /\ mem[sp + OffEpc] = left[cur].pc
        /\ sp + FrameWords = left[cur].sp
        /\ \A a \in DOMAIN left[cur].stack : mem[a] = left[cur].stack[a]
InOwnStack == mode = "thread" => gpr[2] \in Top(cur) - StackWords + FrameWords..Top(cur)

\* A thread goes on as it was when it trapped, whatever threads ran in
\* between and however often, and no thread's stack leaves its area.
ThreadsResume == Resumed /\ InOwnStack

(***************************************************************************)
(* Why it holds: the memory of each thread that does not run is as the     *)
(* trap left it, and so, at every place in __am_asm_trap, is that of the   *)
(* thread the trap comes from.                                             *)
(***************************************************************************)
Room(t) == Top(t) - StackWords + FrameWords..Top(t)

\* The stack pointer of t and what its stack held when it trapped.
StackKept(t) ==
    /\ left[t].sp \in Room(t)
    /\ DOMAIN left[t].stack \subseteq {b \in Stack(t) : b >= left[t].sp}
    /\ \A a \in DOMAIN left[t].stack : mem[a] = left[t].stack[a]

\* The frame at c holds what t is to go on with; epc is as if moved by moved.
FrameKept(t, c, moved) ==
    /\ c + FrameWords = left[t].sp
    /\ mem[c + 1] = left[t].x1
    /\ mem[c + OffEpc] + moved = left[t].pc

Moved(cause) == IF cause = 11 THEN 4 ELSE 0

cteTypeOK ==
    /\ gpr \in [1..NR_REGS - 1 -> Int]
    /\ pc \in Int
    /\ mem \in [0..Top(Threads) - 1 -> Int]
    /\ csr \in [mtvec : {"unset", "__am_asm_trap"}, mcause : Int, mepc : Int]
    /\ mode \in {"boot", "thread", "__am_asm_trap", "__am_irq_handle", "return"}
    /\ mode # "boot" => cur \in 1..Threads /\ csr.mtvec = "__am_asm_trap"
    /\ pcb \in [1..Threads -> Int]
    /\ DOMAIN left = 1..Threads
    /\ \A t \in 1..Threads : left[t].x1 \in Int /\ left[t].pc \in Int

CteInv ==
    /\ mode = "boot" => \A t \in 1..Threads :
           /\ left[t].x1 = Arg(t) /\ left[t].pc = Entry(t) /\ left[t].stack = <<>>
           /\ left[t].sp = Top(t) - ContextWords + FrameWords
    /\ mode # "boot" => \A t \in (1..Threads) \ (IF mode = "return" THEN {} ELSE {cur}) :
           StackKept(t) /\ FrameKept(t, pcb[t], 0)
    /\ mode = "return" => gpr[2] = pcb[cur]
    /\ mode = "thread" => gpr[2] \in Room(cur)
    /\ mode = "__am_asm_trap" =>
           /\ StackKept(cur)
           /\ left[cur].sp = gpr[2] /\ left[cur].x1 = gpr[1]
           /\ left[cur].pc = csr.mepc + Moved(csr.mcause)
    /\ mode = "__am_irq_handle" =>
           StackKept(cur) /\ FrameKept(cur, gpr[2], Moved(mem[gpr[2] + OffCause]))
=============================================================================

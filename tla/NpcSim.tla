------------------------------- MODULE NpcSim -------------------------------
(***************************************************************************)
(* The simulator around the NPC core (npc/csrc/main.cpp, compiled with     *)
(* ENABLE_DIFFTEST 1): the images it loads, DiffTest against NEMU, the     *)
(* debugger, and the line that carries stdin to the UART.  The core is     *)
(* what the simulator sees of it: an instruction commits, with or without  *)
(* the flag that it is not to be compared.  Memory is words; a register x  *)
(* stands for all of them, and an address is <<area, word>>.               *)
(***************************************************************************)
EXTENDS Integers, Sequences, SequencesExt

CONSTANTS
    Images,            \* what may be loaded: sequences of instructions
    MROM_SIZE, FLASH_SIZE, SRAM_SIZE,
    PatternWords,      \* words of the flash that init_flash fills
    Commands,          \* commands of the debugger
    MaxCommands,
    UART_BIT_TICKS,    \* cycles of a bit
    Chars, MaxChars    \* what is typed, and how much of it

\* Code of a program, which ends in a jump to itself or in ebreak.
Inst == {<<"add">>, <<"lw">>, <<"sw">>, <<"dev">>, <<"j">>, <<"ebreak">>}
Stops == {<<"j">>, <<"ebreak">>}

ASSUME SimAssumption ==
    /\ Images \subseteq Seq(Inst)
    /\ \A image \in Images : image # <<>> => \E k \in DOMAIN image : image[k] \in Stops
    /\ MROM_SIZE \in Nat \ {0} /\ FLASH_SIZE \in Nat \ {0} /\ SRAM_SIZE \in Nat \ {0}
    /\ PatternWords \in Nat /\ MaxCommands \in Nat /\ MaxChars \in Nat
    /\ UART_BIT_TICKS \in Nat \ {0}
    /\ Chars \subseteq 0..255
    /\ \A c \in Commands : c[1] \in {"c", "si", "x", "info", "q", "eof"} /\ (c[1] = "si" => c[2] \in Nat)

VARIABLES
    sim,      \* the arrays, the core and the reference, the debugger
    uart      \* stdin, the line, and the receiver

simVars == <<sim, uart>>

(***************************************************************************)
(* Images.                                                                 *)
(***************************************************************************)
Words(n) == 0..n - 1
flash_pattern(k) == <<"pattern", k>>
init_flash == [k \in Words(FLASH_SIZE) |-> IF k < PatternWords THEN flash_pattern(k) ELSE <<"erased", k>>]
BuiltIn == <<<<"j">>>>

simInit ==
    [pc |-> "main", flash_boot |-> FALSE, img |-> 0, diff |-> FALSE, batch |-> FALSE,
     mrom |-> [k \in Words(MROM_SIZE) |-> <<"zero", k>>], flash |-> init_flash, sram |-> [k \in Words(SRAM_SIZE) |-> 0],
     dut |-> [pc |-> <<"none", 0>>, x |-> 0, sram |-> [k \in Words(SRAM_SIZE) |-> 0]],
     ref |-> [on |-> FALSE, pc |-> <<"none", 0>>, x |-> 0, mrom |-> <<>>, flash |-> <<>>, sram |-> <<>>],
     is_skip_ref |-> FALSE, n |-> 0, cmds |-> 0, finish |-> FALSE, mistake |-> "none", scanned |-> FALSE]

Burn(array, image) == [k \in DOMAIN array |-> IF k < Len(image) THEN image[k + 1] ELSE array[k]]

\* Without a file the built-in program is loaded; a file too large, and an
\* empty one, which fread does not read, fail an assertion.
load_img(image, has_file, flash_boot, diff, batch) ==
    LET used == IF has_file THEN image ELSE BuiltIn
        capacity == IF flash_boot THEN FLASH_SIZE ELSE MROM_SIZE
    IN /\ sim.pc = "main"
       /\ sim' = IF has_file /\ Len(image) \notin 1..capacity THEN [sim EXCEPT !.pc = "abort"]
                 ELSE [sim EXCEPT !.pc = "reset", !.flash_boot = flash_boot, !.diff = diff, !.batch = batch, !.img = Len(used),
                                  !.flash = IF flash_boot THEN Burn(@, used) ELSE @,
                                  !.mrom = IF flash_boot THEN @ ELSE Burn(@, used)]
       /\ UNCHANGED uart

npc_reset_pc == IF sim.flash_boot THEN <<"flash", 0>> ELSE <<"mrom", 0>>

\* stdin is not passed on during a reset.
reset ==
    /\ sim.pc = "reset"
    /\ sim' = [sim EXCEPT !.pc = "init_difftest", !.dut.pc = npc_reset_pc]
    /\ uart' = [uart EXCEPT !.enabled = uart.requested]

Copied(array, n) == [k \in DOMAIN array |-> IF k < n THEN array[k] ELSE <<"zero", k>>]

init_difftest ==
    /\ sim.pc = "init_difftest"
    /\ sim' = [sim EXCEPT !.pc = IF sim.batch THEN "exec" ELSE "sdb", !.n = IF sim.batch THEN -1 ELSE 0,
                          !.ref = IF ~sim.diff THEN @
                                  ELSE [on |-> TRUE, pc |-> sim.dut.pc, x |-> sim.dut.x, mrom |-> sim.mrom, sram |-> [k \in DOMAIN sim.sram |-> 0],
                                        flash |-> Copied(sim.flash, IF sim.flash_boot THEN sim.img ELSE 0)]]
    /\ UNCHANGED uart

(***************************************************************************)
(* Instructions: "add", loads and stores of the SRAM, a load from a        *)
(* device, which the core marks, a jump to itself, ebreak.                 *)
(***************************************************************************)
Area(s, a) == IF a = "flash" THEN s.flash ELSE s.mrom
Fetch(s, pc) == IF pc[2] \in DOMAIN Area(s, pc[1]) THEN Area(s, pc[1])[pc[2]] ELSE <<"zero", 0>>
Executed(m, inst, in) ==
    [m EXCEPT !.pc = IF inst = <<"j">> THEN @ ELSE <<@[1], @[2] + 1>>,
              !.x = CASE inst = <<"add">> -> (@ + 1) % 3
                      [] inst = <<"lw">> -> m.sram[0]
                      [] inst = <<"dev">> -> in
                      [] OTHER -> @,
              !.sram = IF inst = <<"sw">> THEN [@ EXCEPT ![0] = m.x] ELSE @]
npc_check_skip(inst) == inst = <<"dev">>

\* The core executes one instruction, once perhaps with a wrong result.
Core(inst, in, wrong) ==
    LET m == Executed(sim.dut, inst, in) IN IF wrong THEN [m EXCEPT !.x = (@ + 1) % 3] ELSE m

(***************************************************************************)
(* DiffTest.                                                               *)
(***************************************************************************)
checkregs(dut, ref) == dut.pc = ref.pc /\ dut.x = ref.x

\* Mutation: the reference stays at the skipped instruction.
SyncForgets(s) == [s EXCEPT !.ref.x = s.dut.x, !.is_skip_ref = FALSE]

\* A skipped instruction copies the registers of the core to the reference.
Sync(s) == [s EXCEPT !.ref.pc = s.dut.pc, !.ref.x = s.dut.x, !.is_skip_ref = FALSE]

Compare(s) ==
    LET r == Executed(s.ref, Fetch(s.ref, s.ref.pc), 0)
    IN [s EXCEPT !.ref = r, !.pc = IF checkregs(s.dut, r) THEN @ ELSE "failed"]

\* cpu_exec: a commit.  n counts down, and -1 has no end in practice.
Commit(in, wrong) ==
    LET inst == Fetch(sim, sim.dut.pc)
        s == [sim EXCEPT !.dut = Core(inst, in, wrong), !.finish = (inst = <<"ebreak">>), !.n = IF @ > 0 THEN @ - 1 ELSE @,
                         !.mistake = IF wrong THEN (IF npc_check_skip(inst) THEN "skipped" ELSE "compared") ELSE @]
    IN /\ sim.pc = "exec" /\ sim.n # 0 /\ ~sim.finish
       /\ wrong => sim.mistake = "none"
       /\ sim' = IF ~s.ref.on THEN s ELSE IF npc_check_skip(inst) \/ s.is_skip_ref THEN Sync(s) ELSE Compare(s)
       /\ UNCHANGED uart

ExecDone ==
    /\ sim.pc = "exec" /\ (sim.n = 0 \/ sim.finish)
    /\ sim' = [sim EXCEPT !.pc = IF sim.batch THEN "end" ELSE "after"]
    /\ UNCHANGED uart

(***************************************************************************)
(* The debugger.                                                           *)
(***************************************************************************)
\* pmem_read knows the simulator's own array of SRAM; any other address
\* makes DiffTest skip an instruction, and one of them is as good as many.
Skips(s) == [s EXCEPT !.is_skip_ref = TRUE, !.scanned = @ \/ s.ref.on]
pmem_read(s, a) == IF a[1] = "sram" /\ a[2] \in DOMAIN s.sram THEN s ELSE Skips(s)
scan_memory(s, n, a) ==
    LET InMrom(b) == b[1] = "mrom" /\ b[2] \in DOMAIN s.mrom
        other == {b \in {<<a[1], a[2] + k>> : k \in 0..n - 1} : ~InMrom(b)}
    IN IF \A b \in other : pmem_read(s, b) = s THEN s ELSE Skips(s)

\* A command: <<"c">>, <<"si", n>>, <<"x", n, address>>, <<"info">>, <<"q">>
\* or <<"eof">>.
sdb_mainloop(c) ==
    /\ sim.pc = "sdb" /\ sim.cmds < MaxCommands
    /\ sim' = LET s == [sim EXCEPT !.cmds = @ + 1] IN
              CASE c[1] = "c" -> [s EXCEPT !.pc = "exec", !.n = -1]
                [] c[1] = "si" -> [s EXCEPT !.pc = "exec", !.n = c[2]]
                [] c[1] = "x" -> [scan_memory(s, c[2], c[3]) EXCEPT !.pc = "after"]
                [] c[1] = "info" -> [s EXCEPT !.pc = "after"]
                [] c[1] \in {"q", "eof"} -> [s EXCEPT !.pc = "end"]
    /\ UNCHANGED uart

AfterCommand ==
    /\ sim.pc = "after"
    /\ sim' = [sim EXCEPT !.pc = IF sim.finish THEN "end" ELSE "sdb"]
    /\ UNCHANGED uart

simNext ==
    \/ \E i \in Images, f, b, d, m \in BOOLEAN : load_img(i, f, b, d, m)
    \/ reset
    \/ init_difftest
    \/ \E in \in 0..1, wrong \in BOOLEAN : Commit(in, wrong)
    \/ ExecDone
    \/ \E c \in Commands : sdb_mainloop(c)
    \/ AfterCommand

\* Unless the debugger has read outside the memories: DiffTest stops the
\* simulation if, and as soon as, the core has computed a register wrongly
\* in an instruction that is compared, in whichever medium the program is
\* and however the run is cut into commands.
DiffTestExact ==
    sim.ref.on /\ ~sim.scanned =>
        /\ sim.pc = "failed" <=> sim.mistake = "compared"
        /\ sim.pc # "failed" => checkregs(sim.dut, sim.ref) /\ sim.dut.sram = sim.ref.sram /\ ~sim.is_skip_ref

\* What is in a word of memory, the core and the reference, which is off at
\* first, and the states of the simulator.
Cell == Inst \cup ({"zero", "pattern", "erased"} \X Nat)
Mrom == [Words(MROM_SIZE) -> Cell]
FlashArray == [Words(FLASH_SIZE) -> Cell]
Sram == [Words(SRAM_SIZE) -> 0..2]
Address == {"none", "mrom", "flash"} \X Nat
Machine == [pc : Address, x : 0..2, sram : Sram]
Reference == [on : {TRUE}, pc : Address, x : 0..2, mrom : Mrom, flash : FlashArray, sram : Sram]
Stage == {"main", "abort", "reset", "init_difftest", "sdb", "exec", "after", "failed", "end"}
Mistake == {"none", "skipped", "compared"}
simTypeOK ==
    sim \in [pc : Stage, flash_boot : BOOLEAN, img : Nat, diff : BOOLEAN, batch : BOOLEAN, mrom : Mrom, flash : FlashArray,
            sram : [Words(SRAM_SIZE) -> {0}], dut : Machine, ref : {simInit.ref} \cup Reference, is_skip_ref : BOOLEAN,
            n : Int, cmds : Nat, finish : BOOLEAN, mistake : Mistake, scanned : BOOLEAN]

\* The program: the first instruction that stops is in the image, and the
\* core is not past it.
Code == IF sim.flash_boot THEN sim.flash ELSE sim.mrom
Loaded ==
    /\ sim.img <= IF sim.flash_boot THEN FLASH_SIZE ELSE MROM_SIZE
    /\ \E k \in 0..sim.img - 1 : Code[k] \in Stops
InProgram ==
    /\ sim.dut.pc[1] = IF sim.flash_boot THEN "flash" ELSE "mrom"
    /\ ~sim.finish => \A k \in 0..sim.dut.pc[2] - 1 : Code[k] \notin Stops

\* The inductive invariant: moreover the reference has the program, and no
\* mistake precedes the copy to it.
SimInv ==
    /\ sim.pc \notin {"main", "abort"} => Loaded
    /\ sim.pc \in {"main", "abort", "reset", "init_difftest"} =>
           /\ ~sim.ref.on /\ sim.mistake = "none" /\ ~sim.is_skip_ref /\ ~sim.scanned /\ ~sim.finish
           /\ sim.dut.pc[2] = 0 /\ sim.dut.sram = sim.sram
    /\ sim.pc \notin {"main", "abort", "reset"} => InProgram
    /\ sim.ref.on => \A k \in 0..sim.img - 1 : IF sim.flash_boot THEN sim.ref.flash[k] = sim.flash[k] ELSE sim.ref.mrom[k] = sim.mrom[k]
    /\ DiffTestExact

(***************************************************************************)
(* stdin to the UART.  The receiver, which is external, starts at a 0 and  *)
(* samples the middle of each bit; got are the bytes it has received.      *)
(***************************************************************************)
uartInit == [requested |-> TRUE, enabled |-> FALSE, stdin |-> <<>>, typed |-> <<>>, frame |-> 1023, bits |-> 0, ticks |-> 0,
             line |-> 1, cnt |-> -1, byte |-> 0, got |-> <<>>]

TypeChar(ch) ==
    /\ Len(uart.typed) < MaxChars
    /\ uart' = [uart EXCEPT !.typed = Append(@, ch), !.stdin = Append(@, ch)]
    /\ UNCHANGED sim

\* The next byte becomes a frame: a 0, its bits from the lowest, a 1.
NewFrame(u) == [u EXCEPT !.stdin = Tail(@), !.frame = 512 + 2 * Head(u.stdin), !.bits = 10, !.ticks = UART_BIT_TICKS]

ShiftOut(u) ==
    LET shift == u.ticks = 1
    IN [u EXCEPT !.line = u.frame % 2, !.ticks = IF shift THEN UART_BIT_TICKS ELSE @ - 1,
                 !.frame = IF shift THEN 512 + (@ \div 2) ELSE @, !.bits = IF shift THEN @ - 1 ELSE @]

drive_uart_rx(u) ==
    IF ~u.enabled \/ (u.bits = 0 /\ u.stdin = <<>>) THEN [u EXCEPT !.line = 1]
    ELSE ShiftOut(IF u.bits = 0 THEN NewFrame(u) ELSE u)

Weight == <<1, 2, 4, 8, 16, 32, 64, 128>>

Receive(u) ==
    LET cnt == u.cnt + 1
        bit == cnt \div UART_BIT_TICKS
        middle == cnt % UART_BIT_TICKS = UART_BIT_TICKS \div 2
    IN IF u.cnt = -1 THEN (IF u.line = 0 THEN [u EXCEPT !.cnt = 0, !.byte = 0] ELSE u)
       ELSE IF ~middle \/ bit = 0 THEN [u EXCEPT !.cnt = cnt]
       ELSE IF bit < 9 THEN [u EXCEPT !.cnt = cnt, !.byte = @ + u.line * Weight[bit]]
       ELSE [u EXCEPT !.cnt = -1, !.got = Append(@, IF u.line = 1 THEN u.byte ELSE -1)]

\* A cycle, and the end of the reset.
single_cycle == uart' = Receive(drive_uart_rx(uart)) /\ UNCHANGED sim
ResetEnds == ~uart.enabled /\ uart' = [uart EXCEPT !.enabled = uart.requested] /\ UNCHANGED sim

uartNext == (\E ch \in Chars : TypeChar(ch)) \/ single_cycle \/ ResetEnds

\* The UART receives the bytes of stdin, whole and in order, whenever they
\* are typed, and all of them once the line has been idle.
StdinReceived ==
    /\ IsPrefix(uart.got, uart.typed)
    /\ uart.enabled /\ uart.stdin = <<>> /\ uart.bits = 0 => uart.got = uart.typed

\* Between ticks: a frame is being sent (bits > 0), of which k bits and t
\* ticks of the next are done; the receiver has counted as far, until the
\* middle of the last bit.
Half == UART_BIT_TICKS \div 2
Byte == 0..255
Shifter == 0..1023
BitCount == 0..10
TickCount == 0..UART_BIT_TICKS
Line == 0..1
uartTypeOK ==
    uart \in [requested : {TRUE}, enabled : BOOLEAN, stdin : Seq(Byte), typed : Seq(Byte), frame : Shifter, bits : BitCount,
             ticks : TickCount, line : Line, cnt : Int, byte : Byte, got : Seq(Int)]

\* The frame of a character after k shifts, and its bits up to the k-th.
FrameAt(k, ch) ==
    CASE k = 0 -> 512 + 2 * ch [] k = 1 -> 768 + ch [] k = 2 -> 896 + (ch \div 2) [] k = 3 -> 960 + (ch \div 4)
      [] k = 4 -> 992 + (ch \div 8) [] k = 5 -> 1008 + (ch \div 16) [] k = 6 -> 1016 + (ch \div 32)
      [] k = 7 -> 1020 + (ch \div 64) [] k = 8 -> 1022 + (ch \div 128) [] k = 9 -> 1023
LowBits(k, ch) == IF k = 0 THEN 0 ELSE IF k = 8 THEN ch ELSE ch % (2 * Weight[k])

Sent == 10 - uart.bits
Elapsed == UART_BIT_TICKS - uart.ticks
Sampled == IF Elapsed > Half \/ Sent = 0 THEN Sent ELSE Sent - 1
Flying == IF uart.cnt = -1 THEN 0 ELSE 1
Accounted ==
    LET done == Len(uart.got)
    IN /\ Len(uart.typed) = done + Flying + Len(uart.stdin)
       /\ \A i \in 1..done : uart.got[i] = uart.typed[i]
       /\ \A i \in 1..Len(uart.stdin) : uart.stdin[i] = uart.typed[done + Flying + i]
Sending ==
    /\ uart.bits # 0 => uart.enabled /\ uart.ticks # 0
    /\ uart.bits = 0 => uart.cnt = -1
    /\ uart.cnt = -1 /\ uart.bits # 0 => uart.bits = 1 /\ Elapsed > Half /\ uart.frame = 1023
Receiving(ch) ==
    /\ uart.cnt = Sent * UART_BIT_TICKS + Elapsed - 1 /\ uart.cnt >= 0
    /\ Sent = 9 => Elapsed <= Half
    /\ uart.frame = FrameAt(Sent, ch) /\ uart.byte = LowBits(Sampled, ch)
UartInv == Accounted /\ Sending /\ (uart.cnt # -1 => Receiving(uart.typed[Len(uart.got) + 1]))

\* The simulator and the line, each at its own pace.
npcInit == sim = simInit /\ uart = uartInit
npcSpec == npcInit /\ [][simNext \/ uartNext]_simVars

\* What the simulator passes on arrives, and what it compares is compared.
SimFaithful == DiffTestExact /\ StdinReceived
=============================================================================

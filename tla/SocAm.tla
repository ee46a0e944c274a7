-------------------------------- MODULE SocAm -------------------------------
(***************************************************************************)
(* The Abstract Machine on ysyxSoC: the keys of __am_input_keybrd (ioe.c), *)
(* which come from a PS/2 keyboard and from a terminal on the UART, and    *)
(* the start of a program (trm.c), which one or two loaders copy out of    *)
(* the flash.                                                              *)
(***************************************************************************)
EXTENDS Integers, Sequences, SequencesExt

CONSTANTS
    Typed,        \* what is typed: [from, key, down]
    TypedBound,   \* how much of it
    Ps2Depth,     \* 8: bytes in the FIFO of ps2_top_apb
    UartDepth,    \* 16: characters in the receiver FIFO of the UART
    FlashSize, SocSize,   \* bytes of the flash, and up to the end of RAM
    Programs      \* the programs started: [mode, image, ssbl, bss]

VARIABLES
    inp,    \* the keyboards and the driver's state
    boot    \* memory, UART and the loaders

socVars == <<inp, boot>>

\* The linker scripts: what is copied is in the flash, where it is copied to
\* is in RAM, and the second loader, the image and the uninitialised data
\* are apart.
ASSUME BootAssumption ==
    /\ FlashSize \in Nat /\ SocSize \in Nat /\ FlashSize <= SocSize
    /\ \A p \in Programs :
           /\ \A area \in {p.image, p.ssbl} :
                  /\ area.load \in Nat /\ area.len \in Nat /\ area.start \in Nat
                  /\ area.load + area.len <= FlashSize /\ FlashSize <= area.start /\ area.start + area.len <= SocSize
           /\ p.bss.start \in Nat /\ p.bss.len \in Nat /\ FlashSize <= p.bss.start
           /\ p.ssbl.start + p.ssbl.len <= p.image.start /\ p.image.start + p.image.len <= p.bss.start

(***************************************************************************)
(* The tables.  A scan code is <<extended, byte>>.                         *)
(***************************************************************************)
Plain == <<<<118, "ESCAPE">>, <<5, "F1">>, <<6, "F2">>, <<4, "F3">>, <<12, "F4">>, <<3, "F5">>, <<11, "F6">>, <<131, "F7">>,
    <<10, "F8">>, <<1, "F9">>, <<9, "F10">>, <<120, "F11">>, <<7, "F12">>, <<14, "GRAVE">>, <<22, "1">>, <<30, "2">>,
    <<38, "3">>, <<37, "4">>, <<46, "5">>, <<54, "6">>, <<61, "7">>, <<62, "8">>, <<70, "9">>, <<69, "0">>, <<78, "MINUS">>,
    <<85, "EQUALS">>, <<102, "BACKSPACE">>, <<13, "TAB">>, <<21, "Q">>, <<29, "W">>, <<36, "E">>, <<45, "R">>, <<44, "T">>,
    <<53, "Y">>, <<60, "U">>, <<67, "I">>, <<68, "O">>, <<77, "P">>, <<84, "LEFTBRACKET">>, <<91, "RIGHTBRACKET">>,
    <<93, "BACKSLASH">>, <<88, "CAPSLOCK">>, <<28, "A">>, <<27, "S">>, <<35, "D">>, <<43, "F">>, <<52, "G">>, <<51, "H">>,
    <<59, "J">>, <<66, "K">>, <<75, "L">>, <<76, "SEMICOLON">>, <<82, "APOSTROPHE">>, <<90, "RETURN">>, <<18, "LSHIFT">>,
    <<26, "Z">>, <<34, "X">>, <<33, "C">>, <<42, "V">>, <<50, "B">>, <<49, "N">>, <<58, "M">>, <<65, "COMMA">>,
    <<73, "PERIOD">>, <<74, "SLASH">>, <<89, "RSHIFT">>, <<20, "LCTRL">>, <<17, "LALT">>, <<41, "SPACE">>>>
Extended == <<<<17, "RALT">>, <<20, "RCTRL">>, <<31, "APPLICATION">>, <<107, "LEFT">>, <<105, "END">>, <<108, "HOME">>,
    <<112, "INSERT">>, <<113, "DELETE">>, <<114, "DOWN">>, <<116, "RIGHT">>, <<117, "UP">>, <<122, "PAGEDOWN">>, <<125, "PAGEUP">>>>

Lookup(table, byte) ==
    LET at == {i \in DOMAIN table : table[i][1] = byte}
    IN IF at = {} THEN "NONE" ELSE table[CHOOSE i \in at : TRUE][2]
key_from_ps2(byte, ext) == Lookup(IF ext THEN Extended ELSE Plain, byte)

\* The characters, by their names; a letter stands for both of its cases.
Letters == {"A", "B", "C", "D", "E", "F", "G", "H", "I", "J", "K", "L", "M", "N", "O", "P", "Q", "R", "S", "T", "U", "V",
            "W", "X", "Y", "Z", "0", "1", "2", "3", "4", "5", "6", "7", "8", "9"}
Signs == <<<<"ESC", "ESCAPE">>, <<"CR", "RETURN">>, <<"LF", "RETURN">>, <<"BS", "BACKSPACE">>, <<"DEL", "BACKSPACE">>, <<"TAB", "TAB">>,
    <<" ", "SPACE">>, <<"backtick", "GRAVE">>, <<"-", "MINUS">>, <<"=", "EQUALS">>, <<"[", "LEFTBRACKET">>, <<"]", "RIGHTBRACKET">>,
    <<"backslash", "BACKSLASH">>, <<";", "SEMICOLON">>, <<"quote", "APOSTROPHE">>, <<",", "COMMA">>, <<".", "PERIOD">>, <<"/", "SLASH">>>>
key_from_char(ch) == IF ch \in Letters THEN ch ELSE Lookup(Signs, ch)

Arrow(ch) == CASE ch = "A" -> "UP" [] ch = "B" -> "DOWN" [] ch = "C" -> "RIGHT" [] ch = "D" -> "LEFT" [] OTHER -> "NONE"

(***************************************************************************)
(* What the two keyboards send for a key.  A terminal only presses.        *)
(***************************************************************************)
ScanCode(key) ==
    LET plain == {i \in DOMAIN Plain : Plain[i][2] = key}
        ext == {i \in DOMAIN Extended : Extended[i][2] = key}
    IN IF plain # {} THEN <<FALSE, Plain[CHOOSE i \in plain : TRUE][1]>> ELSE <<TRUE, Extended[CHOOSE i \in ext : TRUE][1]>>
Ps2Bytes(key, down) ==
    LET c == ScanCode(key) IN (IF c[1] THEN <<224>> ELSE <<>>) \o (IF down THEN <<>> ELSE <<240>>) \o <<c[2]>>
ArrowEnds == {"A", "B", "C", "D"}
Characters == Letters \cup ({Signs[i][1] : i \in DOMAIN Signs} \ {"ESC"})
TerminalBytes(key) ==
    IF \E ch \in ArrowEnds : Arrow(ch) = key THEN <<"ESC", "[", CHOOSE ch \in ArrowEnds : Arrow(ch) = key>>
    ELSE IF key = "ESCAPE" THEN <<"ESC">>
    ELSE <<CHOOSE ch \in Characters : key_from_char(ch) = key>>

\* Only keys that the keyboard has.
ASSUME TypedAssumption ==
    /\ Ps2Depth \in Nat \ {0} /\ UartDepth \in Nat \ {0}
    /\ \A k \in Typed :
        \/ /\ k.from = "ps2" /\ k.down \in BOOLEAN
           /\ (\E i \in DOMAIN Plain : k.key = Plain[i][2]) \/ (\E i \in DOMAIN Extended : k.key = Extended[i][2])
        \/ /\ k.from = "uart" /\ k.down = TRUE
           /\ k.key \in {"ESCAPE"} \cup {Arrow(ch) : ch \in ArrowEnds} \cup {key_from_char(ch) : ch \in Characters}

\* The bytes on the wires and in the FIFOs of the two keyboards; what is typed
\* on each and what is reported of it: [key, down].  That history starts anew
\* when a byte has been lost, or an escape has been typed on its own, which
\* the driver cannot tell from the start of a sequence: the keyboard is then
\* muddled until all of it has been read and the driver expects no more.
inpInit == [ps2 |-> <<>>, uart |-> <<>>, ps2_wire |-> <<>>, wire |-> <<>>, esc_state |-> 0, ps2_extended |-> FALSE, ps2_released |-> FALSE,
            muddled |-> [ps2 |-> FALSE, uart |-> FALSE], since |-> [ps2 |-> 0, uart |-> 0], count |-> 0,
            typed |-> [ps2 |-> <<>>, uart |-> <<>>], got |-> [ps2 |-> <<>>, uart |-> <<>>]]

Muddle(i, s) == [i EXCEPT !.muddled[s] = TRUE, !.since[s] = 0, !.typed[s] = <<>>, !.got[s] = <<>>]

\* Typed since the keyboard was muddled, or remembered.
Remember(i, s, item) ==
    IF i.muddled[s] THEN [i EXCEPT !.since[s] = @ + 1] ELSE [i EXCEPT !.typed[s] = Append(@, item)]

Type(k) ==
    /\ inp.count < TypedBound
    /\ LET alone == k.from = "uart" /\ k.key = "ESCAPE"
           i == IF alone THEN Muddle(inp, "uart") ELSE Remember(inp, k.from, [key |-> k.key, down |-> k.down])
       IN inp' = IF k.from = "ps2"
                 THEN [i EXCEPT !.count = @ + 1, !.ps2_wire = @ \o Ps2Bytes(k.key, k.down)]
                 ELSE [i EXCEPT !.count = @ + 1, !.wire = @ \o TerminalBytes(k.key)]
    /\ UNCHANGED boot

\* A byte that finds the FIFO of the PS/2 controller full is dropped.
Ps2Receives ==
    /\ inp.ps2_wire # <<>>
    /\ inp' = IF Len(inp.ps2) < Ps2Depth
              THEN [inp EXCEPT !.ps2_wire = Tail(@), !.ps2 = Append(@, Head(inp.ps2_wire))]
              ELSE [Muddle(inp, "ps2") EXCEPT !.ps2_wire = Tail(@)]
    /\ UNCHANGED boot

\* A character that finds the FIFO of the UART full is written all the same,
\* over the oldest one: its top has come round to its bottom.
UartReceives ==
    /\ inp.wire # <<>>
    /\ inp' = IF Len(inp.uart) < UartDepth
              THEN [inp EXCEPT !.wire = Tail(@), !.uart = Append(@, Head(inp.wire))]
              ELSE [Muddle(inp, "uart") EXCEPT !.wire = Tail(@), !.uart[1] = Head(inp.wire)]
    /\ UNCHANGED boot

Report(i, from, key, down) == IF i.muddled[from] THEN i ELSE [i EXCEPT !.got[from] = Append(@, [key |-> key, down |-> down])]

\* All has been read, and the driver expects no more bytes of a key.
Ps2AtRest(i) == i.ps2 = <<>> /\ i.ps2_wire = <<>> /\ ~i.ps2_extended /\ ~i.ps2_released
UartAtRest(i) == i.uart = <<>> /\ i.wire = <<>> /\ i.esc_state = 0
Settle(i, s, rest) == IF rest THEN [i EXCEPT !.muddled[s] = FALSE, !.since[s] = 0] ELSE i

PollPs2(i) ==
    LET code == Head(i.ps2)
        rest == [i EXCEPT !.ps2 = Tail(@)]
    IN CASE code = 224 -> [rest EXCEPT !.ps2_extended = TRUE]
         [] code = 240 -> [rest EXCEPT !.ps2_released = TRUE]
         [] OTHER -> Report([rest EXCEPT !.ps2_extended = FALSE, !.ps2_released = FALSE],
                            "ps2", key_from_ps2(code, i.ps2_extended), ~i.ps2_released)

\* A character that is not a key is dropped, and so is the one that ends an
\* escape of its own: the escape is reported in its place.
PollUart(i) ==
    LET ch == Head(i.uart)
        rest == [i EXCEPT !.uart = Tail(@)]
        Key(j, key) == IF key = "NONE" THEN j ELSE Report(j, "uart", key, TRUE)
    IN CASE i.esc_state = 1 /\ ch = "[" -> [rest EXCEPT !.esc_state = 2]
         [] i.esc_state = 1 /\ ch # "[" -> Key([rest EXCEPT !.esc_state = 0], "ESCAPE")
         [] i.esc_state = 2 -> Key([rest EXCEPT !.esc_state = 0], Arrow(ch))
         [] i.esc_state = 0 /\ ch = "ESC" -> [rest EXCEPT !.esc_state = 1]
         [] i.esc_state = 0 /\ ch # "ESC" -> Key(rest, key_from_char(ch))

\* The PS/2 keyboard goes first; its register reads 0 when it has nothing.
__am_input_keybrd_soc ==
    /\ inp.ps2 # <<>> \/ inp.uart # <<>>
    /\ inp' = IF inp.ps2 # <<>>
              THEN LET i == PollPs2(inp) IN Settle(i, "ps2", Ps2AtRest(i))
              ELSE LET i == PollUart(inp) IN Settle(i, "uart", UartAtRest(i))
    /\ UNCHANGED boot

inpNext == (\E k \in Typed : Type(k)) \/ Ps2Receives \/ UartReceives \/ __am_input_keybrd_soc

\* Whatever is typed on the two keyboards, however their bytes arrive and
\* whenever the program polls: as long as no byte finds its FIFO full and no
\* escape is typed on its own, each key is reported once, as itself, pressed
\* or released, in the order of its keyboard, and when nothing is left to
\* read all of them have been; and so again from the time that the driver has
\* read everything and expects no more.
KeysReported ==
    /\ \A s \in {"ps2", "uart"} : IsPrefix(inp.got[s], inp.typed[s])
    /\ inp.ps2_wire = <<>> /\ inp.ps2 = <<>> => inp.got.ps2 = inp.typed.ps2
    /\ inp.wire = <<>> /\ inp.uart = <<>> => inp.got.uart = inp.typed.uart

\* Which it does, at the latest, one key later on the PS/2 keyboard, and two
\* keys later on the terminal.
KeysRecovered ==
    /\ inp.muddled.ps2 /\ inp.since.ps2 >= 1 => inp.ps2 # <<>> \/ inp.ps2_wire # <<>>
    /\ inp.muddled.uart /\ inp.since.uart >= 2 => inp.uart # <<>> \/ inp.wire # <<>>

inpSpec == inp = inpInit /\ [][inpNext]_inp

(***************************************************************************)
(* The start of a program p.  p.image is what is copied to where it runs   *)
(* (the data of a program that runs in the flash), p.ssbl the second       *)
(* loader, [load, start, len] each; p.bss is cleared.  Addresses are       *)
(* bytes; the byte at address a of the flash is a.                         *)
(***************************************************************************)
SocBytes == 0..SocSize - 1
FlashBytes == 0..FlashSize - 1
Uninit == -1
UartRegisters == {"thr", "ier", "dll", "dlm", "fcr", "lcr"}
UartAtReset ==
    [r \in UartRegisters |-> CASE r \in {"ier", "dll", "dlm"} -> 0 [] r = "fcr" -> 192 [] r = "lcr" -> 3 [] r = "thr" -> Uninit]
Reset(p) == [prog |-> p, mem |-> [a \in SocBytes |-> IF a \in FlashBytes THEN a ELSE Uninit], pc |-> "_trm_init",
             dst |-> 0, src |-> 0, end |-> 0, then |-> "none", uart |-> UartAtReset]

TwoLoaders(p) == p.mode \in {"psram", "sdram"}

Copying(b, area, then) ==
    [b EXCEPT !.dst = area.start, !.src = area.load, !.end = area.load + area.len, !.pc = "copy", !.then = then]

_trm_init ==
    /\ boot.pc = "_trm_init"
    /\ boot' = IF TwoLoaders(boot.prog) THEN Copying(boot, boot.prog.ssbl, "_ssbl_init")
               ELSE Copying(boot, boot.prog.image, "clear_bss")
    /\ UNCHANGED inp

_ssbl_init ==
    /\ boot.pc = "_ssbl_init"
    /\ boot' = Copying(boot, boot.prog.image, "clear_bss")
    /\ UNCHANGED inp

\* The loaders of a program in SRAM, PSRAM or SDRAM copy words as long as all
\* three addresses are multiples of four; copy_data, of a program that stays
\* in the flash or the MROM, copies bytes.
ByWords ==
    /\ boot.prog.mode \in {"sram", "psram", "sdram"}
    /\ boot.dst % 4 = 0 /\ boot.src % 4 = 0 /\ boot.end % 4 = 0
    /\ boot.src + 4 <= boot.end

CopyUnit(n) ==
    boot' = [boot EXCEPT !.dst = @ + n, !.src = @ + n,
                         !.mem = [a \in SocBytes |-> IF a - boot.dst \in 0..n - 1 THEN @[boot.src + a - boot.dst] ELSE @[a]]]

fsbl_copy_image ==
    /\ boot.pc = "copy"
    /\ CASE ByWords -> CopyUnit(4)
         [] ~ByWords /\ boot.src < boot.end -> CopyUnit(1)
         [] OTHER -> boot' = [boot EXCEPT !.pc = boot.then]
    /\ UNCHANGED inp

\* Mutation: the byte after the uninitialised data is cleared too.
clear_bssLast ==
    /\ boot.pc = "clear_bss"
    /\ boot' = [boot EXCEPT !.pc = "call_main",
                            !.mem = [a \in SocBytes |-> IF a - boot.prog.bss.start \in 0..boot.prog.bss.len THEN 0 ELSE @[a]]]
    /\ UNCHANGED inp

clear_bss ==
    /\ boot.pc = "clear_bss"
    /\ boot' = [boot EXCEPT !.pc = "call_main",
                            !.mem = [a \in SocBytes |-> IF a - boot.prog.bss.start \in 0..boot.prog.bss.len - 1 THEN 0 ELSE @[a]]]
    /\ UNCHANGED inp

\* A write to the UART.  The divisor latch bit of LCR selects the register
\* that is meant by the first two addresses.
Selected(u, reg) ==
    LET dlab == u["lcr"] >= 128
    IN CASE reg = 0 -> (IF dlab THEN "dll" ELSE "thr")
         [] reg = 1 -> (IF dlab THEN "dlm" ELSE "ier")
         [] reg = 2 -> "fcr"
         [] reg = 3 -> "lcr"
outb(u, reg, v) == [u EXCEPT ![Selected(u, reg)] = v]

uart_init(u) == outb(outb(outb(outb(outb(outb(u, 1, 0), 3, 128), 0, 1), 1, 0), 3, 3), 2, 7)

call_main ==
    /\ boot.pc = "call_main"
    /\ boot' = [boot EXCEPT !.uart = uart_init(@), !.pc = "main"]
    /\ UNCHANGED inp

bootNext == _trm_init \/ _ssbl_init \/ fsbl_copy_image \/ clear_bss \/ call_main

At(area, a) == a - area.start \in 0..area.len - 1
CopiedFirst(area, n) == \A k \in 0..n - 1 : boot.mem[area.start + k] = area.load + k
InPlace(area) == CopiedFirst(area, area.len)
UartReady ==
    [r \in UartRegisters |->
        CASE r \in {"ier", "dlm"} -> 0 [] r = "dll" -> 1 [] r = "fcr" -> 7 [] r = "lcr" -> 3 [] r = "thr" -> Uninit]
SecondLoaderRuns == boot.pc = "_ssbl_init" \/ (boot.pc = "copy" /\ boot.then = "clear_bss" /\ TwoLoaders(boot.prog))

\* The second loader is in place as long as it runs; main starts with its
\* image in place, its uninitialised data 0, nothing else written, and a UART
\* that sends, at the rate set, the first character main prints.
ProgramLoaded ==
    LET p == boot.prog
    IN /\ SecondLoaderRuns => InPlace(p.ssbl)
       /\ boot.pc = "main" =>
             /\ InPlace(p.image)
             /\ \A a \in SocBytes :
                   CASE a \in FlashBytes -> boot.mem[a] = a
                     [] At(p.bss, a) -> boot.mem[a] = 0
                     [] At(p.image, a) \/ At(p.ssbl, a) -> TRUE
                     [] OTHER -> boot.mem[a] = Uninit
             /\ boot.uart = UartReady

\* Why: the copy has come as far as its pointers say, and nothing outside
\* the program's areas is written.
BootPc == {"_trm_init", "copy", "_ssbl_init", "clear_bss", "call_main", "main"}
SocMemory == [SocBytes -> Int]
bootTypeOK ==
    boot \in [prog : Programs, mem : SocMemory, pc : BootPc, dst : Nat, src : Nat, end : Nat,
              then : {"none", "_ssbl_init", "clear_bss"}, uart : {UartAtReset, UartReady}]

BeingCopied == IF boot.then = "_ssbl_init" THEN boot.prog.ssbl ELSE boot.prog.image
Unwritten ==
    \A a \in SocBytes :
        /\ a \in FlashBytes => boot.mem[a] = a
        /\ a \notin FlashBytes /\ ~At(boot.prog.image, a) /\ ~At(boot.prog.ssbl, a) /\ ~At(boot.prog.bss, a) => boot.mem[a] = Uninit
BootInv ==
    LET p == boot.prog
        area == BeingCopied
    IN /\ Unwritten
       /\ boot.pc = "copy" =>
              /\ boot.then \in {"_ssbl_init", "clear_bss"}
              /\ boot.src \in area.load..boot.end /\ boot.end = area.load + area.len
              /\ boot.dst = area.start + boot.src - area.load
              /\ CopiedFirst(area, boot.src - area.load)
       /\ SecondLoaderRuns => InPlace(p.ssbl)
       /\ boot.pc \in {"clear_bss", "call_main", "main"} => InPlace(p.image)
       /\ boot.pc \in {"call_main", "main"} => \A a \in SocBytes : At(p.bss, a) => boot.mem[a] = 0
       /\ boot.uart = IF boot.pc = "main" THEN UartReady ELSE UartAtReset

bootSpec == (boot \in {Reset(p) : p \in Programs}) /\ [][bootNext]_boot
=============================================================================

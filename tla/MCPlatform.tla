----------------------------- MODULE MCPlatform -----------------------------
(***************************************************************************)
(* What surrounds a processor, one of the parts at a time: the devices of  *)
(* NEMU and of ysyxSoC with the code that drives them, the simulator of    *)
(* the NPC with its reference, QEMU as a reference behind GDB's protocol,  *)
(* and the dialogs of menuconfig.  The other parts keep their initial      *)
(* state.                                                                  *)
(***************************************************************************)
EXTENDS AmCte, NemuDevices, NemuMemory, SocAm, NpcSim, Lxdialog

VARIABLES
    part,                                                                            \* the part that runs
    calls,                                                                           \* requests to the SD card so far
    dev, host, miter, buf, local, errs, xfered, resp, warned, before, last, driver,  \* SdCard
    cl, up, down, stub, faults                                                       \* GdbLink

\* Requests whose segments end within a block or not at a word, or are too
\* short, the two ways to end a transfer, a read of half of EXT_CSD, and one
\* with a bad block size.
Req(op, sbc, stop, arg, blksz, blocks, sg, v) ==
    [op |-> op, sbc |-> sbc, stop |-> stop, arg |-> arg, blksz |-> blksz, blocks |-> blocks, sg |-> sg, v |-> v]
McRequests ==
    {Req("READ_MULTIPLE_BLOCK", b, TRUE, 1, 8, 2, sg, 0) : b \in BOOLEAN, sg \in {<<4, 12>>, <<8>>, <<10, 8>>}}
    \cup {Req("WRITE_MULTIPLE_BLOCK", TRUE, TRUE, 1, 8, 2, sg, 1) : sg \in {<<16>>, <<12, 4>>, <<6, 10>>}}
    \cup {Req("WRITE_MULTIPLE_BLOCK", FALSE, FALSE, 2, 8, 1, <<8>>, 2)}
    \cup {Req("SEND_EXT_CSD", FALSE, FALSE, 0, n, 1, <<n>>, 0) : n \in {4, 8}}
    \cup {Req("READ_MULTIPLE_BLOCK", TRUE, TRUE, 0, 12, 1, <<12>>, 0)}
    \cup {Req(op, FALSE, FALSE, 0, 0, 0, <<>>, 0) : op \in {"GO_IDLE_STATE", "SEND_STATUS", "ALL_SEND_CID"}}
MaxCalls == 3

Sd == INSTANCE SdCard WITH CardBlocks <- 3, BlockBytes <- 8, PioBurst <- 1, FifoWords <- 2, FifoLevel <- 1,
                           Requests <- McRequests, pc <- driver

Rect(x, y, w, h, c, s) == [x |-> x, y |-> y, w |-> w, h |-> h, color |-> c, sync |-> s]
McDraws == {Rect(0, 0, 2, 1, "red", TRUE), Rect(1, 0, 1, 2, "green", FALSE), Rect(-1, 1, 2, 2, "blue", TRUE),
            Rect(1, 1, 2, 1, "white", TRUE), Rect(0, 0, 0, 0, "red", TRUE)}

Stroke(f, k, d) == [from |-> f, key |-> k, down |-> d]
Extent(l, s, n) == [load |-> l, start |-> s, len |-> n]
McTyped == {Stroke("ps2", k, d) : k \in {"LALT", "RALT"}, d \in BOOLEAN} \cup {Stroke("uart", k, TRUE) : k \in {"UP", "B", "LEFTBRACKET", "ESCAPE"}}
McPrograms ==
    {[mode |-> "flash", image |-> Extent(5, 24, 3), ssbl |-> Extent(0, 16, 0), bss |-> [start |-> 27, len |-> 2]],
     [mode |-> "mrom", image |-> Extent(4, 24, 8), ssbl |-> Extent(0, 16, 0), bss |-> [start |-> 32, len |-> 4]],
     [mode |-> "sram", image |-> Extent(4, 24, 10), ssbl |-> Extent(0, 16, 0), bss |-> [start |-> 34, len |-> 2]],
     [mode |-> "sram", image |-> Extent(4, 24, 8), ssbl |-> Extent(0, 16, 0), bss |-> [start |-> 32, len |-> 4]]}
    \cup {[mode |-> m, image |-> Extent(8, s, n), ssbl |-> Extent(l, 17, 4), bss |-> [start |-> s + n, len |-> 3]]
             : m \in {"psram", "sdram"}, s \in {24, 26}, n \in {6, 8}, l \in {0, 1}}

\* pmem, an SRAM right below it, a ROM; a device in reach of each, one that
\* encloses the RAM, and several that overlap.  NEMU looks at the first byte
\* of an access only: each access here lies in one region.
McArrays == [pmem |-> [base |-> 8, size |-> 4], sram |-> [base |-> 4, size |-> 4], mrom |-> [base |-> 16, size |-> 4], flash |-> [base |-> 20, size |-> 4]]
Region(n, l, k) == [name |-> n, low |-> l, len |-> k]
McDevices == {Region("serial", 0, 2), Region("rtc", 2, 2), Region("vga", 0, 4), Region("fb", 12, 4), Region("sb", 2, 14), Region("kbd", 10, 3)}
McAccesses == {<<0, 1>>, <<0, 2>>, <<2, 2>>, <<3, 1>>, <<4, 4>>, <<8, 2>>, <<10, 1>>, <<12, 4>>, <<18, 2>>}

\* A program that stores and loads, one with a device, one that does not
\* end, and two that are not loaded.
Insts(names) == [k \in DOMAIN names |-> <<names[k]>>]
McImages == {Insts(<<"add", "sw", "add", "lw", "ebreak">>), Insts(<<"dev", "add", "sw", "lw", "ebreak">>), Insts(<<"add", "j">>), <<>>,
             Insts(<<"add", "add", "add", "add", "add", "add", "ebreak">>)}
McCommands == {<<"c">>, <<"si", 1>>, <<"si", 2>>, <<"x", 2, <<"mrom", 5>>>>, <<"x", 2, <<"sram", 0>>>>, <<"info">>, <<"q">>, <<"eof">>}

\* Copies of one and of two packets, the last of them outside QEMU's memory.
Copy(a, b) == [call |-> "difftest_memcpy", addr |-> a, bytes |-> b]
McOps == {Copy(2, <<1, 18, 255>>), Copy(3, <<5, 6>>), Copy(4, <<7, 9, 11>>),
          [call |-> "difftest_regcpy", to |-> "ref", regs |-> <<4660>>], [call |-> "difftest_regcpy", to |-> "dut", regs |-> <<>>],
          [call |-> "difftest_exec", n |-> 2]}
Gdb == INSTANCE GdbLink WITH Ops <- McOps, MaxOps <- 2, MaxPackets <- 9, MaxFaults <- 2, Noise <- {48, 125, 42, 36, 45}, Runs <- {0, 4}, Mtu <- 2, NRegs <- 2, DiffRegs <- 1,
                             QemuMem <- 0..5

\* Lists shorter and longer than the window, two items with the same hot key,
\* an input as long as it may be and texts with empty lines.  A terminal that
\* grows or is resized twice makes a menu draw other rows than it acts on.
McHot == <<"a", "b", "a", "s", "b">>
McTexts == {<<"a", "nl">>, <<"nl", "a", "nl", "nl", "a", "nl", "nl">>, [i \in 1..8 |-> "nl"]}
McInits == {<<>>, <<"h">>, <<"o", "x", "o">>}
McResized(h) == {k \in {2, 3} : k <= h}

Parts == {"sd", "cte", "key", "rtc", "vga", "inp", "boot", "ram", "npc", "uart", "gdb", "dlg"}
Init ==
    /\ part \in Parts /\ calls = 0
    /\ Sd!sdInit /\ (part = "sd" \/ dev.fp)
    /\ Gdb!gdbInit /\ (part = "gdb" \/ stub.run = 0)
    /\ cteInit /\ npcInit
    /\ key = init_i8042 /\ inp = inpInit /\ ram = init_mem
    /\ rtc \in IF part = "rtc" THEN init_timer ELSE {CHOOSE r \in init_timer : TRUE}
    /\ vga \in IF part = "vga" THEN init_vga ELSE {CHOOSE v \in init_vga : TRUE}
    /\ dlg \in IF part = "dlg" THEN dlgInit ELSE {NewInput(<<>>)}
    /\ boot \in IF part = "boot" THEN {Reset(p) : p \in McPrograms} ELSE {Reset(CHOOSE p \in McPrograms : TRUE)}

SdStep == part = "sd" /\ (driver = "idle" => calls < MaxCalls) /\ Sd!sdNext /\ calls' = IF driver = "idle" THEN calls + 1 ELSE calls
CteStep == part = "cte" /\ cteNext /\ calls' = calls
DevStep == ((part = "key" /\ keyNext) \/ (part = "rtc" /\ rtcNext) \/ (part = "vga" /\ vgaNext)) /\ calls' = calls
SocStep == ((part = "inp" /\ inpNext) \/ (part = "boot" /\ bootNext)) /\ calls' = calls
MemStep == part = "ram" /\ memNext /\ calls' = calls
SimStep == ((part = "npc" /\ simNext) \/ (part = "uart" /\ uartNext)) /\ calls' = calls
GdbStep == part = "gdb" /\ Gdb!gdbNext /\ calls' = calls
DlgStep == part = "dlg" /\ dlgNext /\ calls' = calls

sdVars == <<dev, host, miter, buf, local, errs, xfered, resp, warned, before, last, driver>>
gdbVars == <<cl, up, down, stub, faults>>
vars == <<part, calls, sdVars, cteVars, deviceVars, socVars, ram, simVars, gdbVars, dlg>>

Next ==
    /\ part' = part
    /\ \/ SdStep /\ UNCHANGED <<cteVars, deviceVars, socVars, ram, simVars, gdbVars, dlg>>
       \/ CteStep /\ UNCHANGED <<sdVars, deviceVars, socVars, ram, simVars, gdbVars, dlg>>
       \/ DevStep /\ UNCHANGED <<sdVars, cteVars, socVars, ram, simVars, gdbVars, dlg>>
       \/ SocStep /\ UNCHANGED <<sdVars, cteVars, deviceVars, ram, simVars, gdbVars, dlg>>
       \/ MemStep /\ UNCHANGED <<sdVars, cteVars, deviceVars, socVars, simVars, gdbVars, dlg>>
       \/ SimStep /\ UNCHANGED <<sdVars, cteVars, deviceVars, socVars, ram, gdbVars, dlg>>
       \/ GdbStep /\ UNCHANGED <<sdVars, cteVars, deviceVars, socVars, ram, simVars, dlg>>
       \/ DlgStep /\ UNCHANGED <<sdVars, cteVars, deviceVars, socVars, ram, simVars, gdbVars>>

\* The processor that runs the driver, a loader or a trap goes on.
Busy == driver # "idle" \/ mode \notin {"boot", "thread"} \/ part = "boot"
Spec == Init /\ [][Next]_vars /\ WF_vars(Busy /\ Next)

\* Whatever requests came before, and whether there is an image or not: a
\* request whose segments hold its blocks succeeds, and one that is done
\* without an error has moved its blocks to or from its segments in order, the
\* first of them to or from EXT_CSD if an earlier read of that was cut short;
\* nothing but the blocks of a write has changed on the card, also when it
\* failed; the driver's warnings and the card's panic are never reached.
SdTransfers ==
    /\ ~dev.panic /\ ~warned
    /\ DOMAIN dev.file = DOMAIN before.file
    /\ \A p \in DOMAIN dev.file : dev.file[p] # before.file[p] => p \in Sd!Written(IF driver = "idle" THEN last ELSE host.mrq)
    /\ Sd!Done => /\ host.mrq = Sd!Nothing /\ host.cmd = "none" /\ ~host.data
                  /\ Sd!Suffices(last) => ~Sd!Failed
                  /\ ~Sd!Failed /\ Sd!HasData(last) => Sd!DataMoved(last) /\ xfered = last.blksz * last.blocks

\* What is handed over through a device or a line arrives once and whole: the
\* blocks of the SD card, the keys typed on ysyxSoC, and the calls of QEMU as a
\* reference, whatever bytes the line changes.
TransfersExact == SdTransfers /\ KeysReported /\ KeysRecovered /\ Gdb!CallsExact

\* A request to the SD card is answered, a trap returns to a thread, and a
\* reset ends in main.
CallsReturn ==
    /\ driver # "idle" ~> driver = "idle"
    /\ mode \notin {"boot", "thread"} ~> mode = "thread"
    /\ part = "boot" ~> boot.pc = "main"
=============================================================================

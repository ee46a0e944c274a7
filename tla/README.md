# TLA+ models of the ysyx workbench

The repository is a "One Student One Chip" (ysyx) workbench: a RISC-V core written
in Verilog (`npc`), the emulator it is checked against (`nemu`), the bare-metal
runtime the test programs are linked with (`abstract-machine`), the peripherals
of the SoC the core is simulated in (`ysyxSoC/perip`), and the tools around them:
the configuration system, the build's dependency tracker, a cache simulator, the
link to QEMU, and the macros that let a minimal processor run compiled programs.  This
directory holds TLA+ specifications of the parts whose correctness depends on
timing, ordering and shared state, TLC configurations that check them on small
instances, and TLAPS proofs, for every value of the constants, of the invariants
they rest on.

## 1. Inventory

| Part | State | Operations | Interacts with | What is hard | What makes it correct |
|---|---|---|---|---|---|
| NPC core (`npc/vsrc/ysyx_26060181.v` 18-620) | FSM state, `inst_reg`, `aw_done`/`w_done`, pc, CSRs, registers | fetch, execute, load, store, commit, trap | I-cache, arbiter, CLINT, SoC by valid/ready wires; DPI calls into the simulator | independent AW/W channels, arbitrary slave delays, error responses | every commit is one step of the ISA; requests stable; no hang |
| I-cache (622-774), read arbiter (779-822), CLINT (827-858), address decoder (447-486) | line arrays, grant, `mtime` | refill, grant and release, read a half, route and merge | each other, the core, AM's timer | a line is valid from its first beat; responses merged with "or"; a moving counter read in halves | the memory's word is returned; one responder; a response reaches its requester |
| NPC simulator (`npc/csrc/main.cpp`) | performance counters, images, DiffTest's skip flag, debugger, UART bit shifter | `cpu_exec`, perf events, `npc_trap`, compare or sync, commands, `drive_uart_rx` | RTL through DPI, NEMU as a shared library, stdin | counters bumped in different cycles; a flag set by one party and cleared by another | counters agree; DiffTest stops at the first wrong instruction it compares, and at no other |
| Cache simulator (`npc/tools/cachesim`) | sets, ways, ages | one access of a trace | offline | replacement at equal ages | hits as the policy says |
| NEMU ISA (`nemu/src/isa/riscv32`) | registers, CSRs, memory | one instruction | memory, devices, DiffTest | it is the reference | RV32 semantics |
| NEMU loop, debugger, DiffTest (`nemu/src/cpu`, `monitor`, `engine`) | `nemu_state`, watchpoint pool, skip flag | `cpu_exec`, `trace_and_difftest`, watchpoints, expressions, commands | ISA, devices | several writers of `nemu_state` in one iteration; flags that outlive an instruction | verdict kept; pool intact; reference in step |
| NEMU memory and devices (`nemu/src/memory`, `nemu/src/device`) | arrays, map table, key and audio queues, clock latch, frame buffer, SD card | access, callbacks, registration | guest programs, SDL's thread, a Linux driver | overlapping maps, queue limits, halves of a time, transfers that fail in the middle | stored bytes read back; keys, samples, pixels and blocks arrive in order |
| AM runtime (`abstract-machine/am`) | contexts on the stacks, decoder state of the keyboards, loaders | trap entry and return, `kcontext`, `yield`, polling, `_trm_init` | NEMU, NPC and ysyxSoC devices | a context saved on one stack is restored on another; two keyboards share one decoder; one loader loads the other | a thread goes on where it was; keys are reported; the program is in memory when `main` starts |
| klib, int64, minirv (`abstract-machine/klib`, `tools/minirv`) | none | library functions, macros | programs | overlapping copies, carries, operands that are the macro's own registers | C's and RV32I's results |
| kconfig (`nemu/tools/kconfig`) | symbol table with cached values, menu tree, `.config`, `auto.conf`, header, marker files | every mode of `conf`, menuconfig, preprocessor | make and fixdep, through files | stale values, kills between renames, edits between runs | what is written reads back; what was compiled agrees with it |
| lxdialog | position, scroll, window | keys, resize | menuconfig | the window is changed piece by piece | it shows what Enter acts on |
| fixdep (`nemu/tools/fixdep`) | words seen | rewrite a dependency file | make, kconfig's marker files | which words count | nothing that depends on a symbol is missed |
| qemu-diff (`nemu/tools/qemu-diff`) | connection | memory and register copies, single step | QEMU's GDB stub | damaged and repeated packets | a call that returns has had its effect once |
| SoC peripherals (`ysyxSoC/perip`) | SPI and XIP state machines, PS/2 FIFO, memory models | APB transfers, serial protocols | bus, outside world | XIP shares the SPI master with software | no lost access |

## 2. Plan

1. The core with its cache, arbiter, CLINT and decoder, and an SoC of arbitrary
   timing; refinement of NEMU's ISA; the bus invariant and its proof. *(done)*
2. The simulator: performance counters, DiffTest, debugger, loader, UART input. *(done)*
3. NEMU: loop, debugger, watchpoints, expressions, DiffTest *(done)*; memory,
   devices and the drivers that poll them *(done)*.
4. AM: context switching, loaders, keyboards *(done)*; klib and minirv *(done)*.
5. The build: kconfig with its front ends, preprocessor and dialogs, fixdep. *(done)*
6. References other than NEMU: QEMU behind GDB's protocol *(done)*; Spike and KVM call
   libraries and are left out.
7. SoC peripherals: execute-in-place flash *(done)*, the FIFOs of the keyboards
   *(done)*; the command decoders of SDRAM and PSRAM *(open)*.
8. Proofs: the bus, coherence of the I-cache, stability of requests, the refinement of
   NEMU's ISA, the performance counters, DiffTest and the watchpoint pool of NEMU, audio,
   keyboard, clock and screen, context switching, execute-in-place flash, stored bytes,
   the stdin shifter and DiffTest of the NPC, the loaders and keyboards of ysyxSoC, the
   dialogs *(done)*; packets to QEMU (`GdbLink`) and the SD card *(open)*.
   `Klib`, `MiniRv` and the modules of kconfig use recursion over data and stay with TLC.

## 3. Modules

| Module | Models | State and actions |
|---|---|---|
| `NpcParams` | address slices of the cache, memory map, instruction classes | constants and operators only |
| `SimpleIcache`, `AxiUnits` | the RTL modules `SimpleIcache`; `axi_arbiter` and `axi_clint` | one action per clock edge (`IcEdge`, `ArbEdge`, `ClintEdge`), one disjunct per branch |
| `SocBus` | the SoC as the core sees it: cross-bar, fragmenter, bridge and memories of `ysyxSoCFull.v` | accepts, delays and answers at any time, may answer with an error |
| `NpcCore` | the core, and the composition of the five | `Tick` is one clock edge: all clocked blocks at once, over the wires defined as operators with the RTL's names |
| `NemuIsa` | `decode_exec`, `isa_raise_intr` | the abstract machine: one action per class of instruction |
| `NpcPerf` | counters of `main.cpp` and the RTL's perf registers | `PerfTick` is `Tick` with the DPI events it raises |
| `NpcSim` | the rest of `main.cpp`, compiled with DiffTest | `sim`: loader, commits with compare or sync, commands; `uart`: the bit shifter by ticks |
| `WpPool`, `NemuMonitor` | `watchpoint.c`; `cpu-exec.c`, `sdb.c`, `dut.c`, `hostcall.c`, `device.c` | two lists of node numbers; `ctl` is the position of the one thread, one action per command and per part of an iteration |
| `NemuAudio` | `device/audio.c` and AM's `ioe/audio.c` | two threads, one action per access to the shared count and buffer |
| `NemuMemory` | `paddr.c`, `map.c`, `mmio.c`, `serial.c` | registration of a device; reads and writes of bytes, beside a shadow of what was stored |
| `NemuDevices` | `keyboard.c`, `timer.c`, `vga.c` with AM's drivers | three machines; one action per enqueue, poll, half of a time, pixel |
| `SdCard` | `sdcard.c` and the Linux driver `resource/sdcard/nemu.c` | the card as accesses, the driver with one action per function, segment and burst |
| `AmCte` | `trap.S` and `cte.c` of AM | registers, stacks and CSRs; trap entry, handler, return |
| `SocAm` | keyboards and loaders of AM on ysyxSoC, the FIFOs of `ps2_top_apb.v` and `uart_rfifo.v` | bytes entering a FIFO or finding it full, polls; one action per unit copied |
| `SdbExpr` | `expr.c` | recursive operators with the C functions' names |
| `Klib` | klib's strings, formatting, heap; 64-bit division | operators over a memory; the division for words of `W` bits |
| `MiniRv` | `inst-replace.h`, `gen-lut.c` | each macro as the sequence it expands to, executed |
| `Cachesim` | `cachesim.cpp` | a fold over the trace |
| `KconfExpr`, `KconfMenu`, `KconfSymbol`, `KconfData` | `expr.c`, `menu.c`, `symbol.c`, `confdata.c` of kconfig | expression trees; `menu_finalize`; the symbol table as a record that functions take to its successor; the files as sequences of lines |
| `Kconf` | `conf.c`, `mconf.c` | a process at a time over the files; one action per question, menu command and file operation; `Kill`, `EditKconfig`, `HandEdit`, `Make` |
| `KconfDeps`, `KconfPreprocess` | `sym_check_deps`; `preprocess.c` | operators |
| `Lxdialog` | `menubox.c`, `checklist.c`, `inputbox.c`, `textbox.c` | one action per key; what the window shows is state of its own |
| `Fixdep` | `fixdep.c` | operators over a text of atoms |
| `GdbLink` | `protocol.c`, `gdb-host.c`, `diff-test.c` of qemu-diff | client and stub with a line each way; `Garble` changes any character, also of an acknowledgement |
| `XipFlash` | `spi_top_apb.v` with the SPI master and the flash | `Tick` is one clock edge |
| `MC*` | | instances for TLC |
| `NpcCore_proofs`, `NpcIsa_proofs`, `NpcPerf_proofs`, `NpcSim_proofs`, `NemuMonitor_proofs`, `XipFlash_proofs`, `Lxdialog_proofs` | | theorems on the module of that name; `NpcIsa_proofs` on the I-cache's data and the refinement of `NemuIsa`, `NemuMonitor_proofs` also on `WpPool` |
| `Platform_proofs` | | theorems on `NemuAudio`, `NemuDevices`, `NemuMemory`, `AmCte` and `SocAm` |

Data are abstracted.  A word of the core is a number below `ValNum`, an instruction
is what `Decode` says of it, all ALU operations are an addition, memory is
word-addressed.  A machine of NEMU's loop is one number, a byte of the audio stream
its position, a pixel a colour and its place.  Registers of a thread are three.  A
configuration file is a sequence of names with values, a source file a sequence of
words.  A menu item is its number.  What is not abstracted is control: every early
return, every state of every state machine and the order of assignments.

Definitions named "Mutation" stand before the definition they change.  They are
plausible mistakes; each property is shown to fail when one of them is put in.

## 4. What the runs check

| Run | Instance | States | Shows |
|---|---|---|---|
| `core` | 324 programs of 12 instructions with jumps between boot memory and SDRAM; 2 cache lines of 2 words; all bus timings | 198 100 | `OneResponder`, `ResponseAwaited`, `WriteHandover`, `RefillInStep`, `FetchCorrect`, `RequestsStable`, refinement of NEMU (`ImplementsNemu`) |
| `core_data_fault` | loads and stores that may be answered with an error, loops over every kind of access | 44 086 | each failing access is a precise trap (`ImplementsNemu`); the core never hangs (`Progress`) |
| `core_fetch_fault` | the same with failing fetches | | **violated**: 5.1 |
| `perf` | 32 cycles, all timings | 164 784 | the printed consistency checks; stage, latency and miss counters account for every cycle (`TimeAccounted`) |
| `monitor` | CONFIG_WATCHPOINT on as by default, 2 watchpoints, 3 expressions of which one is invalid and one reads a device, debugger or batch mode | 335 298 | the pool's lists (`PoolIntact`) and old values (`WatchpointsCurrent`) under every order of commands and instructions; DiffTest (`DiffTestFaithful`) and the end of a program (`EndKept`) beside watchpoints and a debugger that reads devices; "si n" returns to the prompt and closing the window ends any program (`MonitorReturns`) |
| `monitor_end` | the same | | `EndIsFinal` **violated**: 5.3 |
| `devices` | audio: buffer of 3, callback of 2, plays of 1 and 3; execute in place: two flash words, arbitrary register accesses by software | 339 717 | the racing count stays in range, plays return, and without a race the bytes arrive in order; reads of the flash return its word (`XipReadsFlash`) and are answered (`XipAnswers`) |
| `kconfig` | 9 symbols with a tristate, a range that depends on it, a derived symbol, a choice and a select, in two versions of the Kconfig file; a run of any of 15 modes followed by defconfig, olddefconfig or syncconfig, two edits, one kill | 102 215 | a written configuration reads back as itself; cached values are current; header, `auto.conf` and `.config` agree after a sync; objects that make keeps were compiled with the header's values; a saved defconfig restores; `.config` survives a kill |
| `algorithms` | every macro with every choice of operands from the registers it uses; all 8-bit dividends and divisors for `W` = 4; copies at every offset; expression trees, with chains of `*`, `/` and unary operators; dependency graphs of 5 symbols with one or two mentions each, visited in three orders; traces of 5 accesses with each policy; texts of 5 atoms; two assignments, a text and every environment of two variables, set or not | 231 433 | each computes its reference definition; where the code differs from C or RV32I the definition says how, and TLC checks that it differs there only |
| `minirv_seqz` | seqz with s0 as its result | | **violated**: 5.2 |
| `env_deps` | the preprocessor's part of `algorithms` | | `EnvRemembered` **violated**: 5.4 |
| `platform` | one of twelve parts at a time, see below | 359 928 | `TransfersExact`, `ThreadsResume`, `DevicesFaithful`, `MemoryKept`, `SimFaithful`, `ProgramLoaded`, `DialogsFaithful`, `CallsReturn` |

`platform` composes the parts that do not share state, so that one run checks them all: three
requests to an SD card of 3 blocks, or to one without an image, with segments that fit, are too
short or end inside a word, and reads of EXT_CSD that stop half-way; two threads that yield, make a
system call or fault, one trap each; a key queue of 3 and 4 keys; a clock whose low half has 2
values; a 3 x 2 screen and rectangles that overlap, leave it or are empty; three keystrokes, a lone
escape among them, on two keyboards whose FIFOs hold three and two bytes; programs for each kind of
memory; up to two devices among six that overlap each other and the RAM; four programs, five
commands and wrong results of the core at any instruction; two calls to QEMU and two damaged
characters; and menus, lists, inputs and texts that fit the window or do not.  The SD card and the
link to QEMU get their constants in `MCPlatform`, the other parts in `Platform.cfg`, so that TLC
evaluates the ASSUMEs their proofs rest on. `TransfersExact` collects what is handed over in pieces:
the blocks of the card, the keys of the two keyboards, and calls to QEMU, which have their effect
once (with a damaged acknowledgement: in order and none left out).  `SimFaithful` says that DiffTest
stops exactly at the first wrong instruction it compares and that characters of stdin are received
as they were typed.

Why the bounds are enough.  Two lines of two words give hits, misses, evictions of each other and
refills that end in the middle of a program; two registers, one of them x0, tell a write from a
suppressed one.  Two watchpoints can trigger together, and each of the two is deleted as the first
or the last of either list; inner nodes are the proof's (`PoolAlwaysIntact`, a pool of any size).
An audio buffer of three that is asked for two and filled by one or three wraps at every offset;
four positions of the stream tell any two bytes in the buffer apart.  A key queue of three wraps as
well.  The longest key code has three bytes: FIFOs of three and two lose a part of one, between keys
or within.  Two flash words with swapped bytes show a wrong address, a stale word and a missing
swap.  Two threads are enough to be switched away and back.  Three requests show what the first
leaves behind for the second and third.  The Kconfig file has each construct once, and two runs with
an edit between them are a writer and a reader.  A window of three over five items has a top, a
middle and an end position.  The named bounds are `ValNum`, `MtimeHalf`, `NR_WP`, `SbufSize`,
`SeqNum`, `U32`, `MaxCycles`, `MaxRuns`, `MaxEdits`, `MaxKills`, `MaxCalls`, `MaxTraps`, `KeyBound`,
`MaxTime`, `TypedBound`, `Ps2Depth`, `UartDepth`, `WriteBound`, `MaxCommands`, `MaxChars`, `MaxOps`,
`MaxPackets`, `MaxFaults` and `MaxResizes`; `Noise` is what a character may change to, and `Runs`
how long a run of equal characters QEMU's answer compresses.

Fairness.  `NpcCore`: the clock runs, and an SoC that could accept or answer does so eventually,
which ysyxSoC's controllers do after a bounded number of cycles. `NemuMonitor`: the loop has no
blocking call, and time passes, so that the rate limit of `device_update` lets it poll again and
again.  `NemuAudio` (run with `XipFlash` in `MCDevices`): the emulator and SDL's thread are
scheduled, and SDL calls back while the device is open. `XipFlash`: the clock runs and a transfer
ends after as many bits as it has. `MCPlatform`: the processor that runs the SD driver, a trap
handler or a loader goes on. No fairness is assumed of users, guest programs or requests. Deadlock
is checked where a system never stops by itself; ended programs and sessions stutter explicitly, and
`kconfig`, `algorithms` and `platform` may stop.

## 5. Where code and comments disagree

1. `core_fetch_fault`.  A fetch answered with an error sets pc to `mtvec`, as the
   comment at `ysyx_26060181.v:368` says, but the fetch goes on: the FSM stays in
   `IF_RSP`, the refill completes, and the word of the failed beats is executed with
   pc = mtvec.
2. `minirv_seqz`.  The macro saves s0, computes into rd and restores s0, so with
   rd = s0 the result is lost, although "set if 0" (`inst-replace.h:255`).
3. `monitor_end`.  "Program execution has ended. To restart the program, exit NEMU and run
   again." (`nemu/src/cpu/cpu-exec.c:146`).  But with `CONFIG_WATCHPOINT`, which is y by default
   (`nemu/Kconfig:230`), a watchpoint that changes at the instruction that ends the program, or that the
   window is closed at, writes STOP over END, ABORT or QUIT (`cpu-exec.c:75`): the program can be
   continued, and a DiffTest mismatch is forgotten.  `EndKept` says that this is the only way.
4. `env_deps`.  "We need to remember all referenced environment variables"
   (`nemu/tools/kconfig/preprocess.c:82`), but one that is not set when it is asked for is not remembered
   (`preprocess.c:78`): set later, it changes what the Kconfig files expand to and no run of
   kconfig is triggered.  `DepsTracked` says that this is the only way.

Observations without a run of their own; where a run would meet one, the property states it or the
run excludes it, by the condition named.

NPC and SoC:
- After a failed fetch `access_fault_cause` is decoded from the previous instruction in
  `inst_reg`: after a load it is 5, not 1.
- The SPI master or-s bit 0 of CTRL with its old value (`spi_top.v:218`), which is bit 0 of
  the transfer length: after software has used an odd length, the flash's 64-bit
  transfer has 65 bits (`EvenLengths`).  A flash access while software's own transfer is in
  progress returns another word or waits for ever (`SoftwareWaits`).
- DiffTest is compiled out at this commit; in a build with it, examining memory outside
  SRAM and MROM sets the skip flag, so that the next instruction goes uncompared, and
  examining SRAM shows an array of the simulator that nothing writes.
- A non-blocking stdin makes `fgets` fail at the debugger's prompt and ends the session.

NEMU:
- `free_wp` asserts `prev->next != wp` right after searching for the node with
  `prev->next == wp` (`watchpoint.c:77`): with assertions compiled in, deleting a watchpoint
  that is not the newest one ends NEMU.  `monitor` sets `NDEBUG`.
- A debugger command that reads a device register (`p`, `x`) sets DiffTest's skip flag, so that the next
  instruction is not compared although every one should be (`dut.c:85`); `DiffTestFaithful` says that
  it is no more than the next.
- A chain of `*` and `/` is grouped from the right (`expr.c:225`), so `8 / 2 * 2` is 2; of several unary
  operators in a row only the last is applied, so `- -1` is -1.  `EvalExact` states both, as
  the value of a regrouped tree; the expressions `gen-expr` generates have neither.
- The audio count loses an update when two read-modify-writes overlap: samples are
  repeated or dropped, but the count stays in range.
- An access is checked by its first byte, and a new device's ends only against the ends of
  others and the RAM: accesses and maps that straddle a border are not in `McAccesses`.
- The SD card: `read_ext_csd` stays set when a read of EXT_CSD is cut short, and the next read begins
  with what is left of it; without an image reads and writes succeed and move nothing
  (`TransfersExact` states both); the driver's debug output reads a register the card panics at.
- AM's driver for NEMU writes what leaves the screen to other rows or beyond the frame buffer; programs draw
  rectangles inside the screen or empty ones, which only synchronise (`Inside`).
- The frame of AM's `trap.S` for NEMU is one word smaller than `struct Context`.

AM on ysyxSoC and klib:
- A lone ESC makes the driver take the next characters for an escape sequence, a byte that finds the
  PS/2 FIFO full is dropped, and one that finds the UART's full is written over the oldest.  Keys
  can then be lost or wrong until the driver has read everything and expects no more, which
  `KeysReported` says and `KeysRecovered` bounds: one PS/2 key or two terminal keys later.
- A PS/2 code without a key is reported as a press of no key.
- `strncmp` compares one byte more than it is asked to when all of them are equal, and `atoi` of a
  negative number is 0: `KlibCorrect` states these as what the functions do, and C's results
  otherwise.  `sprintf` knows `%d`, `%s` and `%%`.
- The assertion on a NULL context and the test for a registered handler in `__am_irq_handle` are left out:
  the programs that trap have registered one.

kconfig and fixdep:
- A number out of range that is reset while `.config` is read leaves what depends on it
  valid, so that what is then written may read back differently: the properties except such
  a process (`reset`).
- A sync killed between its two renames leaves a new header beside an old `auto.conf`: make,
  run then, keeps objects compiled with the old values (`BuildAfterKill = FALSE`).
- The verdict of `sym_check_deps` on mixed cycles through choices depends on the order of
  visits; `WalkCorrect` states what holds for each order.
- `variable_add` frees the old value before it expands a text that may refer to it.
- fixdep strips a trailing `_MODULE`: a symbol whose own name ends so is watched under the shorter name,
  and `DepsTracked` reads it so.

lxdialog:
- `first_item` is only set when the menu is scrolled at opening (`menubox.c:239-253`): after
  the terminal has grown, or a second resize, other rows are drawn than acted on.
  `McResized` only shrinks, `MaxResizes` is 1; the theorem takes this as the hypothesis
  `TerminalShrinks`, and is false without it.
- After a resize the first button is highlighted and the old one is still chosen (menu, list and
  input alike); a text scrolls up by the four lines its frame takes.
- A text that does not end in a newline counts one line too many at its end: Up does not
  move there.  The texts of the run end in one.
- The initial value of an input is copied without looking at `MAX_LEN`.

qemu-diff:
- There is no time-out: a lost `$` or `+` hangs the client.  A damaged `+` makes it send the packet again,
  which QEMU obeys twice; the commands after it read the acknowledgement of the one before.  A
  damaged `$` or `#` may swallow a packet, and two damaged characters may keep its sum.
  `CallsExact` states exactly-once for damage to bodies and checksums, and the order of
  commands for all damage; `Garble` changes one character of a message.  `difftest_regcpy`
  ignores the answer.

## 6. What is proved

The proofs hold for every value of the constants that satisfies the ASSUMEs of the
modules.

- `NpcCore_proofs!BusInvariant`: `TypeOK /\ BusInv` is inductive.  `BusInv` says, for
  each state of the core's FSM, where the one outstanding transaction is: which side
  the arbiter has granted, which beat of which line the slave and the cache are at,
  which halves of a store have been handed over.  Types alone are not inductive
  (a fill leaves its line unless the beat counters agree) and neither are
  `OneResponder`, `ResponseAwaited`, `WriteHandover` or `RefillInStep`, which follow from it
  (`OneResponderAlways`, `ResponsesAwaited`, `StoresHandedOverOnce`, `RefillAlwaysInStep`, `TypeCorrect`).
  One lemma per FSM state (`StepIfReq` ... `StepStoreResponse`); the address arithmetic
  they need is at the start of the module.  `RequestsAlwaysStable`, an action property,
  follows from the same invariant.  Assumed: `NpcParams`' and `NpcCore`'s ASSUMEs
  (line size and line count are positive, `Val` is a whole number of lines and holds
  the cause numbers, no address tag is both cacheable and CLINT's, `Decode` maps every
  word to an instruction, `BitOr` stays in `Val` and has 0 as its neutral element,
  register 0 exists, the reset values and the programs are typed and the reset
  instruction is an ALU one).
- `NpcIsa_proofs!FetchAlwaysCorrect`: what the core executes is what memory holds at pc,
  from `DataInvariant`.  `DataInv` says that valid lines, except the words of the line being
  refilled that have not arrived, agree with memory, and so does the word the slave
  or the cache is about to hand over.  The hypothesis `CodeDiscipline` is what the
  design leaves to software and the SoC: no store to a line the cache holds (there is no
  fence.i), no code in the CLINT, no failing fetch (5.1).
- `NpcIsa_proofs!CoreImplementsNemu`: every clock edge is a step of `NemuIsa` or a
  stutter.  One lemma per kind of commit; `IsaInvariant` adds that the instruction waiting
  for memory is still the one at pc, that x0 reads as 0 and that an error answer is
  about an address that may fail.  The second hypothesis, `KnownCode`, excludes
  instructions NEMU panics on.  Both hypotheses hold throughout the runs
  `core` and `core_data_fault`, as TLC confirms when they are added to the cfg
  as invariants, so programs with jumps, loads, stores, CSR accesses and traps satisfy them.
- `NpcPerf_proofs!PerfInvariant`: the counters differ, in any cycle, by exactly what the
  stage of the instruction in flight explains.  The printed checks only hold after a
  commit and are not inductive; `ConsistencyChecksPass` and `TimeAlwaysAccounted`
  follow.  No bound on the number of cycles is used.
- `NemuMonitor_proofs!DiffTestSound` and `EndFinal`: with watchpoints or without, whatever devices the
  debugger's expressions read.  An instruction that goes wrong aborts the run, unless it or
  the debugger has touched a device since the check before or a watchpoint changes at it; a
  request to skip does not outlive the next check; and only such a watchpoint takes an end
  back.  History variables (`touched`, `peeked`, `overruled`) name these exceptions; no action
  reads them.  The invariant `DiffInv` says which values `nstate` and the skip flag have at
  each point of the loop.
- `NemuMonitor_proofs!PoolAlwaysIntact` and `WatchpointsAlwaysCurrent`: for a pool of any
  size, with assertions or without.  `WatchInv` names the two lists as injective sequences
  of nodes that partition the pool, linked by `next`; the recursive walks of `WpPool` are then
  shown to visit exactly those sequences, by taking a least position at which they
  would differ.
- `Platform_proofs!CountAlwaysInRange`: `CountInv` is inductive with the types.  A
  thread's loaded copy of the count bounds what the other may have done since: the
  guest only adds, the callback only subtracts, so a lost update errs on the safe side.
- `Platform_proofs!AlwaysPlayedInOrder`: as long as no two updates have overlapped, the count is
  what has been written and not yet played (`OrderInv`), and the buffer holds those bytes of
  the stream from the callback's position on.
- `Platform_proofs!DevicesAlwaysFaithful`, three invariants side by side.  Keys (`KeyInv`):
  the slots from `f` up to `r` hold what was sent and not yet polled, in order.  Clock (`RtcInv`):
  the halves read so far are those of a time between the start of the read and now, and
  uptimes never decrease.  Screen (`VgaInv`): the first `n` places of the rectangle in row order have its
  colour, the others what they had.  Assumed (`DeviceAssumption`): sizes are positive.
- `Platform_proofs!ThreadsAlwaysResume`: `CteInv` says that the memory of a suspended thread is as
  its trap left it, below and above the saved context; that is inductive because stack
  pointers stay within stacks that are disjoint.  Assumed (`CteAssumption`): a stack holds a
  context, and the frame of `trap.S` is the context's size or, as for NEMU, one word less.
- `Platform_proofs!MemoryAlwaysKept`: `MemInv` says that the devices mapped so far are apart in the
  program's addresses and in the array they share, of which the rest is still 0, and that each
  byte of a memory or a device is the one stored last.  The check of overlaps in
  `add_mmio_map` is what keeps it inductive.  Assumed (`MemAssumption`): the memories are apart,
  devices do not overlap a ROM, and no access straddles the border of a memory or a device,
  which the code does not check.
- `Platform_proofs!ProgramAlwaysLoaded`: `BootInv` ties the loader's three pointers to how much is
  copied, whichever of words and bytes a turn copies; nothing outside the program's areas is
  written.  Assumed (`BootAssumption`): what the linker scripts arrange, that what is copied
  is in the flash, goes to RAM, and the three areas do not overlap.
- `Platform_proofs!KeysAlwaysReported`: for FIFOs of any depth, bytes that find them full and
  lone escapes included.  While a keyboard is not muddled, what waits in its FIFO and on its wire is
  the codes of the keys that were typed and not yet reported, one after the other, of the first
  perhaps only its last bytes; the decoder's state is what the bytes already gone of that one say
  (`InpInv`).  The history starts anew when the driver has read everything and expects no more.
  `Stream` says where in the queue each code ends, since a sum over a sequence would
  need induction.  Below it, from the driver's tables: no two PS/2 keys have the same code, none
  contains a prefix byte, and each code is read back as its key.  Assumed (`TypedAssumption`): keys
  are ones the keyboards have, and depths are positive.  How soon a muddled keyboard recovers
  (`KeysRecovered`) is left to TLC.
- `NpcSim_proofs!SimulatorAlwaysFaithful`: two invariants side by side.  `SimInv` says that the
  reference has the program the core has, that the core stays inside it (each image
  ends in an instruction that stops), and that core and reference agree whenever neither a
  mistake nor a debugger's read has come between.  `UartInv` relates the receiver's counter to
  the sender's ticks, and the shift register and the bits sampled so far to the character being sent, so
  that each bit is sampled while it is on the line.  Assumed (`SimAssumption`): sizes are positive,
  a bit lasts at least one tick, characters are bytes, and an image is empty or contains
  an instruction that stops.
- `XipFlash_proofs!XipSound`: under `SoftwareWaits` and `EvenLengths` a flash access
  returns the flash's word.  `XipInv` adds that the state machine owns the port, what
  it has already written, and that only its own transfer can raise the interrupt it
  waits for.
- `Lxdialog_proofs!DialogsAlwaysFaithful`: `DlgInv` has one case per dialog, and no key leaves its
  case but by choosing something.  *Menus and lists*: the rows are the items from
  `scroll` on with `choice` highlighted (`Window`), which scrolling by one line and drawing the line
  that appears preserves.  `FirstOnTop` says what an opened menu was scrolled to, so that a
  resized one is drawn from the same item.  *Inputs*: the array holds the characters
  typed, then NULs, and the field is the part of it around the cursor, also while
  Backspace and a key in the middle move the rest by one.  *Texts*: the page pointer stands
  behind the page that is shown, at the start of a line, and `back_lines` and `get_lines` move it by
  a number of lines.  The first step back from the end only clears
  `end_reached`.  Assumed: `LxAssumption` (sizes are positive, the field is no wider than the array,
  initial values fit it, texts end in a newline) and `TerminalShrinks`; without either 5's
  notes on lxdialog apply.

Only model-checked: liveness (`Progress`, `MonitorReturns`, `PlayReturns`, `XipAnswers`,
`CallsReturn`), which needs fairness and ENABLED; the SD card, the link to QEMU and `KeysRecovered` in
`TransfersExact`, whose other part, `KeysReported`, is proved; everything the runs `kconfig` and
`algorithms` check.  These last are statements about what recursive operators compute
(`EvalExact`, `KlibCorrect`, `MinirvCorrect`, the properties of kconfig): the provers have no
induction rule for them.  Where a recursive function had to be
reasoned about, in the watchpoint lists, the induction is replaced by a least counterexample.

## 7. What is not modelled

- The arithmetic of the ALU, byte lanes of loads and stores, csrrc, the immediate CSR
  forms, mcycle and mvendorid: combinational, and reached by instruction tests.
- `difftest_skip_dut` has no caller for riscv32; attach and detach are interactive.
- The callback's test of the audio count is one load, as the optimizing build compiles
  it; a build that loads it twice would have one more race.
- Lexers and parsers (the debugger's, kconfig's), output, options, host devices.
- The serial bits of an SPI transfer: a transfer is one step of unbounded length.
- In kconfig: `SYMBOL_CHANGED`, `defconfig_list`, `KCONFIG_OVERWRITECONFIG`, help, the printing of
  expressions, menuconfig's single-menu mode, the yes/no box.
- That calls over GDB's protocol return: the client waits for the stub without a time-out,
  and the property would be one about the connection.
- The serial receiver of the PS/2 keyboard, GPIO, VGA controller, PSRAM and SDRAM models of
  ysyxSoC: Verilog that is mostly shifting and counting; planned.
- Vendored and generated code (of the UART 16550 all but the receiver, its FIFO and the registers a
  start-up writes; libgcc; of ysyxSoCFull all but what `SocBus` abstracts), adapters to KVM and Spike, and
  the framework's other instruction sets and platforms.

PROJECT.json lists every component with its status, and every hazard with the
properties that cover it.

----------------------------- MODULE NemuDevices ----------------------------
(***************************************************************************)
(* The devices of NEMU a program polls, with the code of the Abstract      *)
(* Machine that drives them: the keyboard's queue (keyboard.c, input.c),   *)
(* the clock (timer.c and the three copies of the loop that reads it) and  *)
(* the screen (vga.c, and the two gpu drivers).  Each is a machine of its  *)
(* own.                                                                    *)
(***************************************************************************)
EXTENDS Integers, Sequences, SequencesExt

CONSTANTS
    KEY_QUEUE_LEN,   \* slots of the keyboard's queue
    Keys, Mapped,    \* scan codes, and those keymap knows
    KeyBound,        \* key events in a behaviour
    Low,             \* 2^32: values of the low half of the time
    MaxTime,         \* bound on the time
    ScreenW, ScreenH,
    Draws            \* what is drawn: [x, y, w, h, color, sync]

VARIABLES
    key,     \* the keyboard
    rtc,     \* the clock
    vga      \* the screen

deviceVars == <<key, rtc, vga>>

ASSUME DeviceAssumption ==
    /\ KEY_QUEUE_LEN \in Nat \ {0} /\ Low \in Nat \ {0}
    /\ KeyBound \in Nat /\ MaxTime \in Nat
    /\ ScreenW \in Nat \ {0} /\ ScreenH \in Nat \ {0}
    /\ \A d \in Draws : d.x \in Int /\ d.y \in Int /\ d.w \in Nat /\ d.h \in Nat /\ d.sync \in BOOLEAN

(***************************************************************************)
(* The keyboard.  A queue entry is <<key, down>>; "none" is read from an   *)
(* empty queue.                                                            *)
(***************************************************************************)
init_i8042 == [q |-> [s \in 0..KEY_QUEUE_LEN - 1 |-> <<"none", FALSE>>], f |-> 0, r |-> 0,
               running |-> TRUE, abort |-> FALSE, sent |-> <<>>, got |-> <<>>]

\* Mutation: the index is advanced before the key is put down.
key_enqueueLate(k, code) ==
    LET next == (k.r + 1) % KEY_QUEUE_LEN
    IN [k EXCEPT !.q[next] = code, !.r = next, !.abort = (next = k.f), !.sent = Append(@, code)]

key_enqueue(k, code) ==
    LET next == (k.r + 1) % KEY_QUEUE_LEN
    IN [k EXCEPT !.q[k.r] = code, !.r = next, !.abort = (next = k.f), !.sent = Append(@, code)]

\* device_update hands over an event of the window.  It is dropped when the
\* program does not run or the key is not in the map.
send_key(code, is_keydown) ==
    /\ ~key.abort /\ Len(key.sent) < KeyBound
    /\ key.running /\ code \in Mapped
    /\ key' = key_enqueue(key, <<code, is_keydown>>)
    /\ UNCHANGED <<rtc, vga>>

\* The debugger stops the program and lets it go on.
StopOrContinue == ~key.abort /\ key' = [key EXCEPT !.running = ~@] /\ UNCHANGED <<rtc, vga>>

\* The program polls: i8042_data_io_handler takes an entry out of the queue
\* and __am_input_keybrd splits it.
__am_input_keybrd ==
    /\ key.running /\ ~key.abort
    /\ key' = IF key.f = key.r THEN key
              ELSE [key EXCEPT !.f = (@ + 1) % KEY_QUEUE_LEN, !.got = Append(@, key.q[key.f])]
    /\ UNCHANGED <<rtc, vga>>

keyNext ==
    \/ \E k \in Keys, down \in BOOLEAN : send_key(k, down)
    \/ StopOrContinue
    \/ __am_input_keybrd

\* The program gets the events in order, none lost or twice, until the queue
\* overflows, which ends NEMU.
KeysInOrder ==
    /\ IsPrefix(key.got, key.sent)
    /\ ~key.abort => Len(key.sent) - Len(key.got) = (key.r - key.f) % KEY_QUEUE_LEN

\* Why: the slots from f on hold the events still to come, in their order.
Pending == Len(key.sent) - Len(key.got)

keyTypeOK ==
    LET entry == (Keys \cup {"none"}) \X BOOLEAN
        slot == 0..KEY_QUEUE_LEN - 1
    IN key \in [q : [slot -> entry], f : slot, r : slot, running : BOOLEAN, abort : BOOLEAN,
                sent : Seq(entry), got : Seq(entry)]

KeyInv ==
    /\ Pending >= 0
    /\ \A i \in 1..Len(key.got) : key.got[i] = key.sent[i]
    /\ ~key.abort =>
           /\ Pending < KEY_QUEUE_LEN
           /\ key.r = (key.f + Pending) % KEY_QUEUE_LEN
           /\ \A j \in 0..Pending - 1 :
                  key.q[(key.f + j) % KEY_QUEUE_LEN] = key.sent[Len(key.got) + j + 1]

(***************************************************************************)
(* The clock.  NEMU's registers hold the time of the last read of the high *)
(* half (latched); those of the CLINT are the time itself.                 *)
(***************************************************************************)
init_timer == {[latched |-> l, now |-> 0, base |-> 0, pc |-> IF l THEN "init" ELSE "idle", hi |-> 0, lo |-> 0, began |-> 0,
                boot_time |-> 0, uptime |-> -1, earlier |-> -1] : l \in BOOLEAN}

Tick == rtc.now < MaxTime /\ rtc' = [rtc EXCEPT !.now = @ + 1] /\ UNCHANGED <<key, vga>>

rtc_io_handler(r, offset) == IF ~r.latched \/ offset = 4 THEN [r EXCEPT !.base = r.now] ELSE r
inl(r, offset) == LET h == rtc_io_handler(r, offset)
                  IN [rtc |-> h, v |-> IF offset = 4 THEN h.base \div Low ELSE h.base % Low]

\* __am_timer_init reads NEMU's time once, every later read is an uptime; for
\* the CLINT it does nothing.
StartRead ==
    /\ rtc.pc \in {"init", "idle"}
    /\ rtc' = [rtc EXCEPT !.pc = "hi", !.began = rtc.now, !.boot_time = IF rtc.pc = "init" THEN -1 ELSE @]
    /\ UNCHANGED <<key, vga>>

ReadHi ==
    /\ rtc.pc = "hi"
    /\ LET r == inl(rtc, 4) IN rtc' = [r.rtc EXCEPT !.hi = r.v, !.pc = "lo"]
    /\ UNCHANGED <<key, vga>>

ReadLo ==
    /\ rtc.pc = "lo"
    /\ LET r == inl(rtc, 0) IN rtc' = [r.rtc EXCEPT !.lo = r.v, !.pc = "check"]
    /\ UNCHANGED <<key, vga>>

\* The two copies for the CLINT keep no boot_time.
Returned(r) ==
    LET t == r.hi * Low + r.lo IN
    IF r.boot_time = -1 THEN [r EXCEPT !.pc = "idle", !.boot_time = t]
    ELSE [r EXCEPT !.pc = "idle", !.earlier = r.uptime, !.uptime = t - r.boot_time]

ReadCheck ==
    /\ rtc.pc = "check"
    /\ LET r == inl(rtc, 4) IN rtc' = IF r.v = rtc.hi THEN Returned(r.rtc) ELSE [r.rtc EXCEPT !.pc = "hi"]
    /\ UNCHANGED <<key, vga>>

rtcNext == Tick \/ StartRead \/ ReadHi \/ ReadLo \/ ReadCheck

\* Read in halves while it runs, the time is one between the start and the
\* end of the read, and the uptime never goes back.
TimeNotTorn ==
    rtc.pc = "idle" /\ rtc.uptime # -1 =>
        /\ rtc.uptime + rtc.boot_time \in rtc.began..rtc.now
        /\ rtc.earlier <= rtc.uptime

\* Why: during a read the half that was read first is not that of a later
\* time, and the registers hold a time since the read began.
Reading == {"hi", "lo", "check"}

rtcTypeOK ==
    rtc \in [latched : BOOLEAN, now : Nat, base : Nat, pc : {"init", "idle"} \cup Reading,
             hi : Nat, lo : Nat, began : Nat, boot_time : Int, uptime : Int, earlier : Int]

RtcInv ==
    /\ rtc.began <= rtc.now
    /\ rtc.pc \in {"lo", "check"} => rtc.began <= rtc.base /\ rtc.base <= rtc.now
                                     /\ rtc.hi <= rtc.base \div Low
    /\ rtc.pc = "check" => rtc.lo = rtc.base % Low
    /\ rtc.boot_time = -1 => rtc.pc \in Reading /\ rtc.uptime = -1
    /\ rtc.boot_time # -1 => /\ rtc.boot_time >= 0
                             /\ rtc.boot_time <= IF rtc.pc \in Reading THEN rtc.began ELSE rtc.now
    /\ rtc.pc = "init" => rtc.uptime = -1
    /\ rtc.uptime # -1 =>
          /\ rtc.uptime >= 0
          /\ rtc.uptime + rtc.boot_time <= IF rtc.pc \in Reading THEN rtc.began ELSE rtc.now
          /\ rtc.pc = "idle" => rtc.began <= rtc.uptime + rtc.boot_time
    /\ rtc.earlier <= rtc.uptime

(***************************************************************************)
(* The screen.  A pixel drawn is <<color, its place in the rectangle>>.    *)
(* The driver of ysyxSoC clips, and has no register to synchronise with:   *)
(* what it writes is on the screen.  NEMU's driver is used with rectangles *)
(* inside the screen, or with an empty one, only to synchronise.           *)
(***************************************************************************)
Black == <<"black", 0>>
Pixels == 0..ScreenW * ScreenH - 1
OnScreen(x, y) == x \in 0..ScreenW - 1 /\ y \in 0..ScreenH - 1
Inside(d) == d.w = 0 \/ d.h = 0 \/ (OnScreen(d.x, d.y) /\ OnScreen(d.x + d.w - 1, d.y + d.h - 1))
NoDraw == [w |-> 0, h |-> 0]

init_vga == {[clips |-> c, fb |-> [p \in Pixels |-> Black], screen |-> [p \in Pixels |-> Black], sync |-> 0,
              ctl |-> NoDraw, at |-> 0, before |-> [p \in Pixels |-> Black], fresh |-> TRUE, stray |-> FALSE] : c \in BOOLEAN}

__am_gpu_fbdraw(d) ==
    /\ vga.ctl = NoDraw
    /\ vga.clips \/ Inside(d)
    /\ vga' = [vga EXCEPT !.ctl = d, !.at = 0, !.before = vga.fb]
    /\ UNCHANGED <<key, rtc>>

\* One turn of the two loops.
DrawPixel ==
    /\ vga.ctl # NoDraw /\ vga.at < vga.ctl.w * vga.ctl.h
    /\ LET d == vga.ctl
           x == d.x + (vga.at % d.w)
           y == d.y + (vga.at \div d.w)
           p == y * ScreenW + x
       IN vga' = IF vga.clips /\ ~OnScreen(x, y) THEN [vga EXCEPT !.at = @ + 1]
                 ELSE IF p \notin Pixels THEN [vga EXCEPT !.at = @ + 1, !.stray = TRUE]
                 ELSE [vga EXCEPT !.at = @ + 1, !.fb[p] = <<d.color, vga.at>>, !.fresh = FALSE]
    /\ UNCHANGED <<key, rtc>>

\* fresh: nothing was drawn after the last request to show the frame.
DrawEnd ==
    /\ vga.ctl # NoDraw /\ vga.at >= vga.ctl.w * vga.ctl.h
    /\ vga' = [vga EXCEPT !.ctl = NoDraw, !.sync = IF vga.ctl.sync THEN 1 ELSE @, !.fresh = @ \/ vga.ctl.sync]
    /\ UNCHANGED <<key, rtc>>

\* device_update calls it, between any two instructions of the program.
vga_update_screen ==
    /\ vga.sync # 0
    /\ vga' = [vga EXCEPT !.screen = vga.fb, !.sync = 0]
    /\ UNCHANGED <<key, rtc>>

vgaNext ==
    \/ \E d \in Draws : __am_gpu_fbdraw(d)
    \/ DrawPixel
    \/ DrawEnd
    \/ vga_update_screen

\* What a rectangle leaves at pixel p.
Drawn(d, p, old) ==
    LET x == (p % ScreenW) - d.x
        y == (p \div ScreenW) - d.y
    IN IF x \in 0..d.w - 1 /\ y \in 0..d.h - 1 THEN <<d.color, y * d.w + x>> ELSE old

\* A rectangle changes the pixels it covers and no others, and a frame that
\* is to be shown is shown whole unless drawing has gone on.
FramesWhole ==
    /\ ~vga.stray
    /\ vga.ctl # NoDraw /\ vga.at = vga.ctl.w * vga.ctl.h =>
           \A p \in Pixels : vga.fb[p] = Drawn(vga.ctl, p, vga.before[p])
    /\ vga.fresh /\ vga.sync = 0 => vga.screen = vga.fb

\* Why: after n turns of the loops the first n places of the rectangle are
\* drawn, those of them that are pixels.
DrawnFirst(d, n, p, old) ==
    LET x == (p % ScreenW) - d.x
        y == (p \div ScreenW) - d.y
    IN IF x \in 0..d.w - 1 /\ y \in 0..d.h - 1 /\ y * d.w + x < n THEN <<d.color, y * d.w + x>> ELSE old

Picture == [Pixels -> {Black} \cup ({d.color : d \in Draws} \X Nat)]

vgaTypeOK ==
    vga \in [clips : BOOLEAN, fb : Picture, screen : Picture, sync : {0, 1}, ctl : Draws \cup {NoDraw},
             at : Nat, before : Picture, fresh : BOOLEAN, stray : BOOLEAN]

VgaInv ==
    /\ ~vga.stray
    /\ vga.ctl # NoDraw =>
           /\ vga.clips \/ Inside(vga.ctl)
           /\ vga.at <= vga.ctl.w * vga.ctl.h
           /\ \A p \in Pixels : vga.fb[p] = DrawnFirst(vga.ctl, vga.at, p, vga.before[p])
    /\ vga.fresh /\ vga.sync = 0 => vga.screen = vga.fb

(***************************************************************************)
(* The three together, each at its own pace.                               *)
(***************************************************************************)
devicesInit == key = init_i8042 /\ rtc \in init_timer /\ vga \in init_vga
devicesSpec == devicesInit /\ [][keyNext \/ rtcNext \/ vgaNext]_deviceVars

\* Keys, times and pixels arrive as they were sent, for every interleaving
\* of a device with the code that polls it.
DevicesFaithful == KeysInOrder /\ TimeNotTorn /\ FramesWhole
=============================================================================

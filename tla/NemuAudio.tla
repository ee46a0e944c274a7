----------------------------- MODULE NemuAudio -----------------------------
(***************************************************************************)
(* Audio playback: the guest's driver (abstract-machine platform/nemu/ioe/ *)
(* audio.c) and the callback of NEMU's audio device (nemu/src/device/      *)
(* audio.c), which SDL runs in a thread of its own.  They share the stream *)
(* buffer and the register that counts the bytes in it; there is no lock.  *)
(*                                                                         *)
(* Every access to the shared memory is a step.  The callback's            *)
(* "count -= nread" is a load and a store (the compiled instruction is not *)
(* a locked one); its test of the count is one load, as the optimizing     *)
(* build makes it.  A byte is its number in the guest's stream, modulo     *)
(* SeqNum.                                                                 *)
(***************************************************************************)
EXTENDS Integers

CONSTANTS
    SbufSize,     \* CONFIG_SB_SIZE, the value of reg_sbuf_size
    StreamLen,    \* len: how many bytes SDL asks for
    PlayLens,     \* how many bytes the guest plays at once
    SeqNum,       \* stream positions are counted modulo this bound
    U32           \* 2^32

ASSUME AudioAssumption ==
    /\ SbufSize \in Nat \ {0} /\ StreamLen \in Nat \ {0}
    /\ PlayLens \subseteq Nat \ {0}
    /\ SeqNum \in Nat /\ SeqNum > SbufSize
    /\ U32 \in Nat /\ U32 > SbufSize

VARIABLES
    sbuf, count,                  \* shared: the buffer, reg_count
    tail, g_pc, len, g_i, g_cur,  \* guest: __am_audio_play
    head, c_pc, nread, c_i, c_cur,\* SDL thread: audio_play_callback
    sent, played,                 \* history: stream positions
    raced                         \* history: have two updates of the count overlapped?

guestVars == <<tail, g_pc, len, g_i, g_cur, sent>>
callbackVars == <<head, c_pc, nread, c_i, c_cur, played>>
audioVars == <<sbuf, count, guestVars, callbackVars, raced>>

Slot == 0 .. SbufSize - 1
StreamByte == 0 .. SeqNum - 1

audioTypeOK ==
    /\ sbuf \in [Slot -> StreamByte] /\ count \in Nat
    /\ tail \in Slot /\ head \in Slot
    /\ g_pc \in {"idle", "wait", "copy", "read", "write"}
    /\ c_pc \in {"idle", "copy", "load", "store"}
    /\ len \in Nat /\ g_i \in Nat /\ g_cur \in Nat
    /\ nread \in Nat /\ c_i \in Nat /\ c_cur \in Nat
    /\ sent \in StreamByte /\ played \in StreamByte /\ raced \in BOOLEAN

\* init_audio and __am_audio_init
audioInit ==
    /\ sbuf = [s \in Slot |-> 0] /\ count = 0
    /\ tail = 0 /\ g_pc = "idle" /\ len = 0 /\ g_i = 0 /\ g_cur = 0 /\ sent = 0
    /\ head = 0 /\ c_pc = "idle" /\ nread = 0 /\ c_i = 0 /\ c_cur = 0 /\ played = 0
    /\ raced = FALSE

(***************************************************************************)
(* The guest.                                                              *)
(***************************************************************************)
Play(n) ==
    /\ g_pc = "idle"
    /\ g_pc' = "wait" /\ len' = n
    /\ UNCHANGED <<sbuf, count, tail, g_i, g_cur, sent, callbackVars, raced>>

\* Mutation: the driver waits for room for one byte.
WaitForOne ==
    /\ g_pc = "wait"
    /\ g_pc' = IF count = SbufSize THEN "wait" ELSE "copy"
    /\ g_i' = 0
    /\ UNCHANGED <<sbuf, count, tail, len, g_cur, sent, callbackVars, raced>>

\* while (len > bufsize - count): unsigned arithmetic
Wait ==
    /\ g_pc = "wait"
    /\ g_pc' = IF len > (SbufSize - count) % U32 THEN "wait" ELSE "copy"
    /\ g_i' = 0
    /\ UNCHANGED <<sbuf, count, tail, len, g_cur, sent, callbackVars, raced>>

WriteByte ==
    /\ g_pc = "copy" /\ g_i < len
    /\ sbuf' = [sbuf EXCEPT ![tail] = sent]
    /\ tail' = (tail + 1) % SbufSize
    /\ g_i' = g_i + 1
    /\ sent' = (sent + 1) % SeqNum
    /\ UNCHANGED <<count, g_pc, len, g_cur, callbackVars, raced>>

CopyDone ==
    /\ g_pc = "copy" /\ g_i = len
    /\ g_pc' = "read"
    /\ UNCHANGED <<sbuf, count, tail, len, g_i, g_cur, sent, callbackVars, raced>>

ReadCount ==
    /\ g_pc = "read"
    /\ raced' = (raced \/ c_pc = "store")
    /\ g_cur' = count
    /\ g_pc' = "write"
    /\ UNCHANGED <<sbuf, count, tail, len, g_i, sent, callbackVars>>

WriteCount ==
    /\ g_pc = "write"
    /\ count' = (g_cur + len) % U32
    /\ g_pc' = "idle"
    /\ UNCHANGED <<sbuf, tail, len, g_i, g_cur, sent, callbackVars, raced>>

(***************************************************************************)
(* The callback.                                                           *)
(***************************************************************************)
Callback ==
    /\ c_pc = "idle"
    /\ nread' = IF count < StreamLen THEN count ELSE StreamLen
    /\ c_i' = 0
    /\ c_pc' = "copy"
    /\ UNCHANGED <<sbuf, count, head, c_cur, played, guestVars, raced>>

\* stream[i] = sbuf[head]
TakeByte ==
    /\ c_pc = "copy" /\ c_i < nread
    /\ head' = (head + 1) % SbufSize
    /\ c_i' = c_i + 1
    /\ played' = (played + 1) % SeqNum
    /\ UNCHANGED <<sbuf, count, c_pc, nread, c_cur, guestVars, raced>>

TakeDone ==
    /\ c_pc = "copy" /\ c_i = nread
    /\ c_pc' = "load"
    /\ UNCHANGED <<sbuf, count, head, nread, c_i, c_cur, played, guestVars, raced>>

LoadCount ==
    /\ c_pc = "load"
    /\ raced' = (raced \/ g_pc = "write")
    /\ c_cur' = count
    /\ c_pc' = "store"
    /\ UNCHANGED <<sbuf, count, head, nread, c_i, played, guestVars>>

\* Mutation: the count is reduced by what was asked for.
StoreCountLen ==
    /\ c_pc = "store"
    /\ count' = (c_cur - StreamLen) % U32
    /\ c_pc' = "idle"
    /\ UNCHANGED <<sbuf, head, nread, c_i, c_cur, played, guestVars, raced>>

\* Mutation: the count is not reduced.
StoreCountKeeps ==
    /\ c_pc = "store"
    /\ c_pc' = "idle"
    /\ UNCHANGED <<sbuf, count, head, nread, c_i, c_cur, played, guestVars, raced>>

\* The rest of the stream is filled with silence.
StoreCount ==
    /\ c_pc = "store"
    /\ count' = (c_cur - nread) % U32
    /\ c_pc' = "idle"
    /\ UNCHANGED <<sbuf, head, nread, c_i, c_cur, played, guestVars, raced>>

Guest == Wait \/ WriteByte \/ CopyDone \/ ReadCount \/ WriteCount
Sdl == Callback \/ TakeByte \/ TakeDone \/ LoadCount \/ StoreCount

audioNext == (\E n \in PlayLens : Play(n)) \/ Guest \/ Sdl

audioSpec == audioInit /\ [][audioNext]_audioVars

\* SDL calls the callback whenever the sound card needs data; the guest runs.
audioFairSpec == audioSpec /\ WF_audioVars(Guest) /\ WF_audioVars(Sdl)

-----------------------------------------------------------------------------

(***************************************************************************)
(* Whatever the two threads do, the count stays within the buffer: it does *)
(* not wrap below zero, where it would make the callback play for ever,    *)
(* nor above the size, where the guest would overrun the buffer.           *)
(***************************************************************************)
CountInRange == count <= SbufSize

(***************************************************************************)
(* The inductive invariant behind it: the count a thread has loaded, or    *)
(* has tested, bounds what the other one may have done to it since.        *)
(***************************************************************************)
CountInv ==
    /\ CountInRange
    /\ g_pc \in {"copy", "read"} => count + len <= SbufSize
    /\ g_pc = "write" => count <= g_cur /\ g_cur + len <= SbufSize
    /\ c_pc \in {"copy", "load"} => nread <= count
    /\ c_pc = "store" => nread <= c_cur /\ c_cur <= count

(***************************************************************************)
(* As long as no two updates of the count have overlapped, the sound card  *)
(* gets the guest's bytes in order, none lost and none twice.              *)
(***************************************************************************)
PlayedInOrder ==
    [][~raced /\ played' # played => sbuf[head] = played]_audioVars

\* The bytes written that the count does not show yet, those taken that it
\* still shows, and those that are in the buffer.
Written == CASE g_pc = "copy" -> g_i [] g_pc \in {"read", "write"} -> len [] OTHER -> 0
Taken == CASE c_pc = "copy" -> c_i [] c_pc \in {"load", "store"} -> nread [] OTHER -> 0
Present == count + Written - Taken

(***************************************************************************)
(* The inductive invariant behind it: unless two updates have overlapped,  *)
(* the buffer holds, from head to tail, what has been sent and not played, *)
(* and a count that has been loaded is still the count.                    *)
(***************************************************************************)
OrderInv ==
    /\ g_pc = "copy" => g_i <= len
    /\ c_pc = "copy" => c_i <= nread
    /\ ~raced =>
          /\ g_pc = "write" => g_cur = count /\ c_pc # "store"
          /\ c_pc = "store" => c_cur = count
          /\ tail = (head + Present) % SbufSize
          /\ sent = (played + Present) % SeqNum
          /\ \A j \in 0 .. Present - 1 :
                sbuf[(head + j) % SbufSize] = (played + j) % SeqNum

(***************************************************************************)
(* A play request that fits the buffer does not spin for ever, even when   *)
(* updates of the count are lost.                                          *)
(***************************************************************************)
PlayReturns == (g_pc = "wait" /\ len <= SbufSize) ~> (g_pc = "idle")

=============================================================================

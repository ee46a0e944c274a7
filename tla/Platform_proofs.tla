-------------------------- MODULE Platform_proofs ---------------------------
(***************************************************************************)
(* The devices and the memory of NEMU, and the Abstract Machine:           *)
(*   - the audio buffer, whose two threads update its count without a lock:*)
(*     the count stays in range, and the bytes are played in order;        *)
(*   - the keyboard, the clock and the screen, polled by a program;        *)
(*   - threads that trap, are switched away and go on;                     *)
(*   - bytes stored to memories and devices;                               *)
(*   - the loaders of a program on ysyxSoC, and its two keyboards.         *)
(* All of it for every size of a buffer, a queue, a screen, a stack and a  *)
(* memory.                                                                 *)
(***************************************************************************)
EXTENDS NemuAudio, NemuDevices, NemuMemory, SocAm, AmCte, WellFoundedInduction, TLAPS

(***************************************************************************)
(* The audio buffer.                                                       *)
(***************************************************************************)
IInv == audioTypeOK /\ CountInv

\* A value that fits 32 bits is not changed by the unsigned arithmetic.
LEMMA NoWrap ==
    ASSUME NEW x \in Nat, x <= SbufSize
    PROVE  x % U32 = x
BY AudioAssumption

\* The next slot is a slot, the next position a position.
LEMMA WrapType ==
    /\ \A s \in Slot : (s + 1) % SbufSize \in Slot
    /\ \A b \in StreamByte : (b + 1) % SeqNum \in StreamByte
BY AudioAssumption DEF Slot, StreamByte

\* The buffer is empty at first.
LEMMA InitIInv == audioInit => IInv
<1> SUFFICES ASSUME audioInit PROVE IInv
  OBVIOUS
<1>1. sbuf \in [Slot -> StreamByte] /\ tail \in Slot /\ head \in Slot /\ sent \in StreamByte /\ played \in StreamByte
  BY AudioAssumption DEF audioInit, Slot, StreamByte
<1>2. CountInv
  BY AudioAssumption DEF audioInit, CountInv, CountInRange
<1>3. QED
  BY <1>1, <1>2 DEF audioInit, IInv, audioTypeOK

(***************************************************************************)
(* A step of the guest: it waits for room, and its store adds to a count   *)
(* that can only have gone down since it was loaded.                       *)
(***************************************************************************)
LEMMA GuestPreserves ==
    ASSUME IInv, (\E n \in PlayLens : Play(n)) \/ Guest
    PROVE  IInv'
<1> USE AudioAssumption DEF IInv, audioTypeOK, CountInv, CountInRange, callbackVars
<1>1. CASE \E n \in PlayLens : Play(n)
  BY <1>1 DEF Play
<1>2. CASE Wait
  <2>1. (SbufSize - count) % U32 = SbufSize - count
    BY NoWrap
  <2>2. g_pc' = "copy" => count + len <= SbufSize
    BY <1>2, <2>1 DEF Wait
  <2>3. QED
    BY <1>2, <2>2 DEF Wait
<1>3. CASE WriteByte
  BY <1>3, WrapType DEF WriteByte
<1>4. CASE CopyDone
  BY <1>4 DEF CopyDone
<1>5. CASE ReadCount
  BY <1>5 DEF ReadCount
<1>6. CASE WriteCount
  <2>1. (g_cur + len) % U32 = g_cur + len
    BY <1>6, NoWrap DEF WriteCount
  <2>2. QED
    BY <1>6, <2>1 DEF WriteCount
<1>7. QED
  BY <1>1, <1>2, <1>3, <1>4, <1>5, <1>6 DEF Guest

(***************************************************************************)
(* A step of the callback: what it takes off is no more than it has seen,  *)
(* and the guest can only have added to that.                              *)
(***************************************************************************)
LEMMA SdlPreserves ==
    ASSUME IInv, Sdl
    PROVE  IInv'
<1> USE AudioAssumption DEF IInv, audioTypeOK, CountInv, CountInRange, guestVars
<1>1. CASE Callback
  BY <1>1 DEF Callback
<1>2. CASE TakeByte
  BY <1>2, WrapType DEF TakeByte
<1>3. CASE TakeDone
  BY <1>3 DEF TakeDone
<1>4. CASE LoadCount
  BY <1>4 DEF LoadCount
<1>5. CASE StoreCount
  <2>1. (c_cur - nread) % U32 = c_cur - nread
    BY <1>5, NoWrap DEF StoreCount
  <2>2. QED
    BY <1>5, <2>1 DEF StoreCount
<1>6. QED
  BY <1>1, <1>2, <1>3, <1>4, <1>5 DEF Sdl

(***************************************************************************)
(* Both hold at every step.                                                *)
(***************************************************************************)
LEMMA IInvHolds == audioSpec => []IInv
<1>1. IInv /\ [audioNext]_audioVars => IInv'
  <2>1. ASSUME IInv, UNCHANGED audioVars
        PROVE  IInv'
    BY <2>1 DEF IInv, audioTypeOK, CountInv, CountInRange, audioVars, guestVars, callbackVars
  <2>2. QED
    BY <2>1, GuestPreserves, SdlPreserves DEF audioNext
<1>2. QED
  BY <1>1, InitIInv, PTL DEF audioSpec

(***************************************************************************)
(* reg_count never leaves 0 .. CONFIG_SB_SIZE, however the unlocked updates*)
(* of the driver and of the callback interleave.                           *)
(***************************************************************************)
THEOREM CountAlwaysInRange == audioSpec => [](CountInv /\ CountInRange)
<1>1. IInv => CountInv /\ CountInRange
  BY DEF IInv, CountInv
<1>2. QED
  BY <1>1, IInvHolds, PTL

-----------------------------------------------------------------------------
(* The order of the bytes.                                                 *)

(***************************************************************************)
(* Going round a ring of S places at most once.                            *)
(***************************************************************************)
LEMMA Round ==
    ASSUME NEW S \in Nat \ {0}, NEW a \in 0 .. S - 1, NEW j \in 0 .. S
    PROVE  /\ (a + j) % S = IF a + j < S THEN a + j ELSE a + j - S
           /\ (a + j) % S \in 0 .. S - 1
<1>1. CASE a + j < S
  BY <1>1
<1>2. CASE ~(a + j < S)
  <2>1. (a + j) \div S = 1
    BY <1>2
  <2>2. a + j = S * ((a + j) \div S) + ((a + j) % S)
    OBVIOUS
  <2>3. (a + j) % S = a + j - S
    BY <2>1, <2>2
  <2>4. QED
    BY <1>2, <2>3
<1>3. QED
  BY <1>1, <1>2

(***************************************************************************)
(* What is in the buffer fits it: there is no negative number of bytes,    *)
(* and room for those being written.                                       *)
(***************************************************************************)
LEMMA Fits ==
    ASSUME IInv, OrderInv, ~raced
    PROVE  /\ Present \in 0 .. SbufSize
           /\ g_pc = "copy" /\ g_i < len => Present < SbufSize
           /\ c_pc = "copy" /\ c_i < nread => Present > 0
<1> USE AudioAssumption DEF IInv, audioTypeOK, CountInv, CountInRange, OrderInv
<1>1. Written \in Nat /\ Taken \in Nat
  BY DEF Written, Taken
<1>2. Taken <= count /\ (c_pc = "copy" /\ c_i < nread => Taken < count)
  BY DEF Taken
<1>3. count + Written <= SbufSize /\ (g_pc = "copy" /\ g_i < len => count + Written < SbufSize)
  BY DEF Written
<1>4. QED
  BY <1>1, <1>2, <1>3 DEF Present

(***************************************************************************)
(* A step that neither writes nor takes a byte moves bytes between the     *)
(* count and the two threads' accounts only.                               *)
(***************************************************************************)
LEMMA SameBytes ==
    ASSUME OrderInv, UNCHANGED <<sbuf, tail, head, sent, played>>,
           (g_pc = "copy" => g_i <= len)', (c_pc = "copy" => c_i <= nread)',
           ~raced' => /\ ~raced /\ Present' = Present
                      /\ (g_pc = "write" => g_cur = count /\ c_pc # "store")'
                      /\ (c_pc = "store" => c_cur = count)'
    PROVE  OrderInv'
BY DEF OrderInv

(***************************************************************************)
(* The guest writes a byte: it goes behind the last one.                   *)
(***************************************************************************)
LEMMA WriteOrder == ASSUME IInv, OrderInv, WriteByte PROVE OrderInv'
<1>1. /\ SbufSize \in Nat \ {0} /\ SeqNum \in Nat \ {0} /\ SbufSize < SeqNum
      /\ head \in 0 .. SbufSize - 1 /\ played \in 0 .. SeqNum - 1 /\ tail \in Slot
      /\ sbuf \in [Slot -> StreamByte] /\ g_i \in Nat /\ len \in Nat
  BY AudioAssumption DEF IInv, audioTypeOK, Slot, StreamByte
<1>2. /\ (g_pc = "copy" => g_i <= len)' /\ (c_pc = "copy" => c_i <= nread)'
      /\ (g_pc # "write")' /\ ((c_pc = "store" => c_cur = count)' \/ raced')
  BY <1>1 DEF WriteByte, OrderInv, callbackVars
<1>3. SUFFICES ASSUME ~raced'
               PROVE  /\ tail' = (head' + Present') % SbufSize
                      /\ sent' = (played' + Present') % SeqNum
                      /\ \A j \in 0 .. Present' - 1 :
                            sbuf'[(head' + j) % SbufSize] = (played' + j) % SeqNum
  BY <1>2 DEF OrderInv
<1>4. ~raced /\ head' = head /\ played' = played
  BY <1>3 DEF WriteByte, callbackVars
<1>5. Present \in 0 .. SbufSize /\ Present < SbufSize
  BY <1>4, Fits DEF WriteByte
<1>6. Present' = Present + 1
  <2>1. Written' = g_i + 1 /\ Written = g_i /\ Taken' = Taken /\ count' = count
    BY DEF Written, Taken, WriteByte, callbackVars
  <2>2. Taken \in Nat /\ count \in Nat
    BY DEF Taken, IInv, audioTypeOK
  <2>3. QED
    BY <1>1, <2>1, <2>2 DEF Present
<1>7. tail = (head + Present) % SbufSize /\ sent = (played + Present) % SeqNum
  BY <1>4 DEF OrderInv
<1>8. tail' = (head' + Present') % SbufSize
  <2>1. tail' = (tail + 1) % SbufSize
    BY DEF WriteByte
  <2>2. tail = IF head + Present < SbufSize THEN head + Present ELSE head + Present - SbufSize
    BY <1>1, <1>5, <1>7, Round
  <2>3. tail \in 0 .. SbufSize - 1 /\ 1 \in 0 .. SbufSize /\ Present + 1 \in 0 .. SbufSize
    BY <1>1, <1>5 DEF Slot
  <2>4. (tail + 1) % SbufSize = IF tail + 1 < SbufSize THEN tail + 1 ELSE tail + 1 - SbufSize
    BY <1>1, <2>3, Round
  <2>5. (head + (Present + 1)) % SbufSize = IF head + (Present + 1) < SbufSize THEN head + (Present + 1)
                                            ELSE head + (Present + 1) - SbufSize
    BY <1>1, <2>3, Round
  <2>6. (tail + 1) % SbufSize = (head + (Present + 1)) % SbufSize
    BY <1>1, <1>5, <2>2, <2>4, <2>5
  <2>7. QED
    BY <1>4, <1>6, <2>1, <2>6
<1>9. sent' = (played' + Present') % SeqNum
  <2>1. sent' = (sent + 1) % SeqNum
    BY DEF WriteByte
  <2>0. Present \in 0 .. SeqNum /\ Present + 1 \in 0 .. SeqNum /\ 1 \in 0 .. SeqNum
    BY <1>1, <1>5
  <2>2. /\ sent = IF played + Present < SeqNum THEN played + Present ELSE played + Present - SeqNum
        /\ sent \in 0 .. SeqNum - 1
    BY <1>1, <2>0, <1>7, Round
  <2>4. (sent + 1) % SeqNum = IF sent + 1 < SeqNum THEN sent + 1 ELSE sent + 1 - SeqNum
    BY <1>1, <2>0, <2>2, Round
  <2>5. (played + (Present + 1)) % SeqNum = IF played + (Present + 1) < SeqNum THEN played + (Present + 1)
                                            ELSE played + (Present + 1) - SeqNum
    BY <1>1, <2>0, Round
  <2>6. (sent + 1) % SeqNum = (played + (Present + 1)) % SeqNum
    BY <1>1, <1>5, <2>2, <2>4, <2>5
  <2>7. QED
    BY <1>4, <1>6, <2>1, <2>6
<1>10. ASSUME NEW j \in 0 .. Present
       PROVE  sbuf'[(head + j) % SbufSize] = (played + j) % SeqNum
  <2>1. sbuf' = [sbuf EXCEPT ![tail] = sent] /\ j \in 0 .. SbufSize
    BY <1>1, <1>5 DEF WriteByte
  <2>2. CASE j = Present
    BY <1>1, <1>7, <2>1, <2>2
  <2>3. CASE j # Present
    <3>1. j \in 0 .. Present - 1 /\ j < Present
      BY <1>5, <2>3
    <3>2. sbuf[(head + j) % SbufSize] = (played + j) % SeqNum
      BY <1>4, <3>1 DEF OrderInv
    <3>3. (head + j) % SbufSize # tail
      <4>1. (head + j) % SbufSize = IF head + j < SbufSize THEN head + j ELSE head + j - SbufSize
        BY <1>1, <2>1, Round
      <4>2. tail = IF head + Present < SbufSize THEN head + Present ELSE head + Present - SbufSize
        BY <1>1, <1>5, <1>7, Round
      <4>3. QED
        BY <1>1, <1>5, <3>1, <4>1, <4>2
    <3>4. (head + j) % SbufSize \in Slot
      BY <1>1, <2>1, Round DEF Slot
    <3>5. QED
      BY <1>1, <2>1, <3>2, <3>3, <3>4
  <2>4. QED
    BY <2>2, <2>3
<1>11. \A j \in 0 .. Present' - 1 : j \in 0 .. Present
  BY <1>5, <1>6
<1>12. QED
  BY <1>4, <1>8, <1>9, <1>10, <1>11

(***************************************************************************)
(* The callback takes a byte: it is the oldest one.                        *)
(***************************************************************************)
LEMMA TakeOrder ==
    ASSUME IInv, OrderInv, TakeByte
    PROVE  OrderInv' /\ (~raced => sbuf[head] = played)
<1>1. /\ SbufSize \in Nat \ {0} /\ SeqNum \in Nat \ {0} /\ SbufSize < SeqNum
      /\ head \in 0 .. SbufSize - 1 /\ played \in 0 .. SeqNum - 1
      /\ nread \in Nat /\ c_i \in Nat
  BY AudioAssumption DEF IInv, audioTypeOK, Slot, StreamByte
<1>2. /\ (g_pc = "copy" => g_i <= len)' /\ (c_pc = "copy" => c_i <= nread)'
      /\ (g_pc = "write" => g_cur = count)' \/ raced'
      /\ (c_pc # "store")'
  BY <1>1 DEF TakeByte, OrderInv, guestVars
<1>3. SUFFICES ASSUME ~raced
               PROVE  /\ tail' = (head' + Present') % SbufSize
                      /\ sent' = (played' + Present') % SeqNum
                      /\ \A j \in 0 .. Present' - 1 :
                            sbuf'[(head' + j) % SbufSize] = (played' + j) % SeqNum
                      /\ sbuf[head] = played
  BY <1>2 DEF OrderInv, TakeByte
<1>4. Present \in 0 .. SbufSize /\ Present > 0
  BY <1>3, Fits DEF TakeByte
<1>5. Present' = Present - 1
  <2>1. Taken' = c_i + 1 /\ Taken = c_i /\ Written' = Written /\ count' = count
    BY DEF Written, Taken, TakeByte, guestVars
  <2>2. Written \in Nat /\ count \in Nat
    BY DEF Written, IInv, audioTypeOK
  <2>3. QED
    BY <1>1, <2>1, <2>2 DEF Present
<1>6. /\ tail = (head + Present) % SbufSize /\ sent = (played + Present) % SeqNum
      /\ \A j \in 0 .. Present - 1 : sbuf[(head + j) % SbufSize] = (played + j) % SeqNum
  BY <1>3 DEF OrderInv
<1>7. /\ head' = (head + 1) % SbufSize /\ played' = (played + 1) % SeqNum
      /\ UNCHANGED <<tail, sent, sbuf>>
  BY DEF TakeByte, guestVars
<1>8. sbuf[head] = played
  <2>1. 0 \in 0 .. Present - 1 /\ head + 0 = head /\ played + 0 = played
    BY <1>1, <1>4
  <2>2. sbuf[(head + 0) % SbufSize] = (played + 0) % SeqNum
    BY <1>6, <2>1
  <2>3. head % SbufSize = head /\ played % SeqNum = played
    BY <1>1
  <2>4. QED
    BY <2>1, <2>2, <2>3
<1>9. ASSUME NEW j \in 0 .. SbufSize - 1
      PROVE  /\ (head' + j) % SbufSize = (head + (j + 1)) % SbufSize
             /\ (played' + j) % SeqNum = (played + (j + 1)) % SeqNum
  <2>1. /\ 1 \in 0 .. SbufSize /\ j \in 0 .. SbufSize /\ j + 1 \in 0 .. SbufSize
        /\ 1 \in 0 .. SeqNum /\ j \in 0 .. SeqNum /\ j + 1 \in 0 .. SeqNum
    BY <1>1
  <2>2. /\ head' = IF head + 1 < SbufSize THEN head + 1 ELSE head + 1 - SbufSize
        /\ head' \in 0 .. SbufSize - 1
    BY <1>1, <1>7, <2>1, Round
  <2>3. (head' + j) % SbufSize = IF head' + j < SbufSize THEN head' + j ELSE head' + j - SbufSize
    BY <1>1, <2>1, <2>2, Round
  <2>4. (head + (j + 1)) % SbufSize = IF head + (j + 1) < SbufSize THEN head + (j + 1)
                                      ELSE head + (j + 1) - SbufSize
    BY <1>1, <2>1, Round
  <2>5. (head' + j) % SbufSize = (head + (j + 1)) % SbufSize
    BY <1>1, <2>2, <2>3, <2>4
  <2>6. /\ played' = IF played + 1 < SeqNum THEN played + 1 ELSE played + 1 - SeqNum
        /\ played' \in 0 .. SeqNum - 1
    BY <1>1, <1>7, <2>1, Round
  <2>7. (played' + j) % SeqNum = IF played' + j < SeqNum THEN played' + j ELSE played' + j - SeqNum
    BY <1>1, <2>1, <2>6, Round
  <2>8. (played + (j + 1)) % SeqNum = IF played + (j + 1) < SeqNum THEN played + (j + 1)
                                      ELSE played + (j + 1) - SeqNum
    BY <1>1, <2>1, Round
  <2>9. (played' + j) % SeqNum = (played + (j + 1)) % SeqNum
    BY <1>1, <2>6, <2>7, <2>8
  <2>10. QED
    BY <2>5, <2>9
<1>10. Present - 1 \in 0 .. SbufSize - 1 /\ (Present - 1) + 1 = Present
  BY <1>1, <1>4
<1>11. ASSUME NEW j \in 0 .. Present' - 1
       PROVE  sbuf'[(head' + j) % SbufSize] = (played' + j) % SeqNum
  <2>1. j \in 0 .. SbufSize - 1 /\ j + 1 \in 0 .. Present - 1
    BY <1>1, <1>4, <1>5
  <2>2. QED
    BY <1>6, <1>7, <1>9, <2>1
<1>12. QED
  BY <1>5, <1>6, <1>7, <1>8, <1>9, <1>10, <1>11

(***************************************************************************)
(* Every step keeps the order, and the byte a step plays is the next one.  *)
(***************************************************************************)
LEMMA OrderStep ==
    ASSUME IInv, OrderInv, [audioNext]_audioVars
    PROVE  OrderInv' /\ (~raced /\ played' # played => sbuf[head] = played)
<1>0. /\ SbufSize \in Nat /\ count \in Nat /\ len \in Nat /\ g_i \in Nat /\ g_cur \in Nat
      /\ nread \in Nat /\ c_i \in Nat /\ c_cur \in Nat
  BY AudioAssumption DEF IInv, audioTypeOK
<1>1. CASE WriteByte
  BY <1>1, WriteOrder DEF WriteByte, callbackVars
<1>2. CASE TakeByte
  BY <1>2, TakeOrder
<1>3. ASSUME UNCHANGED <<sbuf, tail, head, sent, played>>,
             (g_pc = "copy" => g_i <= len)', (c_pc = "copy" => c_i <= nread)',
             ~raced' => /\ ~raced /\ Present' = Present
                        /\ (g_pc = "write" => g_cur = count /\ c_pc # "store")'
                        /\ (c_pc = "store" => c_cur = count)'
      PROVE  OrderInv' /\ (~raced /\ played' # played => sbuf[head] = played)
  BY <1>3, SameBytes
<1> USE DEF OrderInv, Present, Written, Taken
<1>4. CASE \E n \in PlayLens : Play(n)
  BY <1>0, <1>3, <1>4 DEF Play, callbackVars
<1>5. CASE Wait
  BY <1>0, <1>3, <1>5 DEF Wait, callbackVars
<1>6. CASE CopyDone
  BY <1>0, <1>3, <1>6 DEF CopyDone, callbackVars
<1>7. CASE ReadCount
  BY <1>0, <1>3, <1>7 DEF ReadCount, callbackVars
<1>8. CASE WriteCount
  <2>1. (g_cur + len) % U32 = g_cur + len
    BY <1>0, <1>8, NoWrap DEF WriteCount, IInv, CountInv
  <2>2. QED
    BY <1>0, <1>3, <1>8, <2>1 DEF WriteCount, callbackVars
<1>9. CASE Callback
  BY <1>0, <1>3, <1>9, AudioAssumption DEF Callback, guestVars
<1>10. CASE TakeDone
  BY <1>0, <1>3, <1>10 DEF TakeDone, guestVars
<1>11. CASE LoadCount
  BY <1>0, <1>3, <1>11 DEF LoadCount, guestVars
<1>12. CASE StoreCount
  <2>1. (c_cur - nread) % U32 = c_cur - nread
    BY <1>0, <1>12, NoWrap DEF StoreCount, IInv, CountInv, CountInRange
  <2>2. QED
    BY <1>0, <1>3, <1>12, <2>1 DEF StoreCount, guestVars
<1>13. CASE UNCHANGED audioVars
  BY <1>0, <1>3, <1>13 DEF audioVars, guestVars, callbackVars
<1>14. QED
  BY <1>1, <1>2, <1>4, <1>5, <1>6, <1>7, <1>8, <1>9, <1>10, <1>11, <1>12, <1>13
     DEF audioNext, Guest, Sdl

(***************************************************************************)
(* audio_play_callback plays the bytes of __am_audio_play in order, none   *)
(* lost and none twice, for every buffer, as long as no two updates of     *)
(* reg_count have overlapped.                                              *)
(***************************************************************************)
THEOREM AlwaysPlayedInOrder == audioSpec => PlayedInOrder
<1>1. audioInit => OrderInv
  <2>1. SUFFICES ASSUME audioInit PROVE OrderInv
    OBVIOUS
  <2>2. Present = 0 /\ (0 + Present) % SbufSize = 0 /\ (0 + Present) % SeqNum = 0
    BY <2>1, AudioAssumption DEF audioInit, Present, Written, Taken
  <2>3. /\ tail = 0 /\ head = 0 /\ sent = 0 /\ played = 0 /\ g_pc = "idle" /\ c_pc = "idle"
    BY <2>1 DEF audioInit
  <2>4. \A j \in 0 .. Present - 1 : sbuf[(head + j) % SbufSize] = (played + j) % SeqNum
    BY <2>2
  <2>5. QED
    BY <2>2, <2>3, <2>4 DEF OrderInv
<1>2. IInv /\ OrderInv /\ [audioNext]_audioVars => OrderInv'
  BY OrderStep
<1>3. audioSpec => []OrderInv
  BY <1>1, <1>2, IInvHolds, PTL DEF audioSpec
<1>4. IInv /\ OrderInv /\ [audioNext]_audioVars
         => [~raced /\ played' # played => sbuf[head] = played]_audioVars
  BY OrderStep
<1>5. QED
  BY <1>3, <1>4, IInvHolds, PTL DEF audioSpec, PlayedInOrder

(***************************************************************************)
(* The keyboard.                                                           *)
(***************************************************************************)
\* What a slot holds, and the slots.
KeyEntry == (Keys \cup {"none"}) \X BOOLEAN
KeySlot == 0..KEY_QUEUE_LEN - 1

\* The slot n places after slot f.
Place(f, n) == (f + n) % KEY_QUEUE_LEN

\* Places in the ring.
LEMMA Ring ==
    \A f \in KeySlot : \A n \in 0..KEY_QUEUE_LEN :
        /\ Place(f, n) \in KeySlot
        /\ Place(f, n) = IF f + n < KEY_QUEUE_LEN THEN f + n ELSE f + n - KEY_QUEUE_LEN
  <1> DEFINE K == KEY_QUEUE_LEN
  <1> SUFFICES ASSUME NEW f \in 0 .. K - 1, NEW n \in 0 .. K, K \in Nat \ {0}
               PROVE  /\ (f + n) % K \in 0 .. K - 1
                      /\ (f + n) % K = IF f + n < K THEN f + n ELSE f + n - K
    BY DeviceAssumption DEF KeySlot, Place
  <1> HIDE DEF K
  <1>1. CASE f + n < K
    BY <1>1
  <1>2. CASE f + n >= K
    <2>1. f + n = K * 1 + (f + n - K) /\ f + n - K \in 0 .. K - 1
      BY <1>2
    <2> QED
      BY <1>2, <2>1
  <1> QED
    BY <1>1, <1>2

\* How many places after f a slot is.
LEMMA RingBack ==
    \A f, n \in KeySlot : (Place(f, n) - f) % KEY_QUEUE_LEN = n
  <1> DEFINE K == KEY_QUEUE_LEN
  <1> SUFFICES ASSUME NEW f \in KeySlot, NEW n \in KeySlot
               PROVE  (Place(f, n) - f) % K = n
    OBVIOUS
  <1>0. K \in Nat \ {0} /\ f \in 0 .. K - 1 /\ n \in 0 .. K - 1
        /\ Place(f, n) = IF f + n < K THEN f + n ELSE f + n - K
    BY DeviceAssumption, Ring DEF KeySlot
  <1> HIDE DEF K
  <1>1. CASE f + n < K
    <2>1. Place(f, n) - f = n
      BY <1>0, <1>1
    <2> QED
      BY <1>0, <2>1
  <1>2. CASE f + n >= K
    <2>1. Place(f, n) - f = n - K
      BY <1>0, <1>2
    <2>2. n - K = K * (-1) + n
      BY <1>0
    <2>3. (n - K) % K = n
      BY <1>0, <2>2
    <2> QED
      BY <2>1, <2>3
  <1> QED
    BY <1>0, <1>1, <1>2

\* The queue is empty at first.
LEMMA KeyInit == ASSUME key = init_i8042 PROVE keyTypeOK /\ KeyInv
  <1>1. keyTypeOK
    <2>0. <<"none", FALSE>> \in KeyEntry
      BY DEF KeyEntry
    <2>a. KEY_QUEUE_LEN \in Nat \ {0}
      BY DeviceAssumption
    <2>b. 0 \in KeySlot
      BY <2>a DEF KeySlot
    <2>1. [s \in KeySlot |-> <<"none", FALSE>>] \in [KeySlot -> KeyEntry]
      BY <2>0
    <2>2. <<>> \in Seq(KeyEntry)
      OBVIOUS
    <2>3. key = [q |-> [s \in KeySlot |-> <<"none", FALSE>>], f |-> 0, r |-> 0,
                 running |-> TRUE, abort |-> FALSE, sent |-> <<>>, got |-> <<>>]
      BY DEF init_i8042, KeySlot
    <2>4. key \in [q : [KeySlot -> KeyEntry], f : KeySlot, r : KeySlot, running : BOOLEAN, abort : BOOLEAN,
                   sent : Seq(KeyEntry), got : Seq(KeyEntry)]
      BY <2>b, <2>1, <2>2, <2>3
    <2> QED
      BY <2>4 DEF keyTypeOK, KeySlot, KeyEntry
  <1>2. key.sent = <<>> /\ key.got = <<>> /\ key.f = 0 /\ key.r = 0
    BY DEF init_i8042
  <1> QED
    BY <1>1, <1>2, DeviceAssumption DEF KeyInv, Pending

\* An event goes to the slot after the pending ones, which is not the first of
\* them unless the queue is full; a poll takes the first.
LEMMA KeyStep ==
    ASSUME keyTypeOK, KeyInv, keyNext
    PROVE  keyTypeOK' /\ KeyInv'
  <1> DEFINE K == KEY_QUEUE_LEN
  <1>K. K \in Nat \ {0} /\ 1 \in 0 .. K /\ 0 \in 0 .. K
    BY DeviceAssumption
  <1>0. /\ key \in [q : [KeySlot -> KeyEntry], f : KeySlot, r : KeySlot, running : BOOLEAN, abort : BOOLEAN,
                    sent : Seq(KeyEntry), got : Seq(KeyEntry)]
        /\ key.q \in [KeySlot -> KeyEntry] /\ key.f \in KeySlot /\ key.r \in KeySlot
        /\ key.sent \in Seq(KeyEntry) /\ key.got \in Seq(KeyEntry)
        /\ Len(key.sent) \in Nat /\ Len(key.got) \in Nat
    BY DEF keyTypeOK, KeySlot, KeyEntry, K
  <1>n. PICK n \in Nat : n = Len(key.sent) - Len(key.got)
    BY <1>0 DEF KeyInv, Pending
  <1> HIDE DEF K
  <1>T. ASSUME key' \in [q : [KeySlot -> KeyEntry], f : KeySlot, r : KeySlot, running : BOOLEAN, abort : BOOLEAN,
                    sent : Seq(KeyEntry), got : Seq(KeyEntry)]
        PROVE  keyTypeOK'
    BY <1>T DEF keyTypeOK, KeySlot, KeyEntry
  <1>1. ASSUME NEW k \in Keys, NEW down \in BOOLEAN, send_key(k, down) PROVE keyTypeOK' /\ KeyInv'
    <2> DEFINE e == <<k, down>>
               next == Place(key.r, 1)
    <2>1. /\ ~key.abort
          /\ key' = [key EXCEPT !.q[key.r] = e, !.r = next, !.abort = (next = key.f), !.sent = Append(key.sent, e)]
      BY <1>1 DEF send_key, key_enqueue, Place, K
    <2>2. e \in KeyEntry /\ next \in KeySlot
      BY <1>0, <1>K, Ring DEF KeyEntry, K
    <2>3. /\ key'.q = [key.q EXCEPT ![key.r] = e] /\ key'.r = next /\ key'.f = key.f
          /\ key'.abort = (next = key.f) /\ key'.sent = Append(key.sent, e) /\ key'.got = key.got
          /\ key'.running = key.running
      BY <1>0, <2>1
    <2>4. keyTypeOK'
      <3>1. PICK b \in BOOLEAN : b = (next = key.f)
        OBVIOUS
      <3>2. Append(key.sent, e) \in Seq(KeyEntry) /\ [key.q EXCEPT ![key.r] = e] \in [KeySlot -> KeyEntry]
        BY <1>0, <2>2
      <3>3. key' = [key EXCEPT !.q = [key.q EXCEPT ![key.r] = e], !.r = next, !.abort = b, !.sent = Append(key.sent, e)]
        BY <2>1, <3>1
      <3> HIDE DEF next, e
      <3> QED
        BY <1>0, <1>T, <2>2, <3>2, <3>3
    <2>5. /\ Len(key'.sent) = Len(key.sent) + 1
          /\ \A i \in 1 .. Len(key.sent) : key'.sent[i] = key.sent[i]
          /\ key'.sent[Len(key.sent) + 1] = e
      BY <1>0, <2>2, <2>3
    <2>p. n \in 0 .. K - 1 /\ key.r = Place(key.f, n)
      BY <1>0, <1>n, <1>K, <2>1 DEF KeyInv, Pending, Place, K
    <2>6. /\ \A j \in 0 .. n - 1 : key.q[Place(key.f, j)] = key.sent[Len(key.got) + j + 1]
          /\ \A i \in 1 .. Len(key.got) : key.got[i] = key.sent[i]
      BY <1>0, <1>n, <1>K, <2>1 DEF KeyInv, Pending, Place, K
    <2>7. Pending' = n + 1 /\ n + 1 >= 0
      BY <1>0, <1>n, <2>3, <2>5, <2>6 DEF Pending
    <2>8. \A i \in 1 .. Len(key'.got) : key'.got[i] = key'.sent[i]
      BY <1>0, <1>n, <2>3, <2>5, <2>6
    <2>9. ASSUME ~key'.abort
          PROVE  /\ Pending' < K
                 /\ key'.r = Place(key'.f, Pending')
                 /\ \A j \in 0 .. Pending' - 1 : key'.q[Place(key'.f, j)] = key'.sent[Len(key'.got) + j + 1]
      <3>0. /\ key.f \in KeySlot /\ key.r \in KeySlot
            /\ n \in 0 .. K /\ n + 1 \in 0 .. K
        BY <1>0, <1>K, <2>p
      <3>1. key.f \in 0 .. K - 1 /\ key.r \in 0 .. K - 1
        BY <1>0 DEF KeySlot, K
      <3>2. /\ key.r = IF key.f + n < K THEN key.f + n ELSE key.f + n - K
            /\ next = IF key.r + 1 < K THEN key.r + 1 ELSE key.r + 1 - K
            /\ Place(key.f, (n + 1)) = IF key.f + (n + 1) < K THEN key.f + (n + 1) ELSE key.f + (n + 1) - K
        BY <1>K, <2>p, <3>0, Ring DEF K
      <3>3. next # key.f
        BY <2>3, <2>9
      <3>4. n + 1 < K /\ next = Place(key.f, (n + 1))
        BY <1>K, <2>p, <3>1, <3>2, <3>3
      <3>5. ASSUME NEW j \in 0 .. n
            PROVE  key'.q[Place(key'.f, j)] = key'.sent[Len(key'.got) + j + 1]
        <4>0. j \in 0 .. K
          BY <1>K, <2>p
        <4>1. /\ Place(key.f, j) \in KeySlot
              /\ Place(key.f, j) = IF key.f + j < K THEN key.f + j ELSE key.f + j - K
          BY <3>0, <4>0, Ring DEF K
        <4>2. CASE j = n
          <5>1. key'.q[key.r] = e /\ Place(key.f, j) = key.r
            BY <1>0, <2>3, <2>p, <4>2
          <5>2. Len(key.got) + j + 1 = Len(key.sent) + 1
            BY <1>0, <1>n, <4>2
          <5> QED
            BY <2>3, <2>5, <5>1, <5>2
        <4>3. CASE j # n
          <5>1. Place(key.f, j) # key.r
            BY <1>K, <2>p, <3>1, <3>2, <4>1, <4>3
          <5>2. key'.q[Place(key.f, j)] = key.q[Place(key.f, j)]
            BY <1>0, <2>3, <4>1, <5>1
          <5>3. key.q[Place(key.f, j)] = key.sent[Len(key.got) + j + 1]
            BY <2>6, <4>3
          <5>4. Len(key.got) + j + 1 \in 1 .. Len(key.sent)
            BY <1>0, <1>n, <4>3
          <5> QED
            BY <2>3, <2>5, <5>2, <5>3, <5>4
        <4> QED
          BY <4>2, <4>3
      <3> QED
        <4>1. n = Pending' - 1
          BY <2>7
        <4> QED
          BY <2>3, <2>7, <3>4, <3>5, <4>1
    <2> QED
      BY <2>4, <2>7, <2>8, <2>9 DEF KeyInv, Place, K
  <1>2. CASE StopOrContinue
    <2>1. key' = [key EXCEPT !.running = ~key.running]
      BY <1>2 DEF StopOrContinue
    <2>2. /\ key'.q = key.q /\ key'.r = key.r /\ key'.f = key.f
          /\ key'.abort = key.abort /\ key'.sent = key.sent /\ key'.got = key.got
      BY <1>0, <2>1
    <2>3. keyTypeOK'
      BY <1>0, <1>T, <2>1
    <2> QED
      BY <2>2, <2>3 DEF KeyInv, Pending, Place
  <1>3. CASE __am_input_keybrd
    <2>1. CASE key.f = key.r
      <3>1. key' = key
        BY <1>3, <2>1 DEF __am_input_keybrd
      <3> QED
        BY <3>1 DEF KeyInv, Pending, keyTypeOK
    <2>2. CASE key.f # key.r
      <3> DEFINE g == Place(key.f, 1)
                 e == key.q[key.f]
      <3>1. ~key.abort /\ key' = [key EXCEPT !.f = g, !.got = Append(key.got, e)]
        BY <1>3, <2>2 DEF __am_input_keybrd, Place, K
      <3>2. key.f \in 0 .. K - 1 /\ key.r \in 0 .. K - 1 /\ e \in KeyEntry
        BY <1>0 DEF KeySlot, K
      <3>3. g \in KeySlot /\ g = IF key.f + 1 < K THEN key.f + 1 ELSE key.f + 1 - K
        BY <1>0, <1>K, <3>2, Ring DEF K
      <3>4. /\ key'.q = key.q /\ key'.r = key.r /\ key'.f = g
            /\ key'.abort = key.abort /\ key'.sent = key.sent /\ key'.got = Append(key.got, e)
        BY <1>0, <3>1
      <3>5. keyTypeOK'
        <4>1. Append(key.got, e) \in Seq(KeyEntry)
          BY <1>0, <3>2
        <4> HIDE DEF g, e
        <4> QED
          BY <1>0, <1>T, <3>1, <3>3, <4>1
      <3>p. n \in 0 .. K - 1 /\ key.r = Place(key.f, n)
        BY <1>0, <1>n, <1>K, <3>1 DEF KeyInv, Pending, Place, K
      <3>6. /\ \A j \in 0 .. n - 1 : key.q[Place(key.f, j)] = key.sent[Len(key.got) + j + 1]
            /\ \A i \in 1 .. Len(key.got) : key.got[i] = key.sent[i]
        BY <1>0, <1>n, <1>K, <3>1 DEF KeyInv, Pending, Place, K
      <3>7. key.r = (IF key.f + n < K THEN key.f + n ELSE key.f + n - K)
            /\ Place(key.f, 0) = key.f
        <4>1. key.f \in KeySlot /\ n \in 0 .. K /\ key.f + 0 < K /\ key.f + 0 = key.f
          BY <1>0, <1>K, <3>2, <3>p
        <4> QED
          BY <1>K, <3>p, <4>1, Ring DEF K
      <3>8. n >= 1
        BY <1>K, <2>2, <3>2, <3>p, <3>7
      <3>9. e = key.sent[Len(key.got) + 1]
        BY <1>0, <1>n, <3>6, <3>7, <3>8
      <3>10. /\ Len(key'.got) = Len(key.got) + 1
             /\ \A i \in 1 .. Len(key.got) : key'.got[i] = key.got[i]
             /\ key'.got[Len(key.got) + 1] = e
        BY <1>0, <3>2, <3>4
      <3>11. Pending' = n - 1 /\ n - 1 >= 0
        BY <1>0, <1>n, <3>4, <3>8, <3>10 DEF Pending
      <3>12. \A i \in 1 .. Len(key'.got) : key'.got[i] = key'.sent[i]
        BY <1>0, <3>4, <3>6, <3>9, <3>10
      <3>13. key'.r = Place(key'.f, Pending') /\ Pending' < K
        <4>1. Place(g, (n - 1)) = IF g + (n - 1) < K THEN g + (n - 1) ELSE g + (n - 1) - K
          <5>1. g \in 0 .. K - 1 /\ n - 1 \in 0 .. K
            BY <1>K, <3>3, <3>p, <3>8 DEF KeySlot, K
          <5> QED
            BY <1>K, <3>3, <5>1, Ring DEF K
        <4> DEFINE h == Place(g, (n - 1))
        <4>2. h = IF g + (n - 1) < K THEN g + (n - 1) ELSE g + (n - 1) - K
          BY <4>1
        <4> HIDE DEF h, g
        <4>3. key.r = h
          BY <1>K, <3>2, <3>3, <3>p, <3>7, <3>8, <4>2
        <4>4. n - 1 < K
          BY <1>K, <3>p
        <4>5. key'.r = Place(key'.f, Pending')
          BY <3>4, <3>11, <4>3 DEF h
        <4> QED
          BY <3>11, <4>4, <4>5
      <3>14. ASSUME NEW j \in 0 .. n - 2
             PROVE  key'.q[Place(key'.f, j)] = key'.sent[Len(key'.got) + j + 1]
        <4>1. Place(g, j) = Place(key.f, (j + 1))
          <5>1. g \in 0 .. K - 1 /\ j \in 0 .. K /\ j + 1 \in 0 .. K
            BY <1>K, <3>3, <3>p, <3>8 DEF KeySlot, K
          <5>2. /\ Place(g, j) = IF g + j < K THEN g + j ELSE g + j - K
                /\ Place(key.f, (j + 1)) = IF key.f + (j + 1) < K THEN key.f + (j + 1) ELSE key.f + (j + 1) - K
            BY <1>0, <1>K, <3>2, <3>3, <5>1, Ring DEF K
          <5> QED
            BY <1>K, <3>2, <3>3, <3>p, <5>1, <5>2
        <4>2. j + 1 \in 0 .. n - 1
          BY <3>6
        <4>3. key.q[Place(key.f, (j + 1))] = key.sent[Len(key.got) + (j + 1) + 1]
          BY <3>6, <4>2
        <4>4. Len(key.got) + (j + 1) + 1 = Len(key'.got) + j + 1
          BY <1>0, <3>10
        <4> QED
          BY <3>4, <4>1, <4>3, <4>4
      <3> QED
        BY <3>5, <3>11, <3>12, <3>13, <3>14 DEF KeyInv, Place, K
    <2> QED
      BY <2>1, <2>2
  <1> QED
    BY <1>1, <1>2, <1>3 DEF keyNext

\* What the invariant says of the order of the events.
LEMMA KeyOrder == ASSUME keyTypeOK, KeyInv PROVE KeysInOrder
  <1>0. /\ key.f \in KeySlot /\ key.r \in KeySlot
        /\ key.sent \in Seq(KeyEntry) /\ key.got \in Seq(KeyEntry)
        /\ Len(key.sent) \in Nat /\ Len(key.got) \in Nat
    BY DEF keyTypeOK, KeySlot, KeyEntry
  <1>1. Len(key.got) <= Len(key.sent) /\ \A i \in 1 .. Len(key.got) : key.got[i] = key.sent[i]
    BY <1>0 DEF KeyInv, Pending, Place
  <1>2. SubSeq(key.got, 1, Len(key.got)) = SubSeq(key.sent, 1, Len(key.got))
    BY <1>0, <1>1
  <1>3. ASSUME ~key.abort
        PROVE  Pending = (key.r - key.f) % KEY_QUEUE_LEN
    <2>0. KEY_QUEUE_LEN \in Nat \ {0}
      BY DeviceAssumption
    <2>1. Pending \in KeySlot
      <3>1. Pending < KEY_QUEUE_LEN
        BY <1>3 DEF KeyInv
      <3>2. Pending \in Nat
        BY <1>0, <1>1 DEF Pending
      <3> QED
        BY <2>0, <3>1, <3>2 DEF KeySlot
    <2>2. key.r = Place(key.f, Pending)
      BY <1>3 DEF KeyInv, Place
    <2> QED
      BY <1>0, <2>1, <2>2, RingBack
  <1> QED
    BY <1>1, <1>2, <1>3 DEF KeysInOrder, IsPrefix, Pending

(***************************************************************************)
(* The clock.                                                              *)
(***************************************************************************)
\* A timer that nobody has read yet.
LEMMA RtcInit == ASSUME rtc \in init_timer PROVE rtcTypeOK /\ RtcInv
  BY DEF init_timer, RtcInv, rtcTypeOK, Reading

\* Of two times the later one has no smaller high half, and a time is made of
\* its halves.
LEMMA Halves ==
    ASSUME NEW L \in Nat \ {0}, NEW s \in Nat, NEW t \in Nat, s <= t
    PROVE  /\ s \div L \in Nat /\ t \div L \in Nat /\ s % L \in Nat
           /\ s \div L <= t \div L
           /\ (s \div L) * L + (s % L) = s
  <1>1. /\ s \div L \in Nat /\ s % L \in 0 .. L - 1 /\ s = L * (s \div L) + (s % L)
        /\ t \div L \in Nat /\ t % L \in 0 .. L - 1 /\ t = L * (t \div L) + (t % L)
    OBVIOUS
  <1> DEFINE p == s \div L
             q == t \div L
  <1> HIDE DEF p, q
  <1>2. ~(q + 1 <= p)
    <2> SUFFICES ASSUME q + 1 <= p PROVE FALSE
      OBVIOUS
    <2>1. p \in Nat /\ q \in Nat
      BY <1>1 DEF p, q
    <2>2. L * (q + 1) <= L * p
      BY <2>1
    <2>3. L * p + (s % L) <= L * q + (t % L)
      BY <1>1 DEF p, q
    <2>4. L * q + L <= L * p
      BY <2>1, <2>2
    <2> QED
      BY <1>1, <2>1, <2>3, <2>4
  <1>3. p <= q
    BY <1>1, <1>2 DEF p, q
  <1>4. (s \div L) * L = L * (s \div L)
    BY <1>1
  <1> QED
    BY <1>1, <1>3, <1>4 DEF p, q

\* The clock runs on between any two of the three reads.  The read of the
\* high half that is compared with the first one pins the time down: no
\* carry into the high half came in between.
LEMMA RtcStep ==
    ASSUME rtcTypeOK, RtcInv, rtcNext
    PROVE  rtcTypeOK' /\ RtcInv'
  <1> USE DeviceAssumption
  <1>0. /\ rtc.now \in Nat /\ rtc.base \in Nat /\ rtc.hi \in Nat /\ rtc.lo \in Nat
        /\ rtc.began \in Nat /\ rtc.boot_time \in Int /\ rtc.uptime \in Int /\ rtc.earlier \in Int
        /\ rtc.pc \in {"init", "idle", "hi", "lo", "check"} /\ rtc.latched \in BOOLEAN
    BY DEF rtcTypeOK, Reading
  <1>1. CASE Tick
    <2>1. rtc' = [rtc EXCEPT !.now = rtc.now + 1] /\ rtc.now + 1 \in Nat
      BY <1>0, <1>1 DEF Tick
    <2>2. rtcTypeOK'
      BY <2>1 DEF rtcTypeOK
    <2>3. /\ rtc'.now = rtc.now + 1 /\ rtc'.base = rtc.base /\ rtc'.hi = rtc.hi /\ rtc'.lo = rtc.lo
          /\ rtc'.began = rtc.began /\ rtc'.boot_time = rtc.boot_time /\ rtc'.uptime = rtc.uptime
          /\ rtc'.earlier = rtc.earlier /\ rtc'.pc = rtc.pc
      BY <2>1 DEF rtcTypeOK
    <2> QED
      BY <1>0, <2>2, <2>3 DEF RtcInv, Reading
  <1>2. CASE StartRead
    <2>1. PICK b \in {rtc.boot_time, -1} :
             /\ rtc' = [rtc EXCEPT !.pc = "hi", !.began = rtc.now, !.boot_time = b]
             /\ b = IF rtc.pc = "init" THEN -1 ELSE rtc.boot_time
             /\ rtc.pc \in {"init", "idle"}
      BY <1>2 DEF StartRead
    <2>a. b \in Int
      BY <1>0, <2>1
    <2>2. rtcTypeOK'
      BY <1>0, <2>1, <2>a DEF rtcTypeOK, Reading
    <2>3. /\ rtc'.now = rtc.now /\ rtc'.base = rtc.base /\ rtc'.hi = rtc.hi /\ rtc'.lo = rtc.lo
          /\ rtc'.began = rtc.now /\ rtc'.boot_time = b /\ rtc'.uptime = rtc.uptime
          /\ rtc'.earlier = rtc.earlier /\ rtc'.pc = "hi"
      BY <2>1 DEF rtcTypeOK
    <2> QED
      BY <1>0, <2>1, <2>a, <2>2, <2>3 DEF RtcInv, Reading
  <1>3. CASE ReadHi
    <2>0. rtc.now \div Low \in Nat
      BY <1>0, Halves
    <2>1. /\ rtc.pc = "hi" /\ rtc' = [rtc EXCEPT !.base = rtc.now, !.hi = rtc.now \div Low, !.pc = "lo"]
      BY <1>3 DEF ReadHi, inl, rtc_io_handler, rtcTypeOK
    <2>2. rtcTypeOK'
      BY <1>0, <2>0, <2>1 DEF rtcTypeOK, Reading
    <2>3. /\ rtc'.now = rtc.now /\ rtc'.base = rtc.now /\ rtc'.hi = rtc.now \div Low /\ rtc'.lo = rtc.lo
          /\ rtc'.began = rtc.began /\ rtc'.boot_time = rtc.boot_time /\ rtc'.uptime = rtc.uptime
          /\ rtc'.earlier = rtc.earlier /\ rtc'.pc = "lo"
      BY <2>1 DEF rtcTypeOK
    <2> QED
      BY <1>0, <2>0, <2>1, <2>2, <2>3 DEF RtcInv, Reading
  <1>4. CASE ReadLo
    <2>1. PICK b \in {rtc.now, rtc.base} :
              rtc' = [rtc EXCEPT !.base = b, !.lo = b % Low, !.pc = "check"]
      <3>1. CASE rtc.latched
        <4>1. rtc' = [rtc EXCEPT !.lo = rtc.base % Low, !.pc = "check"]
          BY <1>4, <3>1 DEF ReadLo, inl, rtc_io_handler
        <4>2. rtc = [rtc EXCEPT !.base = rtc.base]
          BY DEF rtcTypeOK
        <4>3. rtc' = [rtc EXCEPT !.base = rtc.base, !.lo = rtc.base % Low, !.pc = "check"]
          BY <4>1, <4>2
        <4> QED
          BY <4>3
      <3>2. CASE ~rtc.latched
        BY <1>4, <3>2 DEF ReadLo, inl, rtc_io_handler, rtcTypeOK
      <3> QED
        BY <3>1, <3>2
    <2>2. /\ rtc.pc = "lo" /\ b \in Nat /\ rtc.base <= b /\ b <= rtc.now
          /\ rtc.hi <= rtc.base \div Low /\ rtc.began <= rtc.base
      BY <1>0, <1>4, <2>1 DEF ReadLo, RtcInv
    <2>3. b % Low \in Nat /\ rtc.base \div Low <= b \div Low
          /\ rtc.base \div Low \in Nat /\ b \div Low \in Nat
      BY <1>0, <2>2, Halves
    <2>4. rtcTypeOK'
      BY <1>0, <2>1, <2>2, <2>3 DEF rtcTypeOK, Reading
    <2>5. /\ rtc'.now = rtc.now /\ rtc'.base = b /\ rtc'.hi = rtc.hi /\ rtc'.lo = b % Low
          /\ rtc'.began = rtc.began /\ rtc'.boot_time = rtc.boot_time /\ rtc'.uptime = rtc.uptime
          /\ rtc'.earlier = rtc.earlier /\ rtc'.pc = "check"
      BY <2>1 DEF rtcTypeOK
    <2> QED
      BY <1>0, <2>2, <2>3, <2>4, <2>5 DEF RtcInv, Reading
  <1>5. CASE ReadCheck
    <2>1. /\ rtc.pc = "check"
          /\ rtc' = IF rtc.now \div Low = rtc.hi THEN Returned([rtc EXCEPT !.base = rtc.now])
                    ELSE [rtc EXCEPT !.base = rtc.now, !.pc = "hi"]
      BY <1>5 DEF ReadCheck, inl, rtc_io_handler, rtcTypeOK
    <2>2. CASE rtc.now \div Low # rtc.hi
      <3>1. rtc' = [rtc EXCEPT !.base = rtc.now, !.pc = "hi"]
        BY <2>1, <2>2
      <3>2. rtcTypeOK'
        BY <1>0, <3>1 DEF rtcTypeOK, Reading
      <3>3. /\ rtc'.now = rtc.now /\ rtc'.base = rtc.now /\ rtc'.hi = rtc.hi /\ rtc'.lo = rtc.lo
            /\ rtc'.began = rtc.began /\ rtc'.boot_time = rtc.boot_time /\ rtc'.uptime = rtc.uptime
            /\ rtc'.earlier = rtc.earlier /\ rtc'.pc = "hi"
        BY <3>1 DEF rtcTypeOK
      <3> QED
        BY <1>0, <2>1, <3>2, <3>3 DEF RtcInv, Reading
    <2>3. CASE rtc.now \div Low = rtc.hi
      <3>1. /\ rtc.base <= rtc.now /\ rtc.began <= rtc.base
            /\ rtc.hi <= rtc.base \div Low /\ rtc.lo = rtc.base % Low
        BY <2>1 DEF RtcInv
      <3>2. /\ rtc.base \div Low <= rtc.now \div Low /\ rtc.base \div Low \in Nat
            /\ (rtc.base \div Low) * Low + (rtc.base % Low) = rtc.base
        BY <1>0, <3>1, Halves
      <3>3. rtc.hi = rtc.base \div Low
        BY <1>0, <2>3, <3>1, <3>2
      <3>4. rtc.hi * Low + rtc.lo = rtc.base
        BY <3>1, <3>2, <3>3
      <3>5. CASE rtc.boot_time = -1
        <4>1. rtc' = [rtc EXCEPT !.base = rtc.now, !.pc = "idle", !.boot_time = rtc.base]
          BY <2>1, <2>3, <3>4, <3>5 DEF Returned, rtcTypeOK
        <4>0. rtc.base \in Int
          BY <1>0
        <4>2. rtcTypeOK'
          BY <1>0, <4>0, <4>1 DEF rtcTypeOK, Reading
        <4>3. /\ rtc'.now = rtc.now /\ rtc'.base = rtc.now /\ rtc'.hi = rtc.hi /\ rtc'.lo = rtc.lo
              /\ rtc'.began = rtc.began /\ rtc'.boot_time = rtc.base /\ rtc'.uptime = rtc.uptime
              /\ rtc'.earlier = rtc.earlier /\ rtc'.pc = "idle"
          BY <4>1 DEF rtcTypeOK
        <4> QED
          BY <1>0, <2>1, <3>1, <3>5, <4>2, <4>3 DEF RtcInv, Reading
      <3>6. CASE rtc.boot_time # -1
        <4>0. rtc.base - rtc.boot_time \in Int
          BY <1>0
        <4>1. rtc' = [rtc EXCEPT !.base = rtc.now, !.pc = "idle", !.earlier = rtc.uptime,
                                 !.uptime = rtc.base - rtc.boot_time]
          BY <2>1, <2>3, <3>4, <3>6 DEF Returned, rtcTypeOK
        <4>2. rtcTypeOK'
          BY <1>0, <4>0, <4>1 DEF rtcTypeOK, Reading
        <4>3. /\ rtc'.now = rtc.now /\ rtc'.base = rtc.now /\ rtc'.hi = rtc.hi /\ rtc'.lo = rtc.lo
              /\ rtc'.began = rtc.began /\ rtc'.boot_time = rtc.boot_time
              /\ rtc'.uptime = rtc.base - rtc.boot_time
              /\ rtc'.earlier = rtc.uptime /\ rtc'.pc = "idle"
          BY <4>1 DEF rtcTypeOK
        <4> QED
          BY <1>0, <2>1, <3>1, <3>6, <4>2, <4>3 DEF RtcInv, Reading
      <3> QED
        BY <3>5, <3>6
    <2> QED
      BY <2>2, <2>3
  <1> QED
    BY <1>1, <1>2, <1>3, <1>4, <1>5 DEF rtcNext

(***************************************************************************)
(* The screen.                                                             *)
(***************************************************************************)
\* A number is made of its quotient and its remainder.
LEMMA QuotientParts ==
    ASSUME NEW w \in Nat \ {0}, NEW a \in Nat
    PROVE  /\ a \div w \in Nat /\ a % w \in 0 .. w - 1
           /\ a = (a \div w) * w + (a % w)
  <1>1. /\ a \div w \in Nat /\ a % w \in 0 .. w - 1 /\ a = w * (a \div w) + (a % w)
    OBVIOUS
  <1>2. w * (a \div w) = (a \div w) * w
    BY <1>1
  <1> QED
    BY <1>1, <1>2

\* Of two numbers the smaller one has no larger quotient.
LEMMA QuotientOrder ==
    ASSUME NEW w \in Nat \ {0}, NEW q \in Int, NEW r \in 0 .. w - 1, NEW s \in Int, NEW t \in 0 .. w - 1,
           q * w + r <= s * w + t
    PROVE  q <= s
  <1> SUFFICES ASSUME s + 1 <= q PROVE FALSE
    OBVIOUS
  <1>1. PICK k \in Nat : q = s + 1 + k
    OBVIOUS
  <1>2. q * w = s * w + w + k * w /\ k * w \in Nat /\ s * w \in Int
    BY <1>1
  <1> QED
    BY <1>2

\* A number has one quotient and one remainder.
LEMMA QuotientUnique ==
    ASSUME NEW w \in Nat \ {0}, NEW q \in Int, NEW r \in 0 .. w - 1, NEW s \in Int, NEW t \in 0 .. w - 1,
           q * w + r = s * w + t
    PROVE  q = s /\ r = t
  <1>1. q <= s /\ s <= q
    <2>1. q * w \in Int /\ s * w \in Int
      OBVIOUS
    <2> QED
      BY <2>1, QuotientOrder
  <1>2. q = s
    BY <1>1
  <1> QED
    BY <1>2

\* Below w * h are the numbers whose quotient by w is below h.
LEMMA QuotientBound ==
    ASSUME NEW w \in Nat \ {0}, NEW h \in Nat, NEW q \in Nat, NEW r \in 0 .. w - 1
    PROVE  q * w + r < w * h <=> q < h
  <1>0. q * w \in Nat /\ w * h \in Nat /\ w * h = h * w
    OBVIOUS
  <1>1. CASE q < h
    <2>1. PICK k \in Nat : h = q + 1 + k
      BY <1>1
    <2>2. h * w = q * w + w + k * w /\ k * w \in Nat
      BY <2>1
    <2> QED
      BY <1>0, <1>1, <2>2
  <1>2. CASE ~(q < h)
    <2>1. PICK k \in Nat : q = h + k
      BY <1>2
    <2>2. q * w = h * w + k * w /\ k * w \in Nat
      BY <2>1
    <2> QED
      BY <1>0, <1>2, <2>2
  <1> QED
    BY <1>1, <1>2

\* Where turn n of the loops draws.
TurnX(d, n) == d.x + (n % d.w)
TurnY(d, n) == d.y + (n \div d.w)

\* The parts of a rectangle the loops compute with.
DrawType == \A d \in Draws : d.x \in Int /\ d.y \in Int /\ d.w \in Nat /\ d.h \in Nat

\* What is assumed of rectangles and the screen.
LEMMA DrawTypes == DrawType /\ ScreenW \in Nat \ {0} /\ ScreenH \in Nat \ {0}
  BY DeviceAssumption DEF DrawType

\* The row and the column of a pixel.
LEMMA PixelParts ==
    ASSUME NEW p \in Pixels
    PROVE  /\ p % ScreenW \in 0 .. ScreenW - 1 /\ p \div ScreenW \in 0 .. ScreenH - 1
           /\ p \in Nat /\ p = (p \div ScreenW) * ScreenW + (p % ScreenW)
  <1>0. ScreenW \in Nat \ {0} /\ ScreenH \in Nat \ {0}
    BY DrawTypes
  <1>1. p \in Nat /\ p < ScreenW * ScreenH
    <2>1. ScreenW * ScreenH \in Nat
      BY <1>0
    <2> QED
      BY <2>1 DEF Pixels
  <1>2. /\ p \div ScreenW \in Nat /\ p % ScreenW \in 0 .. ScreenW - 1
        /\ p = (p \div ScreenW) * ScreenW + (p % ScreenW)
    BY <1>0, <1>1, QuotientParts
  <1>3. p \div ScreenW < ScreenH
    BY <1>0, <1>1, <1>2, QuotientBound
  <1> QED
    BY <1>0, <1>1, <1>2, <1>3

\* A place on the screen is a pixel, with that row and column.
LEMMA PlaceParts ==
    ASSUME NEW x, NEW y, OnScreen(x, y)
    PROVE  /\ y * ScreenW + x \in Pixels
           /\ \A p \in Pixels : p = y * ScreenW + x <=> (p % ScreenW = x /\ p \div ScreenW = y)
  <1>0. /\ ScreenW \in Nat \ {0} /\ ScreenH \in Nat \ {0}
        /\ x \in 0 .. ScreenW - 1 /\ y \in Nat /\ y < ScreenH
    BY DrawTypes DEF OnScreen
  <1>1. y * ScreenW + x < ScreenW * ScreenH
    BY <1>0, QuotientBound
  <1>2. y * ScreenW + x \in Nat /\ ScreenW * ScreenH \in Nat
    BY <1>0
  <1>3. ASSUME NEW p \in Pixels
        PROVE  p = y * ScreenW + x <=> (p % ScreenW = x /\ p \div ScreenW = y)
    <2>1. /\ p % ScreenW \in 0 .. ScreenW - 1 /\ p \div ScreenW \in Int
          /\ p = (p \div ScreenW) * ScreenW + (p % ScreenW)
      BY <1>0, PixelParts
    <2>2. ASSUME p = y * ScreenW + x PROVE p % ScreenW = x /\ p \div ScreenW = y
      <3>1. (p \div ScreenW) * ScreenW + (p % ScreenW) = y * ScreenW + x
        BY <2>1, <2>2
      <3> DEFINE q == p \div ScreenW
                 r == p % ScreenW
      <3>2. /\ q \in Int /\ r \in 0 .. ScreenW - 1 /\ y \in Int /\ q * ScreenW + r = y * ScreenW + x
        BY <1>0, <2>1, <3>1
      <3> HIDE DEF q, r
      <3>3. q = y /\ r = x
        BY <1>0, <3>2, QuotientUnique
      <3> QED
        BY <3>3 DEF q, r
    <2>3. ASSUME p % ScreenW = x, p \div ScreenW = y PROVE p = y * ScreenW + x
      BY <2>1, <2>3
    <2> QED
      BY <2>2, <2>3
  <1> QED
    BY <1>1, <1>2, <1>3 DEF Pixels

\* A turn of the loops is at a row and a column of the rectangle.
LEMMA TurnParts ==
    ASSUME NEW d \in Draws, NEW n \in Nat, n < d.w * d.h
    PROVE  /\ d.w \in Nat \ {0}
           /\ n % d.w \in 0 .. d.w - 1 /\ n \div d.w \in 0 .. d.h - 1
           /\ n = (n \div d.w) * d.w + (n % d.w)
  <1>0. d.w \in Nat /\ d.h \in Nat
    BY DrawTypes DEF DrawType
  <1>1. d.w # 0
    BY <1>0
  <1>2. /\ n \div d.w \in Nat /\ n % d.w \in 0 .. d.w - 1
        /\ n = (n \div d.w) * d.w + (n % d.w)
    BY <1>0, <1>1, QuotientParts
  <1>3. n \div d.w < d.h
    BY ZenonT(60), <1>0, <1>1, <1>2, QuotientBound
  <1> QED
    BY <1>0, <1>1, <1>2, <1>3

\* Every turn is on the screen if the rectangle is inside it.
LEMMA TurnInside ==
    ASSUME NEW d \in Draws, NEW n \in Nat, n < d.w * d.h, Inside(d)
    PROVE  OnScreen(TurnX(d, n), TurnY(d, n))
  <1>1. /\ d.x \in Int /\ d.y \in Int /\ d.w \in Nat /\ d.h \in Nat
        /\ ScreenW \in Nat \ {0} /\ ScreenH \in Nat \ {0}
    BY DrawTypes DEF DrawType
  <1>2. n % d.w \in 0 .. d.w - 1 /\ n \div d.w \in 0 .. d.h - 1
    BY TurnParts
  <1> QED
    BY <1>1, <1>2 DEF Inside, OnScreen, TurnX, TurnY

\* Turn n draws the pixel that has place n in the rectangle, if there is one.
LEMMA TurnPixel ==
    ASSUME NEW d \in Draws, NEW n \in Nat, n < d.w * d.h, NEW p \in Pixels
    PROVE  LET x == (p % ScreenW) - d.x
               y == (p \div ScreenW) - d.y
           IN (x \in 0 .. d.w - 1 /\ y \in 0 .. d.h - 1 /\ y * d.w + x = n)
                  <=> (OnScreen(TurnX(d, n), TurnY(d, n)) /\ p = TurnY(d, n) * ScreenW + TurnX(d, n))
  <1> DEFINE x == (p % ScreenW) - d.x
             y == (p \div ScreenW) - d.y
             i == n % d.w
             j == n \div d.w
  <1>1. /\ d.x \in Int /\ d.y \in Int /\ d.w \in Nat \ {0} /\ d.h \in Nat
        /\ i \in 0 .. d.w - 1 /\ j \in 0 .. d.h - 1 /\ n = j * d.w + i
    BY DrawTypes, TurnParts DEF DrawType
  <1>2. p % ScreenW \in 0 .. ScreenW - 1 /\ p \div ScreenW \in 0 .. ScreenH - 1
        /\ ScreenW \in Nat \ {0} /\ ScreenH \in Nat \ {0}
    BY PixelParts, DrawTypes
  <1>3. x \in Int /\ y \in Int /\ x + d.x = p % ScreenW /\ y + d.y = p \div ScreenW
    <2>1. ASSUME NEW u \in Int, NEW v \in Int PROVE u - v \in Int /\ (u - v) + v = u
      OBVIOUS
    <2>2. d.x \in Int /\ d.y \in Int /\ p % ScreenW \in Int /\ p \div ScreenW \in Int
      BY <1>1, <1>2
    <2> QED
      BY <2>1, <2>2
  <1>4. TurnX(d, n) = d.x + i /\ TurnY(d, n) = d.y + j
    BY DEF TurnX, TurnY
  <1> HIDE DEF x, y, i, j
  <1>5. ASSUME x \in 0 .. d.w - 1, y \in 0 .. d.h - 1, y * d.w + x = n
        PROVE  OnScreen(TurnX(d, n), TurnY(d, n)) /\ p = TurnY(d, n) * ScreenW + TurnX(d, n)
    <2>1. y * d.w + x = j * d.w + i /\ y \in Int /\ j \in Int
      BY <1>1, <1>3, <1>5
    <2>2. y = j /\ x = i
      BY <1>1, <1>5, <2>1, QuotientUnique
    <2>3. TurnX(d, n) = p % ScreenW /\ TurnY(d, n) = p \div ScreenW
      BY <1>1, <1>3, <1>4, <2>2
    <2>4. OnScreen(TurnX(d, n), TurnY(d, n))
      BY <1>2, <2>3 DEF OnScreen
    <2> QED
      BY <2>3, <2>4, PlaceParts
  <1>6. ASSUME OnScreen(TurnX(d, n), TurnY(d, n)), p = TurnY(d, n) * ScreenW + TurnX(d, n)
        PROVE  x \in 0 .. d.w - 1 /\ y \in 0 .. d.h - 1 /\ y * d.w + x = n
    <2>1. p % ScreenW = TurnX(d, n) /\ p \div ScreenW = TurnY(d, n)
      BY <1>6, PlaceParts
    <2>2. y = j /\ x = i
      BY <1>1, <1>3, <1>4, <2>1
    <2> QED
      BY <1>1, <2>2
  <1> QED
    BY <1>5, <1>6 DEF x, y

\* One more turn.
LEMMA OneMore ==
    ASSUME NEW d \in Draws, NEW n \in Nat, n < d.w * d.h, NEW p \in Pixels, NEW old
    PROVE  DrawnFirst(d, n + 1, p, old) =
               IF OnScreen(TurnX(d, n), TurnY(d, n)) /\ p = TurnY(d, n) * ScreenW + TurnX(d, n)
               THEN <<d.color, n>> ELSE DrawnFirst(d, n, p, old)
  <1> DEFINE x == (p % ScreenW) - d.x
             y == (p \div ScreenW) - d.y
             In == x \in 0 .. d.w - 1 /\ y \in 0 .. d.h - 1
             k == y * d.w + x
             Here == OnScreen(TurnX(d, n), TurnY(d, n)) /\ p = TurnY(d, n) * ScreenW + TurnX(d, n)
  <1>1. In /\ k = n <=> Here
    BY TurnPixel
  <1>2. In => k \in Int
    <2>1. d.w \in Nat
      BY DrawTypes DEF DrawType
    <2> HIDE DEF x, y
    <2>2. In => x \in Int /\ y \in Int
      OBVIOUS
    <2> QED
      BY <2>1, <2>2
  <1>3. /\ DrawnFirst(d, n + 1, p, old) = IF In /\ k < n + 1 THEN <<d.color, k>> ELSE old
        /\ DrawnFirst(d, n, p, old) = IF In /\ k < n THEN <<d.color, k>> ELSE old
    BY DEF DrawnFirst
  <1> HIDE DEF In, k, Here
  <1>4. In => (k < n + 1 <=> k < n \/ k = n) /\ ~(k < n /\ k = n)
    BY <1>2
  <1>5. DrawnFirst(d, n + 1, p, old) = IF Here THEN <<d.color, n>> ELSE DrawnFirst(d, n, p, old)
    BY <1>1, <1>3, <1>4
  <1> QED
    BY <1>5 DEF Here

\* Before the first turn nothing is drawn, after the last one all is.
LEMMA FirstLast ==
    ASSUME NEW d \in Draws, NEW p \in Pixels, NEW old
    PROVE  /\ DrawnFirst(d, 0, p, old) = old
           /\ DrawnFirst(d, d.w * d.h, p, old) = Drawn(d, p, old)
  <1> DEFINE x == (p % ScreenW) - d.x
             y == (p \div ScreenW) - d.y
             In == x \in 0 .. d.w - 1 /\ y \in 0 .. d.h - 1
             k == y * d.w + x
  <1>1. In => k \in Nat /\ k < d.w * d.h
    <2>1. d.w \in Nat /\ d.h \in Nat
      BY DrawTypes DEF DrawType
    <2> HIDE DEF x, y
    <2>2. SUFFICES ASSUME In PROVE k \in Nat /\ k < d.w * d.h
      OBVIOUS
    <2>3. x \in Nat /\ y \in Nat /\ d.w \in Nat \ {0} /\ x \in 0 .. d.w - 1 /\ y < d.h
      BY <2>1, <2>2
    <2>4. y * d.w + x < d.w * d.h
      BY <2>1, <2>3, QuotientBound
    <2>5. y * d.w + x \in Nat
      BY <2>3
    <2> QED
      BY <2>4, <2>5
  <1>2. /\ DrawnFirst(d, 0, p, old) = IF In /\ k < 0 THEN <<d.color, k>> ELSE old
        /\ DrawnFirst(d, d.w * d.h, p, old) = IF In /\ k < d.w * d.h THEN <<d.color, k>> ELSE old
        /\ Drawn(d, p, old) = IF In THEN <<d.color, k>> ELSE old
    BY DEF DrawnFirst, Drawn
  <1> HIDE DEF In, k
  <1> QED
    BY <1>1, <1>2

\* The values of a pixel.
Dot == {Black} \cup ({d.color : d \in Draws} \X Nat)

\* A black screen is shown whole.
LEMMA VgaInit == ASSUME vga \in init_vga PROVE vgaTypeOK /\ VgaInv
  <1>1. [p \in Pixels |-> Black] \in Picture
    BY DEF Picture
  <1>2. PICK c \in BOOLEAN :
           vga = [clips |-> c, fb |-> [p \in Pixels |-> Black], screen |-> [p \in Pixels |-> Black], sync |-> 0,
                  ctl |-> NoDraw, at |-> 0, before |-> [p \in Pixels |-> Black], fresh |-> TRUE, stray |-> FALSE]
    BY DEF init_vga
  <1> QED
    BY <1>1, <1>2 DEF vgaTypeOK, VgaInv

\* A turn draws its own place of the rectangle and nothing else, also when the
\* screen is updated between two turns.
LEMMA VgaStep ==
    ASSUME vgaTypeOK, VgaInv, vgaNext
    PROVE  vgaTypeOK' /\ VgaInv'
  <1>0. /\ vga.fb \in Picture /\ vga.screen \in Picture /\ vga.before \in Picture /\ vga.at \in Nat
        /\ vga.ctl \in Draws \cup {NoDraw} /\ vga.sync \in {0, 1}
        /\ vga.fresh \in BOOLEAN /\ vga.stray \in BOOLEAN /\ vga.clips \in BOOLEAN
    BY DEF vgaTypeOK
  <1>1. ASSUME NEW d \in Draws, __am_gpu_fbdraw(d) PROVE vgaTypeOK' /\ VgaInv'
    <2>1. /\ vga.clips \/ Inside(d)
          /\ vga' = [vga EXCEPT !.ctl = d, !.at = 0, !.before = vga.fb]
      BY <1>1 DEF __am_gpu_fbdraw
    <2>2. vgaTypeOK'
      BY <1>0, <2>1 DEF vgaTypeOK
    <2>3. /\ vga'.ctl = d /\ vga'.at = 0 /\ vga'.before = vga.fb /\ vga'.fb = vga.fb
          /\ vga'.clips = vga.clips /\ vga'.stray = vga.stray /\ vga'.fresh = vga.fresh
          /\ vga'.sync = vga.sync /\ vga'.screen = vga.screen
      BY <2>1 DEF vgaTypeOK
    <2>4. d.w * d.h \in Nat
      <3>1. d.w \in Nat /\ d.h \in Nat
        BY DrawTypes DEF DrawType
      <3> QED
        BY <3>1
    <2>5. \A p \in Pixels : vga'.fb[p] = DrawnFirst(d, 0, p, vga'.before[p])
      BY <2>3, FirstLast
    <2> QED
      BY <2>1, <2>2, <2>3, <2>4, <2>5 DEF VgaInv
  <1>2. CASE DrawPixel
    <2> DEFINE d == vga.ctl
               n == vga.at
               x == TurnX(d, n)
               y == TurnY(d, n)
               p == y * ScreenW + x
    <2>1. /\ d # NoDraw /\ n < d.w * d.h
          /\ vga' = IF vga.clips /\ ~OnScreen(x, y) THEN [vga EXCEPT !.at = n + 1]
                    ELSE IF p \notin Pixels THEN [vga EXCEPT !.at = n + 1, !.stray = TRUE]
                    ELSE [vga EXCEPT !.at = n + 1, !.fb[p] = <<d.color, n>>, !.fresh = FALSE]
      BY <1>2 DEF DrawPixel, TurnX, TurnY
    <2>2. d \in Draws /\ n \in Nat /\ n + 1 \in Nat
      BY <1>0, <2>1
    <2>3. d.w * d.h \in Nat
      <3>1. d.w \in Nat /\ d.h \in Nat
        BY <2>2, DrawTypes DEF DrawType
      <3> QED
        BY <3>1
    <2>4. n + 1 <= d.w * d.h
      BY <2>1, <2>2, <2>3
    <2>5. /\ vga.clips \/ Inside(d)
          /\ \A q \in Pixels : vga.fb[q] = DrawnFirst(d, n, q, vga.before[q])
          /\ ~vga.stray
      BY <2>1 DEF VgaInv
    <2>6. \A q \in Pixels : DrawnFirst(d, n + 1, q, vga.before[q]) =
               IF OnScreen(x, y) /\ q = p THEN <<d.color, n>> ELSE DrawnFirst(d, n, q, vga.before[q])
      BY <2>1, <2>2, OneMore
    <2>7. vga.clips \/ OnScreen(x, y)
      BY <2>1, <2>2, <2>5, TurnInside
    <2> HIDE DEF d, n, x, y, p
    <2>8. CASE ~OnScreen(x, y)
      <3>1. vga' = [vga EXCEPT !.at = n + 1]
        BY <2>1, <2>7, <2>8
      <3>2. vgaTypeOK'
        BY <2>2, <3>1 DEF vgaTypeOK
      <3>3. /\ vga'.ctl = d /\ vga'.at = n + 1 /\ vga'.before = vga.before /\ vga'.fb = vga.fb
            /\ vga'.clips = vga.clips /\ vga'.stray = vga.stray /\ vga'.fresh = vga.fresh
            /\ vga'.sync = vga.sync /\ vga'.screen = vga.screen
        BY <3>1 DEF vgaTypeOK, d
      <3>4. \A q \in Pixels : vga'.fb[q] = DrawnFirst(d, n + 1, q, vga'.before[q])
        BY <2>5, <2>6, <2>8, <3>3
      <3> QED
        BY <2>4, <2>5, <3>2, <3>3, <3>4 DEF VgaInv
    <2>9. CASE OnScreen(x, y)
      <3>1. p \in Pixels
        BY <2>9, PlaceParts DEF p
      <3> DEFINE fb2 == [vga.fb EXCEPT ![p] = <<d.color, n>>]
      <3>2. vga' = [vga EXCEPT !.at = n + 1, !.fb = fb2, !.fresh = FALSE]
        BY <2>1, <2>9, <3>1
      <3>3. fb2 \in Picture
        <4>1. <<d.color, n>> \in Dot
          BY <2>2 DEF Dot
        <4>2. vga.fb \in [Pixels -> Dot]
          BY <1>0 DEF Picture, Dot
        <4>3. fb2 \in [Pixels -> Dot]
          BY <4>1, <4>2
        <4> QED
          BY <4>3 DEF Picture, Dot
      <3>4. \A q \in Pixels : fb2[q] = IF q = p THEN <<d.color, n>> ELSE vga.fb[q]
        BY <1>0 DEF Picture
      <3> HIDE DEF fb2
      <3>5. vgaTypeOK'
        BY <2>2, <3>2, <3>3 DEF vgaTypeOK
      <3>6. /\ vga'.ctl = d /\ vga'.at = n + 1 /\ vga'.before = vga.before /\ vga'.fb = fb2
            /\ vga'.clips = vga.clips /\ vga'.stray = vga.stray /\ vga'.fresh = FALSE
        BY <3>2 DEF vgaTypeOK, d
      <3>7. \A q \in Pixels : vga'.fb[q] = DrawnFirst(d, n + 1, q, vga'.before[q])
        BY <2>5, <2>6, <2>9, <3>4, <3>6
      <3> QED
        BY <2>4, <2>5, <3>5, <3>6, <3>7 DEF VgaInv
    <2> QED
      BY <2>8, <2>9
  <1>3. CASE DrawEnd
    <2>1. PICK s \in {0, 1}, f \in BOOLEAN :
             /\ vga' = [vga EXCEPT !.ctl = NoDraw, !.sync = s, !.fresh = f]
             /\ s = 0 => vga.sync = 0
             /\ s = 0 /\ f => vga.fresh
      <3>1. /\ vga.ctl # NoDraw
            /\ vga' = [vga EXCEPT !.ctl = NoDraw, !.sync = IF vga.ctl.sync THEN 1 ELSE vga.sync, !.fresh = vga.fresh \/ vga.ctl.sync]
        BY <1>3 DEF DrawEnd
      <3>2. vga.ctl.sync \in BOOLEAN
        BY <1>0, <3>1, DeviceAssumption
      <3>3. CASE vga.ctl.sync
        <4>1. (vga.fresh \/ vga.ctl.sync) = TRUE
          BY <3>3
        <4>2. vga' = [vga EXCEPT !.ctl = NoDraw, !.sync = 1, !.fresh = TRUE]
          BY <3>1, <3>3, <4>1
        <4>3. 1 # 0
          OBVIOUS
        <4> QED
          BY <4>2, <4>3, Zenon
      <3>4. CASE ~vga.ctl.sync
        BY <1>0, <3>1, <3>2, <3>4
      <3> QED
        BY <3>3, <3>4
    <2>2. vgaTypeOK'
      BY <2>1 DEF vgaTypeOK
    <2>3. /\ vga'.ctl = NoDraw /\ vga'.fb = vga.fb /\ vga'.stray = vga.stray /\ vga'.fresh = f
          /\ vga'.sync = s /\ vga'.screen = vga.screen
      BY <2>1 DEF vgaTypeOK
    <2> QED
      BY <2>1, <2>2, <2>3 DEF VgaInv
  <1>4. CASE vga_update_screen
    <2>1. vga' = [vga EXCEPT !.screen = vga.fb, !.sync = 0]
      BY <1>4 DEF vga_update_screen
    <2>2. vgaTypeOK'
      BY <1>0, <2>1 DEF vgaTypeOK
    <2>3. /\ vga'.ctl = vga.ctl /\ vga'.at = vga.at /\ vga'.before = vga.before /\ vga'.fb = vga.fb
          /\ vga'.clips = vga.clips /\ vga'.stray = vga.stray /\ vga'.screen = vga.fb
      BY <2>1 DEF vgaTypeOK
    <2> QED
      BY <2>2, <2>3 DEF VgaInv
  <1> QED
    BY <1>1, <1>2, <1>3, <1>4 DEF vgaNext

\* What the invariant says of a frame.
LEMMA VgaWhole == ASSUME vgaTypeOK, VgaInv PROVE FramesWhole
  <1>1. ASSUME vga.ctl # NoDraw, vga.at = vga.ctl.w * vga.ctl.h, NEW p \in Pixels
        PROVE  vga.fb[p] = Drawn(vga.ctl, p, vga.before[p])
    <2>1. vga.ctl \in Draws
      BY <1>1 DEF vgaTypeOK
    <2>2. vga.fb[p] = DrawnFirst(vga.ctl, vga.ctl.w * vga.ctl.h, p, vga.before[p])
      BY <1>1 DEF VgaInv
    <2> QED
      BY <2>1, <2>2, FirstLast
  <1> QED
    BY <1>1 DEF VgaInv, FramesWhole

(***************************************************************************)
(* The three devices together.                                             *)
(***************************************************************************)
DevicesInv == keyTypeOK /\ KeyInv /\ rtcTypeOK /\ RtcInv /\ vgaTypeOK /\ VgaInv

\* A step of one device leaves the others alone.
LEMMA DevicesStep ==
    ASSUME DevicesInv, [keyNext \/ rtcNext \/ vgaNext]_deviceVars
    PROVE  DevicesInv'
  <1>1. ASSUME UNCHANGED key PROVE keyTypeOK' /\ KeyInv'
    BY <1>1 DEF DevicesInv, keyTypeOK, KeyInv, Pending
  <1>2. ASSUME UNCHANGED rtc PROVE rtcTypeOK' /\ RtcInv'
    BY <1>2 DEF DevicesInv, rtcTypeOK, RtcInv, Reading
  <1>3. ASSUME UNCHANGED vga PROVE vgaTypeOK' /\ VgaInv'
    BY <1>3 DEF DevicesInv, vgaTypeOK, VgaInv
  <1>4. CASE keyNext
    <2>1. UNCHANGED <<rtc, vga>>
      BY <1>4 DEF keyNext, send_key, StopOrContinue, __am_input_keybrd
    <2> QED
      BY <1>2, <1>3, <1>4, <2>1, KeyStep DEF DevicesInv
  <1>5. CASE rtcNext
    <2>1. UNCHANGED <<key, vga>>
      BY <1>5 DEF rtcNext, Tick, StartRead, ReadHi, ReadLo, ReadCheck
    <2> QED
      BY <1>1, <1>3, <1>5, <2>1, RtcStep DEF DevicesInv
  <1>6. CASE vgaNext
    <2>1. UNCHANGED <<key, rtc>>
      BY <1>6 DEF vgaNext, __am_gpu_fbdraw, DrawPixel, DrawEnd, vga_update_screen
    <2> QED
      BY <1>1, <1>2, <1>6, <2>1, VgaStep DEF DevicesInv
  <1>7. CASE UNCHANGED deviceVars
    BY <1>1, <1>2, <1>3, <1>7 DEF DevicesInv, deviceVars
  <1> QED
    BY <1>4, <1>5, <1>6, <1>7

\* For every length of the key queue, width of the time and size of the
\* screen, and every interleaving of a device with the code that drives it:
\* the program gets the key events in order and once, a time that was during
\* its read, and draws the rectangles it asks for and nothing else.
THEOREM DevicesAlwaysFaithful == devicesSpec => []DevicesFaithful
  <1>1. devicesInit => DevicesInv
    BY KeyInit, RtcInit, VgaInit DEF devicesInit, DevicesInv
  <1>2. DevicesInv /\ [keyNext \/ rtcNext \/ vgaNext]_deviceVars => DevicesInv'
    BY DevicesStep
  <1>3. DevicesInv => DevicesFaithful
    <2>1. rtcTypeOK /\ RtcInv => TimeNotTorn
      BY DEF RtcInv, rtcTypeOK, Reading, TimeNotTorn
    <2> QED
      BY <2>1, KeyOrder, VgaWhole DEF DevicesInv, DevicesFaithful
  <1> QED
    BY <1>1, <1>2, <1>3, PTL DEF devicesSpec

(***************************************************************************)
(* The memory of NEMU.                                                     *)
(***************************************************************************)
\* An address is in one array at most.
LEMMA OneArray ==
    ASSUME NEW x \in Areas, NEW y \in Areas, NEW a \in Int, in_range(a, x), in_range(a, y)
    PROVE  x = y
  <1>1. Arrays[x].base \in Nat /\ Arrays[x].size \in Nat
    BY MemAssumption
  <1>2. a \in Span(Arrays[x].base, Arrays[x].size)
    BY <1>1 DEF in_range, Span
  <1>3. \A u, w \in Areas : u # w => \A b \in Span(Arrays[u].base, Arrays[u].size) : ~in_range(b, w)
    BY MemAssumption
  <1> QED
    BY <1>2, <1>3

\* So an address of an array is found in it.
LEMMA GuestToHost ==
    ASSUME NEW x \in Areas, NEW a \in Int, in_range(a, x)
    PROVE  guest_to_host(a) = <<x, a - Arrays[x].base>>
  <1>1. \A y \in Areas : in_range(a, y) => y = x
    BY OneArray
  <1>2. (CHOOSE y \in Areas : in_range(a, y)) = x
    BY <1>1
  <1> QED
    BY <1>2 DEF guest_to_host

\* The bytes of the host are those of the arrays and of the devices' space.
LEMMA BytesOf ==
    /\ \A o \in 0 .. IO_SPACE_MAX - 1 : <<"io", o>> \in HostBytes
    /\ \A x \in Areas : \A o \in 0 .. Arrays[x].size - 1 : <<x, o>> \in HostBytes
    /\ \A h \in HostBytes : h[1] # "io" =>
           h[1] \in Areas /\ h[2] \in 0 .. Arrays[h[1]].size - 1 /\ h = <<h[1], h[2]>>
    /\ \A h \in HostBytes : h[1] = "io" => h[2] \in 0 .. IO_SPACE_MAX - 1 /\ h = <<"io", h[2]>>
  <1> DEFINE S == {ArrayBytes(x) : x \in Areas}
  <1>0. /\ HostBytes = IoBytes \cup UNION S
        /\ \A x \in Areas : ArrayBytes(x) \in S
        /\ \A B \in S : \E x \in Areas : B = ArrayBytes(x)
    BY DEF HostBytes
  <1> HIDE DEF S
  <1>1. "io" \notin Areas
    BY MemAssumption
  <1>2. \A h \in HostBytes : (\E x \in Areas : \E o \in 0 .. Arrays[x].size - 1 : h = <<x, o>>)
                            \/ (\E o \in 0 .. IO_SPACE_MAX - 1 : h = <<"io", o>>)
    <2>1. \A h \in HostBytes : (\E x \in Areas : h \in ArrayBytes(x)) \/ h \in IoBytes
      <3>1. \A h \in HostBytes : (\E B \in S : h \in B) \/ h \in IoBytes
        BY <1>0
      <3> QED
        BY <1>0, <3>1, Zenon
    <2>2. \A h \in IoBytes : \E o \in 0 .. IO_SPACE_MAX - 1 : h = <<"io", o>>
      BY DEF IoBytes
    <2>3. ASSUME NEW x \in Areas, NEW h \in ArrayBytes(x) PROVE \E o \in 0 .. Arrays[x].size - 1 : h = <<x, o>>
      BY DEF ArrayBytes
    <2> QED
      BY <2>1, <2>2, <2>3
  <1>3. ASSUME NEW h \in HostBytes, h[1] # "io"
        PROVE  h[1] \in Areas /\ h[2] \in 0 .. Arrays[h[1]].size - 1 /\ h = <<h[1], h[2]>>
    BY <1>2, <1>3
  <1>4. ASSUME NEW h \in HostBytes, h[1] = "io"
        PROVE  h[2] \in 0 .. IO_SPACE_MAX - 1 /\ h = <<"io", h[2]>>
    <2>1. ASSUME NEW x \in Areas, NEW o \in 0 .. Arrays[x].size - 1, h = <<x, o>> PROVE FALSE
      BY <1>1, <1>4, <2>1
    <2>2. PICK o \in 0 .. IO_SPACE_MAX - 1 : h = <<"io", o>>
      BY <1>2, <2>1
    <2> QED
      BY <2>2
  <1>5. ASSUME NEW o \in 0 .. IO_SPACE_MAX - 1 PROVE <<"io", o>> \in HostBytes
    <2>1. <<"io", o>> \in IoBytes
      BY DEF IoBytes
    <2> QED
      BY <1>0, <2>1
  <1>6. ASSUME NEW x \in Areas, NEW o \in 0 .. Arrays[x].size - 1 PROVE <<x, o>> \in HostBytes
    <2>1. <<x, o>> \in ArrayBytes(x)
      BY DEF ArrayBytes
    <2> QED
      BY <1>0, <2>1
  <1> QED
    BY <1>3, <1>4, <1>5, <1>6

\* The address of a byte of an array, and back.
LEMMA HostToGuest ==
    ASSUME NEW h \in HostBytes, h[1] # "io"
    PROVE  /\ h[1] \in Areas /\ Arrays[h[1]].base \in Nat /\ h[2] \in Nat
           /\ host_to_guest(h) = h[2] + Arrays[h[1]].base /\ host_to_guest(h) \in Int
           /\ in_range(host_to_guest(h), h[1])
           /\ guest_to_host(host_to_guest(h)) = h
  <1> DEFINE a == host_to_guest(h)
  <1>1. h[1] \in Areas /\ h[2] \in 0 .. Arrays[h[1]].size - 1 /\ h = <<h[1], h[2]>>
    BY BytesOf
  <1>2. Arrays[h[1]].base \in Nat /\ Arrays[h[1]].size \in Nat
    BY <1>1, MemAssumption
  <1>3. a = h[2] + Arrays[h[1]].base /\ a \in Int /\ h[2] \in Nat /\ a - Arrays[h[1]].base = h[2]
    BY <1>1, <1>2 DEF host_to_guest
  <1>4. in_range(a, h[1])
    BY <1>1, <1>2, <1>3 DEF in_range
  <1> HIDE DEF a
  <1>5. guest_to_host(a) = <<h[1], a - Arrays[h[1]].base>>
    BY <1>1, <1>3, <1>4, GuestToHost
  <1> QED
    BY <1>1, <1>2, <1>3, <1>4, <1>5 DEF a

\* A device gets whole pages.
LEMMA SpaceFits == ASSUME NEW n \in Nat PROVE new_space(n) \in Nat /\ n <= new_space(n)
  <1> DEFINE q == ((n + PAGE_SIZE) - 1) \div PAGE_SIZE
             m == ((n + PAGE_SIZE) - 1) % PAGE_SIZE
             p == q * PAGE_SIZE
  <1>1. PAGE_SIZE \in Nat \ {0} /\ (n + PAGE_SIZE) - 1 \in Nat
    BY MemAssumption
  <1>2. q \in Nat /\ m \in 0 .. PAGE_SIZE - 1 /\ (n + PAGE_SIZE) - 1 = p + m
    BY <1>1, QuotientParts
  <1>3. p \in Nat
    BY <1>1, <1>2
  <1>4. new_space(n) = p
    BY DEF new_space
  <1> HIDE DEF q, m, p
  <1> QED
    BY <1>1, <1>2, <1>3, <1>4

\* What is assumed of devices and accesses, one at a time.
LEMMA DeviceParts ==
    ASSUME NEW d \in Devices
    PROVE  /\ d.low \in Nat /\ d.len \in Nat \ {0}
           /\ \A a \in d.low .. d.low + d.len - 1 : ~InRam(a) => ~InMemory(a)
  BY MemAssumption DEF Span, InMemory, InRam

LEMMA AccessParts ==
    ASSUME NEW c \in Accesses
    PROVE  /\ c[1] \in Nat /\ c[2] \in Nat \ {0}
           /\ \A a \in c[1] .. c[1] + c[2] - 1 :
                  /\ a \in Touched
                  /\ \A x \in Areas : in_range(a, x) <=> in_range(c[1], x)
                  /\ \A d \in Devices : ~EndsInPmem(d) /\ c[1] \in Span(d.low, d.len) => a \in Span(d.low, d.len)
  <1>1. c[1] \in Nat /\ c[2] \in Nat \ {0}
    BY MemAssumption
  <1>2. \A a \in Span(c[1], c[2]) :
           /\ \A x \in Areas : in_range(a, x) <=> in_range(c[1], x)
           /\ \A d \in Devices : ~EndsInPmem(d) /\ c[1] \in Span(d.low, d.len) => a \in Span(d.low, d.len)
    BY MemAssumption
  <1>3. \A a \in Span(c[1], c[2]) : a \in Touched
    BY DEF Touched
  <1>4. Span(c[1], c[2]) = c[1] .. c[1] + c[2] - 1
    BY DEF Span
  <1> QED
    BY <1>1, <1>2, <1>3, <1>4

\* The table of devices.
LEMMA MapsParts ==
    ASSUME memTypeOK
    PROVE  /\ ram.maps \in Seq(IOMap) /\ Len(ram.maps) \in Nat /\ DOMAIN ram.maps = 1 .. Len(ram.maps)
           /\ \A i \in DOMAIN ram.maps : ram.maps[i].low \in Nat /\ ram.maps[i].high \in Nat /\ ram.maps[i].space \in Nat
  <1>1. ram.maps \in Seq(IOMap)
    BY DEF memTypeOK
  <1>2. Len(ram.maps) \in Nat /\ DOMAIN ram.maps = 1 .. Len(ram.maps) /\ \A i \in DOMAIN ram.maps : ram.maps[i] \in IOMap
    BY <1>1
  <1>3. \A m \in IOMap : m.low \in Nat /\ m.high \in Nat /\ m.space \in Nat
    BY DEF IOMap
  <1> QED
    BY <1>1, <1>2, <1>3

\* Addresses are numbers.
LEMMA TouchedInt == \A a \in Touched : a \in Int
  <1>1. \A a \in Touched : \E c \in Accesses : a \in Span(c[1], c[2])
    BY DEF Touched
  <1> QED
    BY <1>1 DEF Span

\* At most one device has an address, and find_mapid_by_addr finds it.
LEMMA FoundIs ==
    ASSUME memTypeOK, MapsApart, NEW a \in Int, NEW i \in Found(a)
    PROVE  i \in DOMAIN ram.maps /\ a \in ram.maps[i].low .. ram.maps[i].high /\ find_mapid_by_addr(a) = i /\ i \in Nat \ {0}
  <1>1. \A j \in Found(a) : j \in DOMAIN ram.maps /\ j \in Nat \ {0} /\ a \in ram.maps[j].low .. ram.maps[j].high
                            /\ ram.maps[j].low \in Nat /\ ram.maps[j].high \in Nat
    BY MapsParts DEF Found, map_inside
  <1>2. ASSUME NEW j \in Found(a), i # j PROVE FALSE
    <2>1. i < j \/ j < i
      BY <1>1, <1>2
    <2>2. ram.maps[i].high < ram.maps[j].low \/ ram.maps[j].high < ram.maps[i].low
      BY <1>1, <2>1 DEF MapsApart
    <2> QED
      BY <1>1, <2>2
  <1>3. Found(a) = {i}
    BY <1>2
  <1>4. i <= i
    BY <1>1
  <1>5. Min({i}) = i
    BY <1>4, Zenon DEF Min
  <1> QED
    BY <1>1, <1>3, <1>5 DEF find_mapid_by_addr

\* The record of the memory.
RamType == [host : Contents, maps : Seq(IOMap), p_space : Nat, panic : BOOLEAN, shadow : Shadow,
            value : Seq(Int), read : Nat, written : Nat, printed : Seq(Int), sent : Seq(Int)]

\* The fields of the memory.
LEMMA RamFields ==
    ASSUME memTypeOK
    PROVE  /\ ram \in RamType /\ ram.host \in Contents /\ ram.shadow \in Shadow /\ ram.p_space \in Nat
           /\ ram.value \in Seq(Int) /\ ram.printed \in Seq(Int) /\ ram.sent \in Seq(Int)
           /\ ram.read \in Nat /\ ram.written \in Nat
           /\ DOMAIN ram.host = HostBytes /\ DOMAIN ram.shadow = Touched
           /\ (\A h \in HostBytes : ram.host[h] \in Int) /\ (\A a \in Touched : ram.shadow[a] \in Int)
           /\ \A a : Stored(a) \in Int
  <1>1. /\ ram \in RamType /\ ram.host \in Contents /\ ram.shadow \in Shadow /\ ram.p_space \in Nat
        /\ ram.value \in Seq(Int) /\ ram.printed \in Seq(Int) /\ ram.sent \in Seq(Int)
        /\ ram.read \in Nat /\ ram.written \in Nat
    BY DEF memTypeOK, RamType
  <1>2. /\ DOMAIN ram.host = HostBytes /\ DOMAIN ram.shadow = Touched
        /\ (\A h \in HostBytes : ram.host[h] \in Int) /\ (\A a \in Touched : ram.shadow[a] \in Int)
    BY <1>1 DEF Contents, Shadow
  <1> QED
    BY <1>1, <1>2 DEF Stored

\* NEMU that has ended.
LEMMA Panicked ==
    ASSUME NEW r \in RamType
    PROVE  [r EXCEPT !.panic = TRUE] \in RamType /\ [r EXCEPT !.panic = TRUE].panic
  BY DEF RamType

\* It starts with empty memories and no device.
LEMMA MemInit == ASSUME ram = init_mem PROVE memTypeOK /\ MemInv
  <1> DEFINE hs == [h \in HostBytes |-> 0]
             sh == [a \in Touched |-> 0]
  <1>1. hs \in Contents /\ sh \in Shadow
    BY DEF Contents, Shadow
  <1>2. /\ \A h \in HostBytes : hs[h] = 0
        /\ \A a \in Touched : sh[a] = 0
        /\ DOMAIN sh = Touched
    OBVIOUS
  <1> HIDE DEF hs, sh
  <1>3. ram = [host |-> hs, maps |-> <<>>, p_space |-> 0, panic |-> FALSE, shadow |-> sh,
               value |-> <<>>, read |-> 0, written |-> 0, printed |-> <<>>, sent |-> <<>>]
    BY DEF init_mem, hs, sh
  <1>4. memTypeOK
    BY <1>1, <1>3 DEF memTypeOK
  <1>5. ram.maps = <<>> /\ ram.p_space = 0 /\ ram.value = <<>> /\ ram.printed = ram.sent /\ ram.host = hs /\ ram.shadow = sh
    BY <1>3
  <1>6. DOMAIN ram.maps = {} /\ DOMAIN ram.value = {}
    BY <1>5
  <1>7. \A a : Stored(a) = 0
    BY <1>2, <1>5 DEF Stored
  <1>8. MapsApart
    BY <1>5, <1>6, MemAssumption DEF MapsApart
  <1>9. BytesKept
    BY <1>2, <1>5, <1>6, <1>7, BytesOf DEF BytesKept
  <1> QED
    BY <1>4, <1>5, <1>6, <1>8, <1>9 DEF MemInv

\* Where a mapped device is.
LEMMA MapParts ==
    ASSUME memTypeOK, MapsApart, NEW i \in DOMAIN ram.maps
    PROVE  /\ ram.maps[i].low \in Nat /\ ram.maps[i].high \in Nat /\ ram.maps[i].space \in Nat
           /\ ram.maps[i].low <= ram.maps[i].high
           /\ ram.maps[i].space + ram.maps[i].high - ram.maps[i].low < ram.p_space
           /\ ram.p_space <= IO_SPACE_MAX /\ IO_SPACE_MAX \in Nat
           /\ \A a \in ram.maps[i].low .. ram.maps[i].high : ~InRam(a) => ~InMemory(a)
  <1> DEFINE m == ram.maps[i]
  <1>1. m.low \in Nat /\ m.high \in Nat /\ m.space \in Nat
    BY MapsParts
  <1>2. PICK d \in Devices : IsMap(m, d)
    BY DEF MapsApart
  <1>3. d.low \in Nat /\ d.len \in Nat \ {0} /\ \A a \in d.low .. d.low + d.len - 1 : ~InRam(a) => ~InMemory(a)
    BY DeviceParts
  <1>4. m.low = d.low /\ m.high = d.low + d.len - 1
    BY <1>2 DEF IsMap
  <1>5. m.space + m.high - m.low < ram.p_space /\ ram.p_space <= IO_SPACE_MAX
    BY DEF MapsApart, LastByte
  <1>6. IO_SPACE_MAX \in Nat
    BY MemAssumption
  <1> HIDE DEF m
  <1>7. m.low <= m.high
    BY <1>3, <1>4
  <1> QED
    BY <1>1, <1>3, <1>4, <1>5, <1>6, <1>7 DEF m

\* A device that is mapped has a range and a space of its own, in which
\* nothing has been stored.
LEMMA MapStep ==
    ASSUME memTypeOK, MemInv, NEW d \in Devices, add_mmio_map(d)
    PROVE  memTypeOK' /\ MemInv'
  <1> DEFINE n == Len(ram.maps)
             p == ram.p_space + new_space(d.len)
             m == [name |-> d.name, low |-> d.low, high |-> d.low + d.len - 1, space |-> ram.p_space]
             refused == \/ p >= IO_SPACE_MAX
                        \/ n >= NR_MAP
                        \/ EndsInPmem(d)
                        \/ \E i \in DOMAIN ram.maps : Overlaps(d, ram.maps[i])
  <1>1. /\ ~ram.panic
        /\ refused => ram' = [ram EXCEPT !.panic = TRUE]
        /\ ~refused => ram' = [ram EXCEPT !.p_space = p, !.maps = Append(@, m)]
    BY DEF add_mmio_map
  <1>2. CASE refused
    <2>1. ram' \in RamType /\ ram'.panic
      BY <1>1, <1>2, RamFields, Panicked
    <2> QED
      BY <2>1 DEF memTypeOK, RamType, MemInv
  <1>3. CASE ~refused
    <2>0. MapsApart /\ BytesKept /\ ram.printed = ram.sent
          /\ \A k \in DOMAIN ram.value : ram.value[k] = Stored(ram.read + k - 1)
      BY <1>1 DEF MemInv
    <2>1. d.low \in Nat /\ d.len \in Nat \ {0} /\ ram.p_space \in Nat /\ n \in Nat /\ IO_SPACE_MAX \in Nat
      BY DeviceParts, RamFields, MapsParts, MemAssumption
    <2>2. p \in Nat /\ p >= ram.p_space + d.len
      <3>1. new_space(d.len) \in Nat /\ d.len <= new_space(d.len)
        BY <2>1, SpaceFits
      <3> QED
        BY <2>1, <3>1
    <2>3. m \in IOMap /\ m.low = d.low /\ m.high = d.low + d.len - 1 /\ m.space = ram.p_space /\ m.name = d.name
      BY <2>1 DEF IOMap
    <2>4. p < IO_SPACE_MAX /\ ~EndsInPmem(d) /\ \A i \in DOMAIN ram.maps : ~Overlaps(d, ram.maps[i])
      BY <1>3, <2>1, <2>2
    <2>5. IsMap(m, d)
      BY <2>3, <2>4 DEF IsMap
    <2> HIDE DEF p, m, refused
    <2>6. ram' = [ram EXCEPT !.p_space = p, !.maps = Append(ram.maps, m)]
      BY <1>1, <1>3
    <2>7. Append(ram.maps, m) \in Seq(IOMap)
      BY <2>3, MapsParts
    <2>8. /\ ram'.p_space = p /\ ram'.maps = Append(ram.maps, m) /\ ram'.host = ram.host /\ ram'.shadow = ram.shadow
          /\ ram'.value = ram.value /\ ram'.read = ram.read /\ ram'.printed = ram.printed /\ ram'.sent = ram.sent
          /\ ram' \in RamType
      <3> DEFINE s == Append(ram.maps, m)
      <3> HIDE DEF s
      <3>1. s \in Seq(IOMap) /\ p \in Nat /\ ram \in RamType /\ ram' = [ram EXCEPT !.p_space = p, !.maps = s]
        BY <2>2, <2>6, <2>7, RamFields DEF s
      <3> QED
        BY ONLY <3>1 DEF RamType, s
    <2>9. memTypeOK'
      BY <2>8 DEF memTypeOK, RamType
    <2>10. /\ DOMAIN ram'.maps = 1 .. n + 1 /\ DOMAIN ram.maps = 1 .. n
           /\ \A i \in 1 .. n : ram'.maps[i] = ram.maps[i]
           /\ ram'.maps[n + 1] = m
      BY <2>3, <2>8, MapsParts
    <2>11. \A a : Stored(a)' = Stored(a)
      BY <2>8 DEF Stored
    <2>12. \A i \in 1 .. n : /\ ram.maps[i].low \in Nat /\ ram.maps[i].high \in Nat /\ ram.maps[i].space \in Nat
                             /\ ram.maps[i].low <= ram.maps[i].high /\ LastByte(ram.maps[i]) < ram.p_space
                             /\ ram.maps[i].high < m.low \/ m.high < ram.maps[i].low
      <3> TAKE i \in 1 .. n
      <3>1. i \in DOMAIN ram.maps
        BY <2>10
      <3>2. /\ ram.maps[i].low \in Nat /\ ram.maps[i].high \in Nat /\ ram.maps[i].space \in Nat
            /\ ram.maps[i].low <= ram.maps[i].high
            /\ ram.maps[i].space + ram.maps[i].high - ram.maps[i].low < ram.p_space
        BY <2>0, <3>1, MapParts
      <3>3. ~(d.low <= ram.maps[i].high /\ d.low + d.len - 1 >= ram.maps[i].low)
        BY <2>4, <3>1 DEF Overlaps
      <3> QED
        BY SMTT(30), <2>1, <2>3, <3>2, <3>3 DEF LastByte
    <2>13. LastByte(m) < p
      BY <2>1, <2>2, <2>3 DEF LastByte
    <2>14. MapsApart'
      <3>1. \A i \in 1 .. n + 1 : (\E e \in Devices : IsMap(ram'.maps[i], e)) /\ LastByte(ram'.maps[i]) < p
        <4> TAKE i \in 1 .. n + 1
        <4>1. CASE i \in 1 .. n
          <5>1. (\E e \in Devices : IsMap(ram.maps[i], e)) /\ LastByte(ram.maps[i]) < ram.p_space
            BY <2>0, <2>10, <4>1 DEF MapsApart
          <5>2. LastByte(ram.maps[i]) \in Int
            BY <2>12, <4>1 DEF LastByte
          <5> QED
            BY <2>1, <2>2, <2>10, <4>1, <5>1, <5>2
        <4>2. CASE i = n + 1
          BY <2>5, <2>10, <2>13, <4>2
        <4> QED
          BY <2>1, <4>1, <4>2
      <3>2. ASSUME NEW i \in 1 .. n + 1, NEW j \in 1 .. n + 1, i < j
            PROVE  /\ LastByte(ram'.maps[i]) < ram'.maps[j].space
                   /\ ram'.maps[i].high < ram'.maps[j].low \/ ram'.maps[j].high < ram'.maps[i].low
        <4>1. i \in 1 .. n /\ (j \in 1 .. n \/ j = n + 1)
          BY <2>1, <3>2
        <4>2. CASE j \in 1 .. n
          BY <2>0, <2>10, <3>2, <4>1, <4>2 DEF MapsApart
        <4>3. CASE j = n + 1
          BY <2>3, <2>10, <2>12, <4>1, <4>3
        <4> QED
          BY <4>1, <4>2, <4>3
      <3>3. p <= IO_SPACE_MAX
        BY <2>1, <2>2, <2>4
      <3> QED
        BY <2>8, <2>10, <3>1, <3>2, <3>3 DEF MapsApart, IsMap, LastByte
    <2>15. BytesKept'
      <3>1. \A o \in p .. IO_SPACE_MAX - 1 : ram.host[<<"io", o>>] = 0
        <4>1. \A o \in ram.p_space .. IO_SPACE_MAX - 1 : ram.host[<<"io", o>>] = 0
          BY <2>0 DEF BytesKept
        <4>2. \A o \in p .. IO_SPACE_MAX - 1 : o \in ram.p_space .. IO_SPACE_MAX - 1
          BY <2>1, <2>2
        <4> QED
          BY <4>1, <4>2
      <3>2. ASSUME NEW i \in 1 .. n + 1, NEW a \in ram'.maps[i].low .. ram'.maps[i].high, ~InRam(a)
            PROVE  ram.host[<<"io", ram'.maps[i].space + a - ram'.maps[i].low>>] = Stored(a)
        <4>1. CASE i \in 1 .. n
          BY <2>0, <2>10, <3>2, <4>1 DEF BytesKept
        <4>2. CASE i = n + 1
          <5>1. a \in m.low .. m.high
            BY <2>10, <4>2
          <5>2. m.space + a - m.low \in ram.p_space .. IO_SPACE_MAX - 1
            <6> DEFINE z == ram.p_space
                       l == d.low
                       k == d.len
            <6>1. z \in Nat /\ l \in Nat /\ k \in Nat /\ IO_SPACE_MAX \in Nat /\ p \in Nat /\ p >= z + k /\ p < IO_SPACE_MAX
              BY <2>1, <2>2, <2>4
            <6>2. m.space = z /\ m.low = l /\ a \in l .. l + k - 1
              BY <2>3, <5>1
            <6> HIDE DEF z, l, k
            <6>3. z + a - l \in z .. IO_SPACE_MAX - 1
              BY ONLY <6>1, <6>2
            <6> QED
              BY <6>2, <6>3 DEF z
          <5>3. ram.host[<<"io", m.space + a - m.low>>] = 0
            BY <2>0, <5>2 DEF BytesKept
          <5>4. Found(a) = {}
            <6>1. ASSUME NEW j \in 1 .. n PROVE a \notin ram.maps[j].low .. ram.maps[j].high
              <7>1. /\ ram.maps[j].low \in Nat /\ ram.maps[j].high \in Nat
                    /\ ram.maps[j].high < m.low \/ m.high < ram.maps[j].low
                BY <2>12
              <7>2. m.low \in Nat /\ m.high \in Int
                BY <2>1, <2>3
              <7> QED
                BY <5>1, <7>1, <7>2
            <6> QED
              BY <2>10, <6>1 DEF Found, map_inside
          <5>5. \A b \in Touched : ram.shadow[b] # 0 => InRam(b) \/ Found(b) # {}
            BY <2>0 DEF BytesKept
          <5>6. Stored(a) = 0
            BY <3>2, <5>4, <5>5, RamFields DEF Stored
          <5> QED
            BY <2>10, <4>2, <5>3, <5>6
        <4> QED
          BY <2>1, <4>1, <4>2
      <3>3. \A a : Found(a) \subseteq Found(a)'
        BY <2>1, <2>10 DEF Found, map_inside
      <3>4. \A a \in Touched : ram.shadow[a] # 0 => InRam(a) \/ Found(a)' # {}
        <4>1. \A b \in Touched : ram.shadow[b] # 0 => InRam(b) \/ Found(b) # {}
          BY <2>0 DEF BytesKept
        <4> QED
          BY <3>3, <4>1
      <3>5. \A h \in HostBytes : h[1] # "io" => ram.host[h] = Stored(host_to_guest(h))
        BY <2>0 DEF BytesKept
      <3>6. /\ \A o \in ram'.p_space .. IO_SPACE_MAX - 1 : ram'.host[<<"io", o>>] = 0
            /\ \A h \in HostBytes : h[1] # "io" => ram'.host[h] = Stored(host_to_guest(h))'
            /\ \A a \in Touched : ram'.shadow[a] # 0 => InRam(a) \/ Found(a)' # {}
        BY <2>8, <2>11, <3>1, <3>4, <3>5
      <3>7. \A i \in DOMAIN ram'.maps : \A a \in ram'.maps[i].low .. ram'.maps[i].high :
               ~InRam(a) => ram'.host[<<"io", ram'.maps[i].space + a - ram'.maps[i].low>>] = Stored(a)'
        BY <2>8, <2>10, <2>11, <3>2
      <3> QED
        BY <3>6, <3>7 DEF BytesKept, InRam, in_range, host_to_guest
    <2>16. \A k \in DOMAIN ram'.value : ram'.value[k] = Stored(ram.read + k - 1)'
      BY <2>0, <2>8 DEF Stored
    <2> QED
      BY <2>0, <2>8, <2>9, <2>14, <2>15, <2>16 DEF MemInv
  <1> QED
    BY <1>2, <1>3

\* An access to a device stays in it, and outside the arrays.
LEMMA AccessInside ==
    ASSUME memTypeOK, MapsApart, NEW c \in Accesses, NEW i \in Found(c[1]), ~InRam(c[1])
    PROVE  /\ i \in DOMAIN ram.maps
           /\ \A a \in c[1] .. c[1] + c[2] - 1 :
                  a \in ram.maps[i].low .. ram.maps[i].high /\ ~InRam(a) /\ ~InMemory(a)
  <1> DEFINE m == ram.maps[i]
  <1>1. c[1] \in Nat /\ c[2] \in Nat \ {0}
    BY AccessParts
  <1>2. i \in DOMAIN ram.maps /\ c[1] \in m.low .. m.high
    BY <1>1, FoundIs
  <1>3. PICK d \in Devices : IsMap(m, d)
    BY <1>2 DEF MapsApart
  <1>4. m.low = d.low /\ m.high = d.low + d.len - 1 /\ ~EndsInPmem(d)
    BY <1>3 DEF IsMap
  <1>5. Span(d.low, d.len) = m.low .. m.high
    BY <1>4 DEF Span
  <1> HIDE DEF m
  <1>6. ASSUME NEW a \in c[1] .. c[1] + c[2] - 1
        PROVE  a \in m.low .. m.high /\ ~InRam(a) /\ ~InMemory(a)
    <2>1. /\ a \in m.low .. m.high
          /\ \A x \in Areas : in_range(a, x) <=> in_range(c[1], x)
      BY <1>2, <1>4, <1>5, AccessParts
    <2>2. "pmem" \in Areas /\ "sram" \in Areas
      BY MemAssumption
    <2>3. ~InRam(a)
      BY <2>1, <2>2 DEF InRam
    <2> QED
      BY <1>2, <2>1, <2>3, MapParts DEF m
  <1> QED
    BY <1>2, <1>6 DEF m

\* A function on the first numbers is a sequence.
LEMMA SequenceOf == ASSUME NEW n \in Nat, NEW f \in [1 .. n -> Int] PROVE f \in Seq(Int)
  OBVIOUS

\* A load from an array gets what was stored.
LEMMA LoadArray ==
    ASSUME memTypeOK, BytesKept, NEW c \in Accesses, InMemory(c[1])
    PROVE  /\ Bytes(guest_to_host(c[1]), c[2]) \in Seq(Int)
           /\ \A k \in DOMAIN Bytes(guest_to_host(c[1]), c[2]) : Bytes(guest_to_host(c[1]), c[2])[k] = Stored(c[1] + k - 1)
  <1>1. c[1] \in Nat /\ c[2] \in Nat \ {0}
    BY AccessParts
  <1>2. PICK x \in Areas : in_range(c[1], x)
    BY DEF InMemory
  <1>3. Arrays[x].base \in Nat /\ Arrays[x].size \in Nat
    BY MemAssumption
  <1> DEFINE o == c[1] - Arrays[x].base
             v == [k \in 1 .. c[2] |-> ram.host[<<x, (o + k) - 1>>]]
  <1>4. guest_to_host(c[1]) = <<x, o>> /\ o \in Int
    BY <1>1, <1>2, <1>3, GuestToHost
  <1>5. Bytes(guest_to_host(c[1]), c[2]) = v
    BY <1>4 DEF Bytes
  <1>6. ASSUME NEW k \in 1 .. c[2]
        PROVE  ram.host[<<x, (o + k) - 1>>] = Stored(c[1] + k - 1)
    <2> DEFINE a == c[1] + k - 1
    <2>1. a \in c[1] .. c[1] + c[2] - 1
      BY <1>1
    <2>2. in_range(a, x)
      BY <1>2, <2>1, AccessParts
    <2>3. (o + k) - 1 \in 0 .. Arrays[x].size - 1 /\ (o + k) - 1 + Arrays[x].base = a
      BY <1>1, <1>3, <2>2 DEF in_range
    <2> DEFINE h == <<x, (o + k) - 1>>
    <2>4. h \in HostBytes /\ h[1] = x /\ h[2] = (o + k) - 1
      BY <2>3, BytesOf
    <2>5. host_to_guest(h) = a
      BY <2>3, <2>4 DEF host_to_guest
    <2>6. x # "io"
      BY MemAssumption
    <2> HIDE DEF h, a, o
    <2>7. ram.host[h] = Stored(a)
      BY <2>4, <2>5, <2>6 DEF BytesKept
    <2> QED
      BY <2>7 DEF h, a
  <1>7. \A k \in 1 .. c[2] : ram.host[<<x, (o + k) - 1>>] \in Int
    BY <1>6, RamFields
  <1> HIDE DEF o
  <1>8. v \in [1 .. c[2] -> Int] /\ DOMAIN v = 1 .. c[2] /\ \A k \in 1 .. c[2] : v[k] = ram.host[<<x, (o + k) - 1>>]
    BY <1>7
  <1> HIDE DEF v
  <1>9. v \in Seq(Int)
    BY <1>1, <1>8, SequenceOf
  <1> QED
    BY <1>5, <1>6, <1>8, <1>9

\* A load from a device gets what was stored.
LEMMA LoadDevice ==
    ASSUME memTypeOK, MapsApart, BytesKept, NEW c \in Accesses, NEW i \in Found(c[1]), ~InRam(c[1]),
           NEW v, v = Bytes(<<"io", ram.maps[i].space + c[1] - ram.maps[i].low>>, c[2])
    PROVE  v \in Seq(Int) /\ \A k \in DOMAIN v : v[k] = Stored(c[1] + k - 1)
  <1>1. c[1] \in Nat /\ c[2] \in Nat \ {0}
    BY AccessParts
  <1>2. i \in DOMAIN ram.maps /\ \A a \in c[1] .. c[1] + c[2] - 1 : a \in ram.maps[i].low .. ram.maps[i].high /\ ~InRam(a)
    BY AccessInside
  <1> DEFINE s == ram.maps[i].space
             l == ram.maps[i].low
  <1>3. s \in Nat /\ l \in Nat
    BY <1>2, MapParts
  <1>4. v = [k \in 1 .. c[2] |-> ram.host[<<"io", (s + c[1] - l + k) - 1>>]]
    BY DEF Bytes
  <1>5. \A a \in l .. ram.maps[i].high : ~InRam(a) => ram.host[<<"io", s + a - l>>] = Stored(a)
    BY <1>2 DEF BytesKept
  <1> HIDE DEF s, l
  <1>6. ASSUME NEW k \in 1 .. c[2]
        PROVE  ram.host[<<"io", (s + c[1] - l + k) - 1>>] = Stored(c[1] + k - 1)
    <2> DEFINE a == c[1] + k - 1
    <2>1. a \in c[1] .. c[1] + c[2] - 1 /\ (s + c[1] - l + k) - 1 = s + a - l
      BY <1>1, <1>3
    <2>2. a \in l .. ram.maps[i].high /\ ~InRam(a)
      BY <1>2, <2>1 DEF l
    <2> HIDE DEF a
    <2>3. ram.host[<<"io", s + a - l>>] = Stored(a)
      BY <1>5, <2>2
    <2> QED
      BY <2>1, <2>3 DEF a
  <1>7. \A k \in 1 .. c[2] : ram.host[<<"io", (s + c[1] - l + k) - 1>>] \in Int
    BY <1>6, RamFields
  <1>8. v \in [1 .. c[2] -> Int] /\ DOMAIN v = 1 .. c[2] /\ \A k \in 1 .. c[2] : v[k] = ram.host[<<"io", (s + c[1] - l + k) - 1>>]
    BY <1>4, <1>7
  <1>9. v \in Seq(Int)
    BY <1>1, <1>8, SequenceOf
  <1> QED
    BY <1>6, <1>8, <1>9

\* A load of the program keeps the memory.
LEMMA LoadStep ==
    ASSUME memTypeOK, MemInv, NEW c \in Accesses, paddr_read(c[1], c[2])
    PROVE  memTypeOK' /\ MemInv'
  <1> DEFINE j == find_mapid_by_addr(c[1])
             m == ram.maps[j]
             va == Bytes(guest_to_host(c[1]), c[2])
             vd == Bytes(<<"io", m.space + c[1] - m.low>>, c[2])
  <1>1. /\ ~ram.panic
        /\ InMemory(c[1]) => ram' = [ram EXCEPT !.value = va, !.read = c[1]]
        /\ ~InMemory(c[1]) /\ j = -1 => ram' = [ram EXCEPT !.panic = TRUE]
        /\ ~InMemory(c[1]) /\ j # -1 => ram' = [map_read(ram, c[1], c[2], j) EXCEPT !.read = c[1]]
    BY DEF paddr_read
  <1>2. MapsApart /\ BytesKept /\ ram.printed = ram.sent
    BY <1>1 DEF MemInv
  <1>3. c[1] \in Nat /\ c[2] \in Nat \ {0}
    BY AccessParts
  <1>4. ram \in RamType
    BY RamFields
  <1>5. ASSUME NEW v \in Seq(Int), NEW p \in BOOLEAN,
               ram' = [ram EXCEPT !.value = v, !.read = c[1], !.panic = p],
               \A k \in DOMAIN v : v[k] = Stored(c[1] + k - 1)
        PROVE  memTypeOK' /\ MemInv'
    <2>1. /\ ram' \in RamType /\ ram'.value = v /\ ram'.read = c[1]
          /\ ram'.host = ram.host /\ ram'.shadow = ram.shadow /\ ram'.maps = ram.maps /\ ram'.p_space = ram.p_space
          /\ ram'.printed = ram.printed /\ ram'.sent = ram.sent
      <3> DEFINE a == c[1]
      <3>1. a \in Nat /\ v \in Seq(Int) /\ p \in BOOLEAN /\ ram' = [ram EXCEPT !.value = v, !.read = a, !.panic = p]
        BY <1>3, <1>5
      <3> HIDE DEF a
      <3>2. /\ ram' \in RamType /\ ram'.value = v /\ ram'.read = a
            /\ ram'.host = ram.host /\ ram'.shadow = ram.shadow /\ ram'.maps = ram.maps /\ ram'.p_space = ram.p_space
            /\ ram'.printed = ram.printed /\ ram'.sent = ram.sent
        BY ONLY <1>4, <3>1 DEF RamType
      <3> QED
        BY <3>2 DEF a
    <2>2. memTypeOK'
      BY <2>1 DEF memTypeOK, RamType
    <2>3. MapsApart'
      BY <1>2, <2>1 DEF MapsApart, IsMap, LastByte
    <2>4. \A a : Stored(a)' = Stored(a)
      BY <2>1 DEF Stored
    <2>5. \A a : Found(a)' = Found(a)
      BY <2>1 DEF Found, map_inside
    <2>6. BytesKept'
      BY <1>2, <2>1, <2>4, <2>5 DEF BytesKept, InRam, in_range, host_to_guest
    <2>7. \A k \in DOMAIN ram'.value : ram'.value[k] = Stored(ram.read + k - 1)'
      BY <1>5, <2>1 DEF Stored
    <2> QED
      BY <1>2, <2>1, <2>2, <2>3, <2>6, <2>7 DEF MemInv
  <1>6. CASE InMemory(c[1])
    <2>1. va \in Seq(Int) /\ \A k \in DOMAIN va : va[k] = Stored(c[1] + k - 1)
      BY <1>2, <1>6, LoadArray
    <2>2. ram' = [ram EXCEPT !.value = va, !.read = c[1]]
      BY <1>1, <1>6
    <2> HIDE DEF va
    <2>3. [ram EXCEPT !.value = va, !.read = c[1]] = [ram EXCEPT !.value = va, !.read = c[1], !.panic = FALSE]
      BY <1>1, <1>4 DEF RamType
    <2> QED
      BY <1>5, <2>1, <2>2, <2>3
  <1>7. CASE ~InMemory(c[1]) /\ j = -1
    <2>1. ram' \in RamType /\ ram'.panic
      BY <1>1, <1>4, <1>7, Panicked
    <2> QED
      BY <2>1 DEF memTypeOK, RamType, MemInv
  <1>8. CASE ~InMemory(c[1]) /\ j # -1
    <2>1. j \in Found(c[1])
      <3>1. Found(c[1]) # {}
        BY <1>8 DEF find_mapid_by_addr
      <3>2. PICK i \in Found(c[1]) : TRUE
        BY <3>1
      <3> QED
        BY <1>2, <1>3, <3>2, FoundIs
    <2>2. ~InRam(c[1])
      BY <1>8, MemAssumption DEF InMemory, InRam
    <2> DEFINE p == m.name = "serial"
    <2> HIDE DEF j
    <2>0. p \in BOOLEAN
      OBVIOUS
    <2>3. vd \in Seq(Int) /\ \A k \in DOMAIN vd : vd[k] = Stored(c[1] + k - 1)
      BY <1>2, <2>1, <2>2, LoadDevice
    <2>4. invoke_callback(ram, m, c[1] - m.low, c[2], FALSE) = IF p THEN [ram EXCEPT !.panic = TRUE] ELSE ram
      BY DEF invoke_callback
    <2>5. map_read(ram, c[1], c[2], j) = [(IF p THEN [ram EXCEPT !.panic = TRUE] ELSE ram) EXCEPT !.value = vd]
      BY <2>4 DEF map_read
    <2> HIDE DEF vd, p
    <2>6. [[(IF p THEN [ram EXCEPT !.panic = TRUE] ELSE ram) EXCEPT !.value = vd] EXCEPT !.read = c[1]]
             = [ram EXCEPT !.value = vd, !.read = c[1], !.panic = p]
      <3>1. CASE p
        BY <1>4, <3>1 DEF RamType
      <3>2. CASE p = FALSE
        BY <1>1, <1>4, <3>2 DEF RamType
      <3> QED
        BY <2>0, <3>1, <3>2
    <2>7. ram' = [map_read(ram, c[1], c[2], j) EXCEPT !.read = c[1]]
      BY <1>1, <1>8 DEF j
    <2>8. ram' = [ram EXCEPT !.value = vd, !.read = c[1], !.panic = p]
      BY <2>5, <2>6, <2>7, Zenon
    <2> QED
      BY <1>5, <2>0, <2>3, <2>8
  <1> QED
    BY <1>6, <1>7, <1>8

\* What a store of n bytes from v on makes of a sequence of bytes that
\* begins at o.
Over(old, k, n, v) == IF k \in 0 .. n - 1 THEN v + k ELSE old

\* A store, as the program sees it and as the arrays do.
StoresTo(c, v, g) ==
    /\ ram'.shadow = [a \in Touched |-> Over(ram.shadow[a], a - c[1], c[2], v)]
    /\ ram'.host = [h \in HostBytes |-> IF h[1] = g[1] THEN Over(ram.host[h], h[2] - g[2], c[2], v) ELSE ram.host[h]]
    /\ ram'.maps = ram.maps /\ ram'.p_space = ram.p_space

\* What is stored after a store.
LEMMA StoredAfter ==
    ASSUME memTypeOK, NEW c \in Accesses, NEW v \in Int, NEW g, StoresTo(c, v, g)
    PROVE  /\ \A a \in Int : Stored(a)' = Over(Stored(a), a - c[1], c[2], v)
           /\ \A a : Found(a)' = Found(a)
           /\ MapsApart => MapsApart'
  <1>1. c[1] \in Nat /\ c[2] \in Nat \ {0} /\ \A a \in c[1] .. c[1] + c[2] - 1 : a \in Touched
    BY AccessParts
  <1>2. DOMAIN ram.shadow = Touched /\ DOMAIN ram'.shadow = Touched
        /\ \A a \in Touched : ram'.shadow[a] = Over(ram.shadow[a], a - c[1], c[2], v)
    BY RamFields DEF StoresTo
  <1>3. ASSUME NEW a \in Int PROVE Stored(a)' = Over(Stored(a), a - c[1], c[2], v)
    <2>1. CASE a \in Touched
      BY <1>2, <2>1 DEF Stored
    <2>2. CASE a \notin Touched
      <3>1. ~(a - c[1] \in 0 .. c[2] - 1)
        BY <1>1, <2>2
      <3> QED
        BY <1>2, <2>2, <3>1 DEF Stored, Over
    <2> QED
      BY <2>1, <2>2
  <1>4. ram'.maps = ram.maps /\ ram'.p_space = ram.p_space
    BY DEF StoresTo
  <1>5. \A a : Found(a)' = Found(a)
    BY <1>4 DEF Found, map_inside
  <1>6. MapsApart => MapsApart'
    BY <1>4 DEF MapsApart, IsMap, LastByte
  <1> QED
    BY <1>3, <1>5, <1>6

\* Where a byte of a device is in the array "io".
LEMMA Placed ==
    ASSUME memTypeOK, MapsApart, NEW i \in DOMAIN ram.maps, NEW a \in ram.maps[i].low .. ram.maps[i].high,
           NEW o, o = ram.maps[i].space + a - ram.maps[i].low
    PROVE  /\ o \in 0 .. IO_SPACE_MAX - 1 /\ a \in Int /\ o \in Int
           /\ o \in ram.maps[i].space .. ram.maps[i].space + ram.maps[i].high - ram.maps[i].low
  <1> DEFINE s == ram.maps[i].space
             l == ram.maps[i].low
             t == ram.maps[i].high
             p == ram.p_space
  <1>1. s \in Nat /\ l \in Nat /\ t \in Nat /\ s + t - l < p /\ p <= IO_SPACE_MAX /\ IO_SPACE_MAX \in Nat /\ p \in Nat
    BY MapParts, RamFields
  <1>2. a \in l .. t /\ o = s + a - l
    OBVIOUS
  <1> HIDE DEF s, l, t, p
  <1>3. o \in 0 .. IO_SPACE_MAX - 1 /\ a \in Int /\ o \in Int /\ o \in s .. s + t - l
    BY ONLY <1>1, <1>2
  <1> QED
    BY <1>3 DEF s, l, t

\* The bytes of an array that a store to it changes are those of the
\* addresses it stores to.
LEMMA StoreArray ==
    ASSUME memTypeOK, MapsApart, BytesKept, NEW c \in Accesses, NEW v \in Int, NEW x \in {"pmem", "sram"}, in_range(c[1], x),
           StoresTo(c, v, <<x, c[1] - Arrays[x].base>>)
    PROVE  BytesKept'
  <1> DEFINE g == <<x, c[1] - Arrays[x].base>>
             b == Arrays[x].base
             sp == 0 .. c[2] - 1
  <1>1. c[1] \in Nat /\ c[2] \in Nat \ {0} /\ x \in Areas /\ b \in Nat /\ x # "io"
    BY AccessParts, MemAssumption
  <1>2. \A a \in Int : a - c[1] \in sp => \A y \in Areas : in_range(a, y) <=> in_range(c[1], y)
    <2>1. \A a \in Int : a - c[1] \in sp => a \in c[1] .. c[1] + c[2] - 1
      BY <1>1
    <2> QED
      BY <2>1, AccessParts
  <1>3. \A a \in Int : a - c[1] \in sp => in_range(a, x) /\ InRam(a)
    BY <1>1, <1>2 DEF InRam
  <1>4. /\ \A a \in Int : Stored(a)' = Over(Stored(a), a - c[1], c[2], v)
        /\ \A a : Found(a)' = Found(a)
    BY StoredAfter
  <1>5. /\ g[1] = x /\ g[2] = c[1] - b
        /\ \A h \in HostBytes : ram'.host[h] = IF h[1] = g[1] THEN Over(ram.host[h], h[2] - g[2], c[2], v) ELSE ram.host[h]
    BY DEF StoresTo
  <1>6. ram'.maps = ram.maps /\ ram'.p_space = ram.p_space
    BY DEF StoresTo
  <1> HIDE DEF g, b
  <1>7. \A o \in ram'.p_space .. IO_SPACE_MAX - 1 : ram'.host[<<"io", o>>] = 0
    <2> TAKE o \in ram'.p_space .. IO_SPACE_MAX - 1
    <2>1. ram.host[<<"io", o>>] = 0 /\ o \in 0 .. IO_SPACE_MAX - 1
      BY <1>6, RamFields, MemAssumption DEF BytesKept
    <2>2. <<"io", o>> \in HostBytes
      BY <2>1, BytesOf
    <2> QED
      BY <1>1, <1>5, <2>1, <2>2
  <1>8. ASSUME NEW i \in DOMAIN ram.maps, NEW a \in ram.maps[i].low .. ram.maps[i].high, ~InRam(a)
        PROVE  ram'.host[<<"io", ram.maps[i].space + a - ram.maps[i].low>>] = Stored(a)'
    <2> DEFINE o == ram.maps[i].space + a - ram.maps[i].low
    <2>1. o \in 0 .. IO_SPACE_MAX - 1 /\ a \in Int
      BY Placed
    <2>2. ram.host[<<"io", o>>] = Stored(a)
      BY <1>8 DEF BytesKept
    <2> HIDE DEF o
    <2>3. <<"io", o>> \in HostBytes
      BY <2>1, BytesOf
    <2>4. ram'.host[<<"io", o>>] = ram.host[<<"io", o>>]
      BY <1>1, <1>5, <2>3
    <2>5. Stored(a)' = Stored(a)
      BY <1>3, <1>4, <1>8, <2>1 DEF Over
    <2> QED
      BY <2>2, <2>4, <2>5 DEF o
  <1>9. ASSUME NEW h \in HostBytes, h[1] # "io"
        PROVE  ram'.host[h] = Stored(host_to_guest(h))'
    <2> DEFINE a == host_to_guest(h)
    <2>1. /\ h[1] \in Areas /\ Arrays[h[1]].base \in Nat /\ h[2] \in Nat
          /\ a = h[2] + Arrays[h[1]].base /\ a \in Int /\ in_range(a, h[1])
      BY <1>9, HostToGuest
    <2>2. ram.host[h] = Stored(a)
      BY <1>9 DEF BytesKept
    <2> HIDE DEF a
    <2>3. CASE h[1] = x
      <3>1. h[2] - g[2] = a - c[1]
        BY <1>1, <1>5, <2>1, <2>3 DEF b
      <3> QED
        BY <1>4, <1>5, <2>1, <2>2, <2>3, <3>1 DEF a
    <2>4. CASE h[1] # x
      <3>1. ~(a - c[1] \in sp)
        BY <1>1, <1>3, <2>1, <2>4, OneArray
      <3> QED
        BY <1>4, <1>5, <2>1, <2>2, <2>4, <3>1 DEF a, Over
    <2> QED
      BY <2>3, <2>4
  <1>10. \A a \in Touched : ram'.shadow[a] # 0 => InRam(a) \/ Found(a)' # {}
    <2> TAKE a \in Touched
    <2>1. a \in Int
      BY TouchedInt
    <2>2. ram'.shadow[a] = Over(ram.shadow[a], a - c[1], c[2], v)
      BY DEF StoresTo
    <2>3. ram.shadow[a] # 0 => InRam(a) \/ Found(a) # {}
      BY DEF BytesKept
    <2> QED
      BY <1>3, <1>4, <2>1, <2>2, <2>3 DEF Over
  <1> QED
    BY <1>6, <1>7, <1>8, <1>9, <1>10 DEF BytesKept, InRam, in_range, host_to_guest

\* The same for a device.
LEMMA StoreDevice ==
    ASSUME memTypeOK, MapsApart, BytesKept, NEW c \in Accesses, NEW v \in Int, NEW i \in Found(c[1]), ~InRam(c[1]),
           StoresTo(c, v, <<"io", ram.maps[i].space + c[1] - ram.maps[i].low>>)
    PROVE  BytesKept'
  <1> DEFINE g == <<"io", ram.maps[i].space + c[1] - ram.maps[i].low>>
             sp == 0 .. c[2] - 1
             s == ram.maps[i].space
             l == ram.maps[i].low
             t == ram.maps[i].high
  <1>1. c[1] \in Nat /\ c[2] \in Nat \ {0}
    BY AccessParts
  <1>2. i \in DOMAIN ram.maps /\ \A a \in Int : a - c[1] \in sp => a \in l .. t /\ ~InRam(a) /\ ~InMemory(a)
    <2>1. \A a \in Int : a - c[1] \in sp => a \in c[1] .. c[1] + c[2] - 1
      BY <1>1
    <2> QED
      BY <2>1, AccessInside
  <1>3. s \in Nat /\ l \in Nat /\ t \in Nat /\ s + t - l < ram.p_space /\ ram.p_space \in Nat /\ ram.p_space <= IO_SPACE_MAX
        /\ IO_SPACE_MAX \in Nat
    BY <1>2, MapParts, RamFields
  <1>4. /\ \A a \in Int : Stored(a)' = Over(Stored(a), a - c[1], c[2], v)
        /\ \A a : Found(a)' = Found(a)
    BY StoredAfter
  <1>5. /\ g[1] = "io" /\ g[2] = s + c[1] - l
        /\ \A h \in HostBytes : ram'.host[h] = IF h[1] = g[1] THEN Over(ram.host[h], h[2] - g[2], c[2], v) ELSE ram.host[h]
    BY DEF StoresTo
  <1>6. ram'.maps = ram.maps /\ ram'.p_space = ram.p_space
    BY DEF StoresTo
  <1> HIDE DEF g, s, l, t
  \* The bytes stored to are in the space of the device.
  <1>7. \A o \in Int : o - g[2] \in sp => o \in s .. s + t - l
    <2> TAKE o \in Int
    <2> HAVE o - g[2] \in sp
    <2> DEFINE a == o - s + l
    <2>1. a \in Int /\ a - c[1] \in sp /\ o = s + a - l
      BY <1>1, <1>3, <1>5
    <2> HIDE DEF a
    <2>2. a \in l .. t
      BY <1>2, <2>1
    <2> QED
      BY <1>3, <2>1, <2>2
  <1>8. \A o \in ram'.p_space .. IO_SPACE_MAX - 1 : ram'.host[<<"io", o>>] = 0
    <2> TAKE o \in ram'.p_space .. IO_SPACE_MAX - 1
    <2>1. ram.host[<<"io", o>>] = 0
      BY <1>6 DEF BytesKept
    <2>2. o \in Int /\ o \in 0 .. IO_SPACE_MAX - 1 /\ o >= ram.p_space
      BY <1>3, <1>6
    <2>3. <<"io", o>> \in HostBytes
      BY <2>2, BytesOf
    <2>4. ~(o - g[2] \in sp)
      BY <1>3, <1>7, <2>2
    <2> QED
      BY <1>5, <2>1, <2>3, <2>4 DEF Over
  <1>9. ASSUME NEW j \in DOMAIN ram.maps, NEW a \in ram.maps[j].low .. ram.maps[j].high, ~InRam(a)
        PROVE  ram'.host[<<"io", ram.maps[j].space + a - ram.maps[j].low>>] = Stored(a)'
    <2> DEFINE o == ram.maps[j].space + a - ram.maps[j].low
    <2>1. /\ o \in 0 .. IO_SPACE_MAX - 1 /\ a \in Int /\ o \in Int
          /\ o \in ram.maps[j].space .. ram.maps[j].space + ram.maps[j].high - ram.maps[j].low
      BY Placed
    <2>2. ram.host[<<"io", o>>] = Stored(a)
      BY <1>9 DEF BytesKept
    <2>3. <<"io", o>> \in HostBytes
      BY <2>1, BytesOf
    <2>4. ram'.host[<<"io", o>>] = Over(Stored(a), o - g[2], c[2], v)
      <3> HIDE DEF o
      <3> QED
        BY <1>5, <2>2, <2>3
    <2>5. CASE i = j
      <3>1. o - g[2] = a - c[1]
        BY <1>1, <1>3, <1>5, <2>1, <2>5 DEF s, l
      <3> QED
        BY <1>4, <2>1, <2>4, <3>1
    <2>6. CASE i # j
      <3>1. /\ \/ s + t - l < ram.maps[j].space
               \/ ram.maps[j].space + ram.maps[j].high - ram.maps[j].low < s
            /\ t < ram.maps[j].low \/ ram.maps[j].high < l
        <4>1. i \in Int /\ j \in Int
          BY <1>2, MapsParts
        <4>2. i < j \/ j < i
          BY <2>6, <4>1
        <4> QED
          BY <1>2, <4>2 DEF MapsApart, LastByte, s, t, l
      <3>2. ram.maps[j].low \in Nat /\ ram.maps[j].high \in Nat /\ ram.maps[j].space \in Nat
        BY MapsParts
      <3>3. ~(o - g[2] \in sp)
        <4> HIDE DEF o
        <4>1. o \notin s .. s + t - l
          BY <1>3, <2>1, <3>1, <3>2
        <4> QED
          BY <1>7, <2>1, <4>1
      <3>4. a \notin l .. t
        BY <1>3, <3>1, <3>2
      <3>5. ~(a - c[1] \in sp)
        BY <1>2, <2>1, <3>4
      <3> QED
        BY <1>4, <2>1, <2>4, <3>3, <3>5 DEF Over
    <2> QED
      BY <2>5, <2>6
  <1>10. ASSUME NEW h \in HostBytes, h[1] # "io"
         PROVE  ram'.host[h] = Stored(host_to_guest(h))'
    <2> DEFINE a == host_to_guest(h)
    <2>1. h[1] \in Areas /\ a \in Int /\ in_range(a, h[1])
      BY <1>10, HostToGuest
    <2>2. ram.host[h] = Stored(a)
      BY <1>10 DEF BytesKept
    <2> HIDE DEF a
    <2>3. ~(a - c[1] \in sp)
      BY <1>2, <2>1 DEF InMemory
    <2> QED
      BY <1>4, <1>5, <1>10, <2>1, <2>2, <2>3 DEF a, Over
  <1>11. \A a \in Touched : ram'.shadow[a] # 0 => InRam(a) \/ Found(a)' # {}
    <2> TAKE a \in Touched
    <2>1. a \in Int
      BY TouchedInt
    <2>2. ram'.shadow[a] = Over(ram.shadow[a], a - c[1], c[2], v)
      BY DEF StoresTo
    <2>3. ram.shadow[a] # 0 => InRam(a) \/ Found(a) # {}
      BY DEF BytesKept
    <2>4. a - c[1] \in sp => i \in Found(a)
      BY <1>2, <2>1 DEF Found, map_inside, l, t
    <2> QED
      BY <1>4, <2>1, <2>2, <2>3, <2>4 DEF Over
  <1> QED
    BY <1>6, <1>8, <1>9, <1>10, <1>11 DEF BytesKept, InRam, in_range, host_to_guest

\* A store of the program keeps the memory.
LEMMA StoreStep ==
    ASSUME memTypeOK, MemInv, NEW c \in Accesses, paddr_write(c[1], c[2])
    PROVE  memTypeOK' /\ MemInv'
  <1> DEFINE j == find_mapid_by_addr(c[1])
             m == ram.maps[j]
             v == 10 * (ram.written + 1)
             w == ram.written + 1
             sh == [a \in DOMAIN ram.shadow |-> IF a - c[1] \in 0 .. c[2] - 1 THEN v + a - c[1] ELSE ram.shadow[a]]
             st == IF j # -1 /\ ~InMemory(c[1]) /\ m.name = "serial" THEN Append(ram.sent, v) ELSE ram.sent
             r == [ram EXCEPT !.written = w, !.value = <<>>, !.read = c[1], !.shadow = sh, !.sent = st]
             hs(g) == [h \in HostBytes |-> IF h[1] = g[1] THEN Over(ram.host[h], h[2] - g[2], c[2], v) ELSE ram.host[h]]
             f(g) == [r EXCEPT !.host = hs(g)]
             gd == <<"io", m.space + c[1] - m.low>>
  <1>1. /\ ~ram.panic
        /\ InRam(c[1]) => ram' = host_write(r, guest_to_host(c[1]), c[2], v)
        /\ ~InRam(c[1]) /\ j = -1 => ram' = [r EXCEPT !.panic = TRUE]
        /\ ~InRam(c[1]) /\ j # -1 => ram' = map_write(r, c[1], c[2], v, j)
    BY DEF paddr_write, InRam
  <1>2. MapsApart /\ BytesKept /\ ram.printed = ram.sent
    BY <1>1 DEF MemInv
  <1>3. c[1] \in Nat /\ c[2] \in Nat \ {0} /\ w \in Nat /\ v \in Int
    BY AccessParts, RamFields
  <1>4. ram \in RamType /\ st \in Seq(Int)
    BY <1>3, RamFields
  <1>5. sh = [a \in Touched |-> Over(ram.shadow[a], a - c[1], c[2], v)] /\ sh \in Shadow
    <2>1. DOMAIN ram.shadow = Touched /\ \A a \in Touched : ram.shadow[a] \in Int
      BY RamFields
    <2>2. \A a \in Touched : (IF a - c[1] \in 0 .. c[2] - 1 THEN v + a - c[1] ELSE ram.shadow[a])
                                = Over(ram.shadow[a], a - c[1], c[2], v)
      BY <1>3, TouchedInt DEF Over
    <2>3. \A a \in Touched : Over(ram.shadow[a], a - c[1], c[2], v) \in Int
      BY <1>3, <2>1, TouchedInt DEF Over
    <2> HIDE DEF v
    <2> QED
      BY <2>1, <2>2, <2>3 DEF Shadow
  <1> HIDE DEF sh, st, v, w
  <1>6. ASSUME NEW x, NEW o \in Int
        PROVE  host_write(r, <<x, o>>, c[2], v) = f(<<x, o>>) /\ hs(<<x, o>>) \in Contents
    <2> DEFINE g == <<x, o>>
    <2>1. g[1] = x /\ g[2] = o
      OBVIOUS
    <2>2. r.host = ram.host /\ DOMAIN ram.host = HostBytes /\ \A h \in HostBytes : ram.host[h] \in Int
      BY <1>4, RamFields DEF RamType
    <2> HIDE DEF g, r
    <2>3. \A h \in HostBytes : h[2] \in Int
      BY BytesOf
    <2>4. \A h \in HostBytes : (IF h[1] = g[1] /\ h[2] - g[2] \in 0 .. c[2] - 1 THEN v + h[2] - g[2] ELSE ram.host[h])
                                  = IF h[1] = g[1] THEN Over(ram.host[h], h[2] - g[2], c[2], v) ELSE ram.host[h]
      BY <1>3, <2>1, <2>3 DEF Over
    <2>5. \A h \in HostBytes : (IF h[1] = g[1] THEN Over(ram.host[h], h[2] - g[2], c[2], v) ELSE ram.host[h]) \in Int
      BY <1>3, <2>1, <2>2, <2>3 DEF Over
    <2>6. hs(g) \in Contents
      BY <2>5 DEF Contents
    <2>7. host_write(r, g, c[2], v) = f(g)
      <3>1. [h \in DOMAIN r.host |-> IF h[1] = g[1] /\ h[2] - g[2] \in 0 .. c[2] - 1 THEN v + h[2] - g[2] ELSE r.host[h]] = hs(g)
        BY <2>2, <2>4
      <3> QED
        BY <3>1 DEF host_write
    <2> QED
      BY <2>6, <2>7 DEF g
  <1>7. /\ r \in RamType /\ r.host = ram.host /\ r.shadow = sh /\ r.maps = ram.maps /\ r.p_space = ram.p_space
        /\ r.value = <<>> /\ r.printed = ram.printed /\ r.sent = st
    <2> DEFINE a == c[1]
               e == <<>>
    <2>1. /\ a \in Nat /\ e \in Seq(Int) /\ w \in Nat /\ sh \in Shadow /\ st \in Seq(Int) /\ ram \in RamType
          /\ r = [ram EXCEPT !.written = w, !.value = e, !.read = a, !.shadow = sh, !.sent = st]
      BY <1>3, <1>4, <1>5
    <2> HIDE DEF r, a, e
    <2>2. /\ r \in RamType /\ r.host = ram.host /\ r.shadow = sh /\ r.maps = ram.maps /\ r.p_space = ram.p_space
          /\ r.value = e /\ r.printed = ram.printed /\ r.sent = st
      BY ONLY <2>1 DEF RamType
    <2> QED
      BY <2>2 DEF e
  <1> HIDE DEF r
  <1>7a. ASSUME NEW x, NEW o \in Int, NEW q, q = f(<<x, o>>)
         PROVE  /\ q \in RamType /\ q.host = hs(<<x, o>>) /\ q.shadow = sh /\ q.maps = ram.maps /\ q.p_space = ram.p_space
                /\ q.value = <<>> /\ q.printed = ram.printed /\ q.sent = st
    <2> DEFINE k == hs(<<x, o>>)
    <2>1. k \in Contents /\ q = [r EXCEPT !.host = k]
      BY <1>6, <1>7a
    <2> HIDE DEF k
    <2>2. /\ q \in RamType /\ q.host = k /\ q.shadow = r.shadow /\ q.maps = r.maps /\ q.p_space = r.p_space
          /\ q.value = r.value /\ q.printed = r.printed /\ q.sent = r.sent
      BY ONLY <1>7, <2>1 DEF RamType
    <2> QED
      BY <1>7, <2>2 DEF k
  <1> HIDE DEF f
  \* However the store ends, and whatever is printed.
  <1>8. ASSUME NEW x, NEW o \in Int, ram' \in RamType,
               ram'.host = hs(<<x, o>>), ram'.shadow = sh, ram'.maps = ram.maps, ram'.p_space = ram.p_space, ram'.value = <<>>,
               ram'.printed = ram'.sent,
               StoresTo(c, v, <<x, o>>) => BytesKept'
        PROVE  memTypeOK' /\ MemInv'
    <2>1. StoresTo(c, v, <<x, o>>)
      BY <1>5, <1>8 DEF StoresTo
    <2>2. MapsApart'
      BY <1>2, <1>3, <2>1, StoredAfter
    <2>3. DOMAIN ram'.value = {}
      BY <1>8
    <2> QED
      BY <1>8, <2>1, <2>2, <2>3 DEF memTypeOK, RamType, MemInv
  <1> HIDE DEF hs
  <1>9. CASE InRam(c[1])
    <2>1. PICK x \in {"pmem", "sram"} : in_range(c[1], x)
      BY <1>9 DEF InRam
    <2> DEFINE o == c[1] - Arrays[x].base
    <2>2. x \in Areas /\ o \in Int /\ guest_to_host(c[1]) = <<x, o>> /\ InMemory(c[1])
      BY <1>3, <2>1, GuestToHost, MemAssumption DEF InMemory
    <2>3. ram' = f(<<x, o>>) /\ st = ram.sent
      BY <1>1, <1>6, <1>9, <2>2 DEF st
    <2>4. StoresTo(c, v, <<x, o>>) => BytesKept'
      BY <1>2, <1>3, <2>1, StoreArray
    <2>5. /\ ram' \in RamType /\ ram'.host = hs(<<x, o>>) /\ ram'.shadow = sh /\ ram'.maps = ram.maps /\ ram'.p_space = ram.p_space
          /\ ram'.value = <<>> /\ ram'.printed = ram.printed /\ ram'.sent = st
      BY <1>7a, <2>2, <2>3
    <2> HIDE DEF o
    <2> QED
      BY <1>2, <1>8, <2>2, <2>3, <2>4, <2>5
  <1>10. CASE ~InRam(c[1]) /\ j = -1
    <2>1. ram' \in RamType /\ ram'.panic
      BY <1>1, <1>7, <1>10, Panicked
    <2> QED
      BY <2>1 DEF memTypeOK, RamType, MemInv
  <1>11. CASE ~InRam(c[1]) /\ j # -1
    <2>1. j \in Found(c[1]) /\ j \in DOMAIN ram.maps
      <3>1. Found(c[1]) # {}
        BY <1>11 DEF find_mapid_by_addr
      <3>2. PICK i \in Found(c[1]) : TRUE
        BY <3>1
      <3> QED
        BY <1>2, <1>3, <3>2, FoundIs
    <2>2. ~InMemory(c[1])
      <3>1. c[1] \in c[1] .. c[1] + c[2] - 1
        BY <1>3
      <3> QED
        BY <1>2, <1>11, <2>1, <3>1, AccessInside
    <2> DEFINE o == m.space + c[1] - m.low
    <2>3. m.space \in Nat /\ m.low \in Nat /\ o \in Int /\ c[1] \in m.low .. m.high
      <3>1. m.space \in Nat /\ m.low \in Nat /\ c[1] \in m.low .. m.high
        BY <1>2, <1>3, <2>1, MapParts, FoundIs
      <3> QED
        BY <1>3, <3>1
    <2> DEFINE q == f(<<"io", o>>)
    <2>4. ram' = invoke_callback(q, m, c[1] - m.low, c[2], TRUE)
      BY <1>1, <1>6, <1>11, <2>3 DEF map_write
    <2>5. StoresTo(c, v, <<"io", o>>) => BytesKept'
      BY <1>2, <1>3, <1>11, <2>1, StoreDevice
    <2>6. /\ q \in RamType /\ q.host = hs(<<"io", o>>) /\ q.shadow = sh /\ q.maps = ram.maps /\ q.p_space = ram.p_space
          /\ q.value = <<>> /\ q.printed = ram.printed /\ q.sent = st
      BY <1>7a, <2>3
    <2> HIDE DEF q, o
    <2>7. CASE m.name # "serial"
      <3>1. ram' = q /\ st = ram.sent
        BY <2>4, <2>7 DEF invoke_callback, st
      <3> QED
        BY <1>2, <1>8, <2>3, <2>5, <2>6, <3>1
    <2>8. CASE m.name = "serial" /\ c[2] = 1 /\ c[1] - m.low = 0
      <3> DEFINE b == q.host[<<"io", m.space>>]
                 pr == Append(q.printed, b)
      <3>1. o = m.space
        BY <1>3, <2>3, <2>8 DEF o
      <3>2. o \in 0 .. IO_SPACE_MAX - 1
        BY <1>2, <2>1, <2>3, Placed DEF o
      <3>3. b = v
        <4>1. <<"io", o>> \in HostBytes
          BY <3>2, BytesOf
        <4>2. hs(<<"io", o>>)[<<"io", o>>] = Over(ram.host[<<"io", o>>], o - o, c[2], v)
          BY <4>1 DEF hs
        <4>3. Over(ram.host[<<"io", o>>], o - o, c[2], v) = v
          BY <1>3, <2>3 DEF Over
        <4> QED
          BY <2>6, <3>1, <4>2, <4>3
      <3>4. ram' = [q EXCEPT !.printed = pr]
        BY <2>4, <2>8 DEF invoke_callback
      <3>5. pr = Append(ram.sent, v) /\ st = Append(ram.sent, v) /\ pr \in Seq(Int)
        BY <1>2, <1>3, <1>4, <1>11, <2>2, <2>6, <2>8, <3>3, RamFields DEF st
      <3> HIDE DEF b, pr
      <3>6. /\ ram' \in RamType /\ ram'.printed = pr /\ ram'.host = q.host /\ ram'.shadow = q.shadow /\ ram'.maps = q.maps
            /\ ram'.p_space = q.p_space /\ ram'.value = q.value /\ ram'.sent = q.sent
        BY ONLY <2>6, <3>4, <3>5 DEF RamType
      <3> QED
        BY <1>8, <2>3, <2>5, <2>6, <3>5, <3>6
    <2>9. CASE m.name = "serial" /\ ~(c[2] = 1 /\ c[1] - m.low = 0)
      <3>1. ram' = [q EXCEPT !.panic = TRUE]
        BY <2>4, <2>9 DEF invoke_callback
      <3>2. ram' \in RamType /\ ram'.panic
        BY <2>6, <3>1, Panicked
      <3> QED
        BY <3>2 DEF memTypeOK, RamType, MemInv
    <2> QED
      BY <2>7, <2>8, <2>9
  <1> QED
    BY <1>9, <1>10, <1>11

\* What is in the arrays is what was stored.
LEMMA MemKept == ASSUME memTypeOK, MemInv PROVE MemoryKept
  <1> SUFFICES ASSUME ~ram.panic PROVE MemoryKept
    BY DEF MemoryKept
  <1>1. MapsApart /\ BytesKept /\ ram.printed = ram.sent
        /\ \A k \in DOMAIN ram.value : ram.value[k] = Stored(ram.read + k - 1)
    BY DEF MemInv
  <1>2. ASSUME NEW a \in Touched PROVE HeldAt(a) = ram.shadow[a]
    <2>1. a \in Int /\ Stored(a) = ram.shadow[a]
      BY TouchedInt, RamFields DEF Stored
    <2>2. CASE InMemory(a)
      <3>1. PICK x \in Areas : in_range(a, x)
        BY <2>2 DEF InMemory
      <3>2. Arrays[x].base \in Nat /\ Arrays[x].size \in Nat /\ x # "io"
        BY MemAssumption
      <3> DEFINE h == <<x, a - Arrays[x].base>>
      <3>3. guest_to_host(a) = h /\ h \in HostBytes /\ h[1] = x /\ host_to_guest(h) = a
        BY <2>1, <3>1, <3>2, GuestToHost, BytesOf DEF in_range, host_to_guest
      <3> HIDE DEF h
      <3>4. ram.host[h] = Stored(a)
        BY <1>1, <3>2, <3>3 DEF BytesKept
      <3> QED
        BY <2>1, <2>2, <3>3, <3>4 DEF HeldAt
    <2>3. CASE ~InMemory(a) /\ Found(a) = {}
      <3>1. ~InRam(a)
        BY <2>3, MemAssumption DEF InMemory, InRam
      <3>2. ram.shadow[a] = 0
        BY <1>1, <2>3, <3>1 DEF BytesKept
      <3> QED
        BY <2>3, <3>2 DEF HeldAt
    <2>4. CASE ~InMemory(a) /\ Found(a) # {}
      <3>1. ~InRam(a)
        BY <2>4, MemAssumption DEF InMemory, InRam
      <3>2. PICK i \in Found(a) : TRUE
        BY <2>4
      <3>3. find_mapid_by_addr(a) = i /\ i \in DOMAIN ram.maps /\ a \in ram.maps[i].low .. ram.maps[i].high
        BY <1>1, <2>1, FoundIs
      <3>4. ram.host[<<"io", ram.maps[i].space + a - ram.maps[i].low>>] = Stored(a)
        BY <1>1, <3>1, <3>3 DEF BytesKept
      <3> QED
        BY <2>1, <2>4, <3>3, <3>4 DEF HeldAt
    <2> QED
      BY <2>2, <2>3, <2>4
  <1>3. ASSUME NEW h \in HostBytes, h[1] # "io"
        PROVE  guest_to_host(host_to_guest(h)) = h /\ ram.host[h] = Stored(host_to_guest(h))
    BY <1>1, <1>3, HostToGuest DEF BytesKept
  <1> QED
    BY <1>1, <1>2, <1>3, RamFields DEF MemoryKept

\* No two addresses share a byte of NEMU: whatever devices are mapped, and
\* in whatever order, a load gets what was last stored at its addresses, and
\* the serial port prints each byte stored to it, for all arrays, devices and
\* accesses as assumed.
THEOREM MemoryAlwaysKept == memSpec => []MemoryKept
  <1>1. ram = init_mem => memTypeOK /\ MemInv
    BY MemInit
  <1>2. memTypeOK /\ MemInv /\ [memNext]_ram => memTypeOK' /\ MemInv'
    <2> SUFFICES ASSUME memTypeOK, MemInv, [memNext]_ram PROVE memTypeOK' /\ MemInv'
      OBVIOUS
    <2>1. CASE UNCHANGED ram
      <3>1. memTypeOK' /\ MapsApart' = MapsApart
        BY <2>1 DEF memTypeOK, MapsApart, IsMap, LastByte
      <3>2. \A a : Stored(a)' = Stored(a) /\ Found(a)' = Found(a)
        BY <2>1 DEF Stored, Found, map_inside
      <3>3. BytesKept => BytesKept'
        BY <2>1, <3>2 DEF BytesKept, InRam, in_range, host_to_guest
      <3> QED
        BY <2>1, <3>1, <3>3 DEF MemInv, Stored
    <2>2. CASE memNext
      BY <2>2, MapStep, LoadStep, StoreStep DEF memNext
    <2> QED
      BY <2>1, <2>2
  <1>3. memTypeOK /\ MemInv => MemoryKept
    BY MemKept
  <1> QED
    BY <1>1, <1>2, <1>3, PTL DEF memSpec

(***************************************************************************)
(* Context switching.                                                      *)
(***************************************************************************)
\* The words of all stacks.
Memory == 0..Top(Threads) - 1

\* A stack is a piece of the memory, at least as long as a context.
LEMMA StackBounds ==
    ASSUME NEW t \in 1 .. Threads
    PROVE  /\ Top(t) \in Nat /\ Top(t) - StackWords \in Nat /\ Top(t) <= Top(Threads)
           /\ Stack(t) \subseteq Memory
  <1>0. Threads \in Nat /\ t \in Nat /\ t >= 1 /\ t <= Threads /\ StackWords \in Nat
    BY CteAssumption
  <1>1. PICK k \in Nat : t = k + 1
    BY <1>0
  <1>2. PICK m \in Nat : Threads = t + m
    <2>1. Threads - t \in Nat /\ Threads = t + (Threads - t)
      BY <1>0
    <2> QED
      BY <2>1
  <1>3. /\ Top(t) = k * StackWords + StackWords /\ k * StackWords \in Nat
        /\ Top(Threads) = Top(t) + m * StackWords /\ m * StackWords \in Nat
    BY <1>0, <1>1, <1>2 DEF Top
  <1>4. Top(t) \in Nat /\ Top(t) - StackWords \in Nat /\ Top(t) <= Top(Threads) /\ Top(Threads) \in Nat
    BY <1>0, <1>3
  <1> QED
    BY <1>0, <1>4 DEF Stack, Memory

\* The stacks do not overlap.
LEMMA StacksApart ==
    ASSUME NEW t \in 1 .. Threads, NEW u \in 1 .. Threads, t # u
    PROVE  Stack(t) \cap Stack(u) = {}
  <1>1. ASSUME NEW v \in 1 .. Threads, NEW w \in 1 .. Threads, v < w
        PROVE  Top(v) <= Top(w) - StackWords /\ Top(v) \in Nat /\ Top(w) \in Nat
    <2>0. v \in Nat /\ w \in Nat /\ StackWords \in Nat
      BY CteAssumption
    <2>1. PICK k \in Nat : w = v + 1 + k
      BY <1>1, <2>0
    <2>2. /\ Top(w) = Top(v) + StackWords + k * StackWords /\ k * StackWords \in Nat /\ Top(v) \in Nat
          /\ Top(w) \in Nat
      BY <2>0, <2>1 DEF Top
    <2> QED
      BY <2>0, <2>2
  <1>2. t \in Int /\ u \in Int /\ StackWords \in Nat
    BY CteAssumption
  <1>3. CASE t < u
    BY <1>1, <1>2, <1>3 DEF Stack
  <1>4. CASE u < t
    BY <1>1, <1>2, <1>4 DEF Stack
  <1> QED
    BY <1>2, <1>3, <1>4

\* The words of the frame at c that __am_asm_trap stores.
Frame(c) == {c + 1, c + 3, c + OffCause, c + OffStatus, c + OffEpc}

\* Below a stack pointer with room for a frame, the frame is in the stack and
\* none of its words is one that the stack holds.
LEMMA FrameInStack ==
    ASSUME NEW t \in 1 .. Threads, NEW sp \in Room(t)
    PROVE  /\ sp \in Int /\ sp - FrameWords \in Int
           /\ Frame(sp - FrameWords) \subseteq Stack(t)
           /\ \A a \in Frame(sp - FrameWords) : a \in Int /\ a < sp
  <1>1. /\ Top(t) \in Nat /\ StackWords \in Nat /\ FrameWords \in {7, 8}
    BY StackBounds, CteAssumption DEF ContextWords, NR_REGS
  <1>2. sp \in Int /\ Top(t) - StackWords + FrameWords <= sp /\ sp <= Top(t)
    BY <1>1 DEF Room
  <1> QED
    BY <1>1, <1>2 DEF Frame, Stack, OffCause, OffStatus, OffEpc, NR_REGS

\* What is known of thread t is kept by a step that leaves its stack alone.
LEMMA KeptElsewhere ==
    ASSUME NEW t \in 1 .. Threads, NEW c, NEW m, StackKept(t), FrameKept(t, c, m),
           left'[t] = left[t], \A a \in Stack(t) : mem'[a] = mem[a], c \in Int
    PROVE  StackKept(t)' /\ left'[t].sp = c + FrameWords /\ mem'[c + 1] = left'[t].x1 /\ mem'[c + OffEpc] + m = left'[t].pc
  <1>0. left[t].sp \in Room(t) /\ c = left[t].sp - FrameWords
    <2>1. left[t].sp \in Room(t) /\ c + FrameWords = left[t].sp /\ FrameWords \in Int
      BY CteAssumption DEF StackKept, FrameKept, ContextWords, NR_REGS
    <2> QED
      BY <2>1
  <1>1. c + 1 \in Stack(t) /\ c + OffEpc \in Stack(t)
    BY <1>0, FrameInStack DEF Frame
  <1>2. StackKept(t)'
    BY DEF StackKept, Room, Stack, Top
  <1> QED
    BY <1>1, <1>2 DEF FrameKept

\* The frames a new thread starts from: each is where kcontext put it.
NewFrames(m, n) ==
    /\ m \in [Memory -> Int]
    /\ \A t \in 1 .. n : m[Top(t) - ContextWords + 1] = Arg(t) /\ m[Top(t) - ContextWords + OffEpc] = Entry(t)

\* kcontext makes one more frame and leaves those of the other stacks.
LEMMA NewFrame ==
    ASSUME NEW t \in 1 .. Threads, NEW m, NewFrames(m, t - 1)
    PROVE  NewFrames(kcontext(m, t), t)
  <1> DEFINE c == Top(t) - ContextWords
             k == kcontext(m, t)
  <1>0. /\ Top(t) \in Nat /\ Top(t) - StackWords \in Nat /\ Stack(t) \subseteq Memory
        /\ StackWords \in Nat /\ StackWords >= 8 /\ t \in Nat /\ Threads \in Nat
        /\ ContextWords = 8 /\ OffEpc = 6 /\ OffStatus = 5
    BY StackBounds, CteAssumption DEF ContextWords, NR_REGS, OffEpc, OffStatus
  <1>1. m \in [Memory -> Int]
    BY DEF NewFrames
  <1>2. k \in [Memory -> Int]
    <2>1. Arg(t) \in Int /\ Entry(t) \in Int /\ MPP \in Int /\ 0 \in Int
      BY <1>0 DEF Arg, Entry, MPP
    <2>2. ASSUME NEW a \in Memory PROVE k[a] \in Int
      BY <1>1, <2>1 DEF kcontext
    <2>3. k = [a \in Memory |-> k[a]]
      BY <1>1 DEF kcontext
    <2> QED
      BY <2>2, <2>3
  <1>3. k[c + 1] = Arg(t) /\ k[c + OffEpc] = Entry(t)
    <2>1. c + 1 \in Stack(t) /\ c + 6 \in Stack(t)
      BY <1>0 DEF Stack
    <2>2. c + 1 \in Memory /\ c + 6 \in Memory /\ c + 1 \in c .. c + 8 - 1 /\ c + 6 \in c .. c + 8 - 1
          /\ (c + 1) - c = 1 /\ (c + 6) - c = 6
      BY <1>0, <2>1
    <2> QED
      BY <1>0, <1>1, <2>2 DEF kcontext
  <1>4. ASSUME NEW u \in 1 .. t - 1
        PROVE  /\ k[Top(u) - ContextWords + 1] = Arg(u) /\ k[Top(u) - ContextWords + OffEpc] = Entry(u)
    <2>1. u \in 1 .. Threads /\ u # t
      BY <1>0
    <2>2. Top(u) \in Nat /\ Stack(u) \subseteq Memory
      BY <2>1, StackBounds
    <2>3. Top(u) - ContextWords + 1 \in Stack(u) /\ Top(u) - ContextWords + OffEpc \in Stack(u)
      BY <1>0, <2>2 DEF Stack
    <2>4. \A a \in Stack(u) : a \notin c .. c + ContextWords - 1
      <3>1. \A a \in Stack(u) : a \notin Stack(t)
        BY <2>1, StacksApart
      <3>2. c .. c + ContextWords - 1 \subseteq Stack(t)
        BY <1>0 DEF Stack
      <3> QED
        BY <3>1, <3>2
    <2>5. \A a \in Stack(u) : k[a] = m[a]
      BY <1>1, <2>2, <2>4 DEF kcontext
    <2> QED
      BY <2>3, <2>5 DEF NewFrames
  <1>5. \A u \in 1 .. t : u = t \/ u \in 1 .. t - 1
    BY <1>0
  <1> HIDE DEF k
  <1>6. \A u \in 1 .. t : k[Top(u) - ContextWords + 1] = Arg(u) /\ k[Top(u) - ContextWords + OffEpc] = Entry(u)
    BY <1>3, <1>4, <1>5
  <1> QED
    BY <1>2, <1>6 DEF NewFrames, k

\* A set of naturals that is not empty has a least element.
LEMMA LeastNat ==
    ASSUME NEW T, T \subseteq Nat, T # {}
    PROVE  \E m \in T : \A k \in T : m <= k
  <1> DEFINE R == OpToRel(<, Nat)
  <1>1. IsWellFoundedOn(R, Nat)
    BY NatLessThanWellFounded
  <1>2. PICK m \in T : \A k \in T : ~(<<k, m>> \in R)
    BY <1>1, WFMin
  <1>3. \A k \in T : <<k, m>> \in Nat \X Nat
    OBVIOUS
  <1>4. \A k \in T : ~(k < m)
    BY <1>2, <1>3 DEF OpToRel
  <1>5. \A k \in T : m <= k
    BY <1>4
  <1> QED
    BY <1>5

\* The memories of cte_init, after no thread is made, after the first, ...
IsMade(made, m, n) == made = [t \in 0 .. n |-> IF t = 0 THEN m ELSE kcontext(made[t - 1], t)]

\* They exist: each is computed from the one before.
LEMMA MadeExists ==
    ASSUME NEW m, NEW n \in Nat
    PROVE  \E made : IsMade(made, m, n)
  <1> DEFINE T == {i \in Nat : ~\E f : IsMade(f, m, i)}
  <1> SUFFICES ASSUME T # {} PROVE FALSE
    OBVIOUS
  <1>1. PICK i \in T : \A k \in T : i <= k
    <2>1. T \subseteq Nat
      OBVIOUS
    <2> HIDE DEF T
    <2> QED
      BY <2>1, LeastNat
  <1>2. i \in Nat /\ ~\E f : IsMade(f, m, i)
    OBVIOUS
  <1>3. CASE i = 0
    <2>1. IsMade([t \in 0 .. 0 |-> m], m, 0)
      BY DEF IsMade
    <2> QED
      BY <1>2, <1>3, <2>1
  <1>4. CASE i # 0
    <2>1. i - 1 \in Nat /\ ~(i <= i - 1)
      BY <1>2, <1>4
    <2>2. i - 1 \notin T
      <3> HIDE DEF T
      <3> QED
        BY <1>1, <2>1
    <2>3. PICK f : IsMade(f, m, i - 1)
      BY <2>1, <2>2
    <2> DEFINE g == [t \in 0 .. i |-> IF t = i THEN kcontext(f[i - 1], i) ELSE f[t]]
    <2>4. \A t \in 0 .. i - 1 : f[t] = IF t = 0 THEN m ELSE kcontext(f[t - 1], t)
      BY <2>3 DEF IsMade
    <2>5. ASSUME NEW t \in 0 .. i
          PROVE  g[t] = IF t = 0 THEN m ELSE kcontext(g[t - 1], t)
      <3>1. CASE t = i
        <4>1. i - 1 \in 0 .. i /\ i - 1 # i /\ t # 0
          BY <1>2, <1>4, <3>1
        <4>2. g[i - 1] = f[i - 1] /\ g[t] = kcontext(f[i - 1], i)
          BY <3>1, <4>1
        <4> QED
          BY <3>1, <4>1, <4>2
      <3>2. CASE t # i
        <4>1. t \in 0 .. i - 1 /\ (t # 0 => t - 1 \in 0 .. i /\ t - 1 # i)
          BY <1>2, <3>2
        <4>2. g[t] = f[t] /\ (t # 0 => g[t - 1] = f[t - 1])
          BY <3>2, <4>1
        <4> QED
          BY <2>4, <4>1, <4>2
      <3> QED
        BY <3>1, <3>2
    <2>6. g = [t \in 0 .. i |-> g[t]]
      OBVIOUS
    <2> HIDE DEF g
    <2>7. IsMade(g, m, i)
      BY <2>5, <2>6 DEF IsMade
    <2> QED
      BY <1>2, <2>7
  <1> QED
    BY <1>3, <1>4

\* The memory cte_init leaves holds a frame of every thread.
LEMMA MadeFrames ==
    ASSUME NEW m \in [Memory -> Int], NEW made, IsMade(made, m, Threads)
    PROVE  NewFrames(made[Threads], Threads)
  <1> DEFINE T == {i \in 0 .. Threads : ~NewFrames(made[i], i)}
  <1>0. Threads \in Nat
    BY CteAssumption
  <1> SUFFICES ASSUME T # {} PROVE FALSE
    BY <1>0
  <1>1. PICK i \in T : \A k \in T : i <= k
    <2>1. T \subseteq Nat
      BY <1>0
    <2> HIDE DEF T
    <2> QED
      BY <2>1, LeastNat
  <1>2. i \in 0 .. Threads /\ ~NewFrames(made[i], i)
    OBVIOUS
  <1>3. \A t \in 0 .. Threads : made[t] = IF t = 0 THEN m ELSE kcontext(made[t - 1], t)
    BY DEF IsMade
  <1>4. CASE i = 0
    BY <1>2, <1>3, <1>4 DEF NewFrames
  <1>5. CASE i # 0
    <2>1. i - 1 \in 0 .. Threads /\ ~(i <= i - 1) /\ i \in 1 .. Threads
      BY <1>0, <1>2, <1>5
    <2>2. i - 1 \notin T
      <3> HIDE DEF T
      <3> QED
        BY <1>1, <2>1
    <2>3. NewFrames(made[i - 1], i - 1)
      BY <2>1, <2>2
    <2>4. NewFrames(kcontext(made[i - 1], i), i)
      BY <2>1, <2>3, NewFrame
    <2> QED
      BY <1>2, <1>3, <1>5, <2>4
  <1> QED
    BY <1>4, <1>5

\* Before cte_init.
LEMMA CteInitInv == ASSUME cteInit PROVE cteTypeOK /\ CteInv
  <1>0. /\ Threads \in Nat /\ \A t \in 1 .. Threads : Arg(t) \in Int /\ Entry(t) \in Int
    BY CteAssumption DEF Arg, Entry
  <1>1. cteTypeOK
    BY <1>0 DEF cteInit, cteTypeOK, Junk, NR_REGS
  <1>2. CteInv
    BY DEF cteInit, CteInv
  <1> QED
    BY <1>1, <1>2

\* Thread t is as the trap left it.
Suspended(t) == StackKept(t) /\ FrameKept(t, pcb[t], 0)

\* The rest of what the invariant says, of the thread that runs.
Running ==
    /\ mode = "thread" => gpr[2] \in Room(cur)
    /\ mode = "__am_asm_trap" =>
           /\ StackKept(cur)
           /\ left[cur].sp = gpr[2] /\ left[cur].x1 = gpr[1]
           /\ left[cur].pc = csr.mepc + Moved(csr.mcause)
    /\ mode = "__am_irq_handle" =>
           StackKept(cur) /\ FrameKept(cur, gpr[2], Moved(mem[gpr[2] + OffCause]))

\* The types again, for a program that has started.
Started ==
    /\ gpr \in [1 .. 3 -> Int] /\ pc \in Int /\ mem \in [Memory -> Int]
    /\ csr \in [mtvec : {"unset", "__am_asm_trap"}, mcause : Int, mepc : Int]
    /\ cur \in 1 .. Threads /\ csr.mtvec = "__am_asm_trap"
    /\ pcb \in [1 .. Threads -> Int] /\ DOMAIN left = 1 .. Threads
    /\ \A t \in 1 .. Threads : left[t].x1 \in Int /\ left[t].pc \in Int

\* The invariant in these parts.
LEMMA InvParts ==
    ASSUME cteTypeOK, CteInv, mode # "boot"
    PROVE  /\ Started /\ Running
           /\ \A t \in 1 .. Threads : t # cur \/ mode = "return" => Suspended(t)
           /\ mode = "return" => gpr[2] = pcb[cur]
  BY DEF cteTypeOK, CteInv, Started, Running, Suspended, Memory, NR_REGS

\* The invariant of the next state from its parts.
LEMMA InvBuilt ==
    ASSUME Started', mode' \in {"thread", "__am_asm_trap", "__am_irq_handle", "return"}, Running',
           \A t \in 1 .. Threads : t # cur' \/ mode' = "return" => Suspended(t)',
           mode' = "return" => gpr'[2] = pcb'[cur']
    PROVE  cteTypeOK' /\ CteInv'
  <1>1. cteTypeOK'
    BY DEF cteTypeOK, Started, Memory, NR_REGS
  <1>2. CteInv'
    BY DEF CteInv, Running, Suspended, Started
  <1> QED
    BY <1>1, <1>2

\* The memory is divided up and each new thread waits at its entry.
LEMMA InitStep ==
    ASSUME cteTypeOK, CteInv, cte_init
    PROVE  cteTypeOK' /\ CteInv'
  <1> DEFINE made == CHOOSE f : IsMade(f, mem, Threads)
  <1>1. mem' = made[Threads]
    BY DEF cte_init, IsMade
  <1>2. mem \in [Memory -> Int]
    BY DEF cteTypeOK, Memory
  <1>3. IsMade(made, mem, Threads)
    <2>1. \E f : IsMade(f, mem, Threads)
      BY CteAssumption, MadeExists
    <2> QED
      BY <2>1
  <1>4. NewFrames(mem', Threads)
    <2> HIDE DEF made
    <2> QED
      BY <1>1, <1>2, <1>3, MadeFrames
  <1>5. PICK t \in 1 .. Threads :
           /\ cur' = t /\ gpr' = [gpr EXCEPT ![2] = Top(t) - ContextWords]
           /\ pcb' = [u \in 1 .. Threads |-> Top(u) - ContextWords]
           /\ mode = "boot" /\ mode' = "return"
           /\ csr' = [csr EXCEPT !.mtvec = "__am_asm_trap"]
           /\ UNCHANGED <<pc, left>>
    BY DEF cte_init
  <1>6. ASSUME NEW u \in 1 .. Threads
        PROVE  /\ Top(u) - ContextWords \in Int /\ Top(u) - ContextWords + FrameWords \in Room(u)
    <2>1. Top(u) \in Nat /\ StackWords \in Nat /\ StackWords >= 8 /\ FrameWords \in {7, 8} /\ ContextWords = 8
      BY StackBounds, CteAssumption DEF ContextWords, NR_REGS
    <2> QED
      BY <2>1 DEF Room
  <1>7. Started'
    <2>1. pcb' \in [1 .. Threads -> Int]
      BY <1>5, <1>6
    <2>2. mem' \in [Memory -> Int]'
      BY <1>4 DEF NewFrames, Memory, Top
    <2>3. gpr \in [1 .. 3 -> Int] /\ gpr' \in [1 .. 3 -> Int]
      BY <1>5, <1>6 DEF cteTypeOK, NR_REGS
    <2>4. csr' \in [mtvec : {"unset", "__am_asm_trap"}, mcause : Int, mepc : Int] /\ csr'.mtvec = "__am_asm_trap"
      BY <1>5 DEF cteTypeOK
    <2> QED
      BY <1>5, <2>1, <2>2, <2>3, <2>4 DEF Started, cteTypeOK
  <1>8. ASSUME NEW u \in 1 .. Threads PROVE Suspended(u)'
    <2>1. /\ left[u].x1 = Arg(u) /\ left[u].pc = Entry(u) /\ left[u].stack = <<>>
          /\ left[u].sp = Top(u) - ContextWords + FrameWords
      BY <1>5 DEF CteInv
    <2>2. mem'[Top(u) - ContextWords + 1] = Arg(u) /\ mem'[Top(u) - ContextWords + OffEpc] = Entry(u)
      BY <1>4 DEF NewFrames
    <2>3. Entry(u) + 0 = Entry(u)
      BY CteAssumption DEF Entry
    <2>4. pcb'[u] = Top(u) - ContextWords
      BY <1>5
    <2>5. FrameKept(u, pcb[u], 0)'
      BY <1>5, <2>1, <2>2, <2>3, <2>4 DEF FrameKept
    <2>6. DOMAIN <<>> = {}
      OBVIOUS
    <2>7. StackKept(u)'
      BY <1>5, <1>6, <2>1, <2>6 DEF StackKept, Room, Stack, Top
    <2> QED
      BY <2>5, <2>7 DEF Suspended
  <1>9. gpr'[2] = pcb'[cur'] /\ Running'
    BY <1>5 DEF Running, cteTypeOK, NR_REGS
  <1> QED
    BY <1>5, <1>7, <1>8, <1>9, InvBuilt

\* A thread that does not run is not touched by a step that writes elsewhere.
LEMMA SuspendedStays ==
    ASSUME NEW t \in 1 .. Threads, Started, Suspended(t),
           left'[t] = left[t], pcb'[t] = pcb[t], \A a \in Stack(t) : mem'[a] = mem[a]
    PROVE  Suspended(t)'
  <1>1. pcb[t] \in Int /\ StackKept(t) /\ FrameKept(t, pcb[t], 0)
    BY DEF Started, Suspended
  <1>2. /\ StackKept(t)' /\ left'[t].sp = pcb[t] + FrameWords /\ mem'[pcb[t] + 1] = left'[t].x1
        /\ mem'[pcb[t] + OffEpc] + 0 = left'[t].pc
    BY <1>1, KeptElsewhere
  <1> QED
    BY <1>2 DEF Suspended, FrameKept

\* A thread computes and uses its own stack.
LEMMA ThreadStep ==
    ASSUME cteTypeOK, CteInv, Compute \/ UseStack
    PROVE  cteTypeOK' /\ CteInv'
  <1>0. mode = "thread"
    BY DEF Compute, UseStack
  <1>1. /\ Started /\ Running
        /\ \A t \in 1 .. Threads : t # cur => Suspended(t)
    BY <1>0, InvParts
  <1>2. gpr[2] \in Room(cur) /\ cur \in 1 .. Threads /\ gpr \in [1 .. 3 -> Int] /\ mem \in [Memory -> Int]
    BY <1>0, <1>1 DEF Running, Started
  <1>3. UNCHANGED <<csr, mode, cur, pcb, left, pc>>
    BY DEF Compute, UseStack
  <1>4. CASE Compute
    <2>1. gpr' = [gpr EXCEPT ![1] = gpr[1] + 1] /\ mem' = mem
      BY <1>4 DEF Compute
    <2>2. gpr' \in [1 .. 3 -> Int] /\ gpr'[2] = gpr[2]
      BY <1>2, <2>1
    <2>3. Started'
      BY <1>1, <1>3, <2>1, <2>2 DEF Started, Memory, Top
    <2>4. Running'
      BY <1>0, <1>2, <1>3, <2>2 DEF Running, Room, Top
    <2>5. \A t \in 1 .. Threads : t # cur => Suspended(t)'
      BY <1>1, <1>3, <2>1, SuspendedStays
    <2> QED
      BY <1>0, <1>3, <2>3, <2>4, <2>5, InvBuilt
  <1>5. CASE UseStack
    <2>1. /\ gpr[2] - 1 - FrameWords \in Stack(cur)
          /\ mem' = [mem EXCEPT ![gpr[2] - 1] = gpr[1]] /\ gpr' = [gpr EXCEPT ![2] = gpr[2] - 1]
      BY <1>5 DEF UseStack
    <2>2. gpr[2] - 1 \in Stack(cur) /\ gpr[2] - 1 \in Room(cur)
      <3>1. Top(cur) \in Nat /\ StackWords \in Nat /\ FrameWords \in {7, 8}
        BY <1>2, StackBounds, CteAssumption DEF ContextWords, NR_REGS
      <3>2. gpr[2] \in Int
        BY <1>2
      <3> QED
        BY <1>2, <2>1, <3>1, <3>2 DEF Room, Stack
    <2>3. gpr' \in [1 .. 3 -> Int] /\ gpr'[2] = gpr[2] - 1 /\ mem' \in [Memory -> Int]
      <3>1. gpr[1] \in Int /\ gpr[2] - 1 \in Int
        BY <1>2
      <3>2. mem' \in [Memory -> Int]
        BY <1>2, <2>1, <3>1
      <3> QED
        BY <1>2, <2>1, <3>1, <3>2
    <2>4. Started'
      BY <1>1, <1>3, <2>3 DEF Started, Memory, Top
    <2>5. Running'
      BY <1>0, <1>2, <1>3, <2>2, <2>3 DEF Running, Room, Top
    <2>6. ASSUME NEW t \in 1 .. Threads, t # cur PROVE Suspended(t)'
      <3>1. gpr[2] - 1 \notin Stack(t)
        BY <1>2, <2>2, <2>6, StacksApart
      <3>2. \A a \in Stack(t) : mem'[a] = mem[a]
        <4>1. Stack(t) \subseteq Memory
          BY StackBounds
        <4> QED
          BY <1>2, <2>1, <3>1, <4>1
      <3> QED
        BY <1>1, <1>3, <2>6, <3>2, SuspendedStays
    <2> QED
      BY <1>0, <1>3, <2>4, <2>5, <2>6, InvBuilt
  <1> QED
    BY <1>4, <1>5

\* A trap: what the thread has is noted, nothing is stored yet.
LEMMA TrapStep ==
    ASSUME cteTypeOK, CteInv, NEW cause \in Int, NEW number \in Int, Trap(cause, number)
    PROVE  cteTypeOK' /\ CteInv'
  <1>0. mode = "thread"
    BY DEF Trap
  <1>1. /\ Started /\ Running
        /\ \A t \in 1 .. Threads : t # cur => Suspended(t)
    BY <1>0, InvParts
  <1>2. /\ gpr[2] \in Room(cur) /\ cur \in 1 .. Threads /\ gpr \in [1 .. 3 -> Int] /\ pc \in Int
        /\ csr \in [mtvec : {"unset", "__am_asm_trap"}, mcause : Int, mepc : Int] /\ csr.mtvec = "__am_asm_trap"
        /\ DOMAIN left = 1 .. Threads
    BY <1>0, <1>1 DEF Running, Started
  <1> DEFINE now == [x1 |-> gpr[1], pc |-> IF cause = 11 THEN pc + 4 ELSE pc,
                     stack |-> Held(cur, gpr[2], mem), sp |-> gpr[2]]
  <1>3. /\ gpr' = [gpr EXCEPT ![3] = number]
        /\ csr' = [csr EXCEPT !.mcause = cause, !.mepc = pc]
        /\ left' = [left EXCEPT ![cur] = now]
        /\ mode' = "__am_asm_trap"
        /\ UNCHANGED <<pc, mem, cur, pcb>>
    BY <1>2 DEF Trap
  <1>4. /\ gpr' \in [1 .. 3 -> Int] /\ gpr'[2] = gpr[2] /\ gpr'[1] = gpr[1]
    BY <1>2, <1>3
  <1>5. /\ csr' \in [mtvec : {"unset", "__am_asm_trap"}, mcause : Int, mepc : Int]
        /\ csr'.mtvec = "__am_asm_trap" /\ csr'.mcause = cause /\ csr'.mepc = pc
    BY <1>2, <1>3
  <1>6. /\ DOMAIN left' = 1 .. Threads /\ left'[cur] = now
        /\ \A t \in 1 .. Threads : t # cur => left'[t] = left[t]
    BY <1>2, <1>3
  <1>7. now.x1 = gpr[1] /\ now.pc = pc + Moved(cause) /\ now.stack = Held(cur, gpr[2], mem) /\ now.sp = gpr[2]
    BY <1>2 DEF Moved
  <1>8. now.x1 \in Int /\ now.pc \in Int
    BY <1>2, <1>7 DEF Moved
  <1> HIDE DEF now
  <1>9. Started'
    <2>1. \A t \in 1 .. Threads : left'[t].x1 \in Int /\ left'[t].pc \in Int
      BY <1>1, <1>6, <1>8 DEF Started
    <2> QED
      BY <1>1, <1>3, <1>4, <1>5, <1>6, <2>1 DEF Started, Memory, Top
  <1>10. StackKept(cur)'
    <2>1. DOMAIN Held(cur, gpr[2], mem) = {b \in Stack(cur) : b >= gpr[2]}
      BY DEF Held
    <2>2. \A a \in {b \in Stack(cur) : b >= gpr[2]} : Held(cur, gpr[2], mem)[a] = mem[a]
      BY DEF Held
    <2>3. cur' = cur /\ left'[cur].sp = gpr[2] /\ left'[cur].stack = Held(cur, gpr[2], mem) /\ mem' = mem
      BY <1>3, <1>6, <1>7
    <2> QED
      BY <1>2, <2>1, <2>2, <2>3 DEF StackKept, Room, Stack, Top
  <1>11. Running'
    BY <1>3, <1>4, <1>5, <1>6, <1>7, <1>10 DEF Running, Moved
  <1>12. ASSUME NEW t \in 1 .. Threads, t # cur PROVE Suspended(t)'
    BY <1>1, <1>3, <1>6, <1>12, SuspendedStays
  <1> QED
    BY <1>3, <1>9, <1>11, <1>12, InvBuilt

\* The registers go below the stack of the thread that trapped.
LEMMA EntryStep ==
    ASSUME cteTypeOK, CteInv, TrapEntry
    PROVE  cteTypeOK' /\ CteInv'
  <1>0. mode = "__am_asm_trap"
    BY DEF TrapEntry
  <1>1. /\ Started /\ Running
        /\ \A t \in 1 .. Threads : t # cur => Suspended(t)
    BY <1>0, InvParts
  <1>2. /\ cur \in 1 .. Threads /\ gpr \in [1 .. 3 -> Int] /\ mem \in [Memory -> Int]
        /\ csr.mcause \in Int /\ csr.mepc \in Int
        /\ StackKept(cur) /\ left[cur].sp = gpr[2] /\ left[cur].x1 = gpr[1]
        /\ left[cur].pc = csr.mepc + Moved(csr.mcause)
    BY <1>0, <1>1 DEF Running, Started
  <1> DEFINE c == gpr[2] - FrameWords
             Saved(k) == CASE k \in {1, 3} -> gpr[k]
                           [] k = OffCause -> csr.mcause
                           [] k = OffStatus -> MPP
                           [] k = OffEpc -> csr.mepc
  <1>3. /\ mem' = [a \in Memory |-> IF a - c \in {1, 3, OffCause, OffStatus, OffEpc} THEN Saved(a - c) ELSE mem[a]]
        /\ gpr' = [gpr EXCEPT ![2] = c]
        /\ mode' = "__am_irq_handle"
        /\ UNCHANGED <<pc, csr, cur, pcb, left>>
    BY <1>2 DEF TrapEntry
  <1>4. gpr[2] \in Room(cur)
    BY <1>2 DEF StackKept
  <1>5. /\ gpr[2] \in Int /\ c \in Int /\ Frame(c) \subseteq Stack(cur)
        /\ \A a \in Frame(c) : a \in Int /\ a < gpr[2]
    BY <1>2, <1>4, FrameInStack
  <1>6. Stack(cur) \subseteq Memory /\ OffCause = 4 /\ OffStatus = 5 /\ OffEpc = 6 /\ Memory \subseteq Int
    BY <1>2, StackBounds DEF OffCause, OffStatus, OffEpc, NR_REGS, Memory
  <1>7. /\ Saved(1) = gpr[1] /\ Saved(3) = gpr[3] /\ Saved(4) = csr.mcause
        /\ Saved(5) = MPP /\ Saved(6) = csr.mepc
    BY <1>6
  <1>8. \A k \in {1, 3, 4, 5, 6} : Saved(k) \in Int
    <2>1. gpr[1] \in Int /\ gpr[3] \in Int /\ MPP \in Int
      BY <1>2 DEF MPP
    <2> HIDE DEF Saved
    <2> QED
      BY <1>2, <1>7, <2>1
  <1> HIDE DEF Saved, c
  <1>9. mem' \in [Memory -> Int]
    <2>1. \A a \in Memory : mem[a] \in Int
      BY <1>2
    <2>2. \A a \in Memory : mem'[a] \in Int
      BY <1>3, <1>6, <1>8, <2>1
    <2>3. mem' = [a \in Memory |-> mem'[a]]
      BY <1>3
    <2> QED
      BY <2>2, <2>3
  <1>10. gpr' \in [1 .. 3 -> Int] /\ gpr'[2] = c
    BY <1>2, <1>3, <1>5
  <1>11. /\ mem'[c + 1] = gpr[1] /\ mem'[c + OffCause] = csr.mcause /\ mem'[c + OffEpc] = csr.mepc
    <2>1. c + 1 \in Memory /\ c + 4 \in Memory /\ c + 6 \in Memory
      BY <1>5, <1>6 DEF Frame
    <2>2. (c + 1) - c = 1 /\ (c + 4) - c = 4 /\ (c + 6) - c = 6
      BY <1>5
    <2> QED
      BY <1>3, <1>6, <1>7, <2>1, <2>2
  <1>12. \A a \in Memory : a \notin Frame(c) => mem'[a] = mem[a]
    <2>1. ASSUME NEW a \in Memory, a \notin Frame(c) PROVE mem'[a] = mem[a]
      <3>1. a \in Int
        BY <1>6
      <3>2. a - c \notin {1, 3, 4, 5, 6}
        BY <1>5, <1>6, <2>1, <3>1 DEF Frame
      <3> QED
        BY <1>3, <1>6, <3>2
    <2> QED
      BY <2>1
  <1>13. Started'
    BY <1>1, <1>3, <1>9, <1>10 DEF Started, Memory, Top
  <1>14. StackKept(cur)'
    <2>1. \A a \in DOMAIN left[cur].stack : a \in Stack(cur) /\ a >= gpr[2] /\ mem[a] = left[cur].stack[a]
      BY <1>2 DEF StackKept
    <2>2. \A a \in DOMAIN left[cur].stack : mem'[a] = left[cur].stack[a]
      <3>1. ASSUME NEW a \in DOMAIN left[cur].stack PROVE mem'[a] = left[cur].stack[a]
        <4>1. a \in Memory /\ a \in Int
          BY <1>6, <2>1
        <4>2. a \notin Frame(c)
          BY <1>5, <2>1, <4>1
        <4> QED
          BY <1>12, <2>1, <4>1, <4>2
      <3> QED
        BY <3>1
    <2> QED
      BY <1>2, <1>3, <2>2 DEF StackKept, Room, Stack, Top
  <1>15. Running'
    <2>1. c + FrameWords = gpr[2]
      <3>1. FrameWords \in Int
        BY CteAssumption DEF ContextWords, NR_REGS
      <3> QED
        BY <1>5, <3>1 DEF c
    <2> QED
      BY <1>2, <1>3, <1>10, <1>11, <1>14, <2>1 DEF Running, FrameKept, Moved
  <1>16. ASSUME NEW t \in 1 .. Threads, t # cur PROVE Suspended(t)'
    <2>1. \A a \in Stack(t) : a \in Memory /\ a \notin Frame(c)
      BY <1>2, <1>5, <1>16, StacksApart, StackBounds
    <2>2. \A a \in Stack(t) : mem'[a] = mem[a]
      BY <1>12, <2>1
    <2> QED
      BY <1>1, <1>3, <1>16, <2>2, SuspendedStays
  <1> QED
    BY <1>3, <1>13, <1>15, <1>16, InvBuilt

\* The handler takes any thread's context: the frame of the one that trapped
\* is complete, its epc moved past an ecall.
LEMMA HandleStep ==
    ASSUME cteTypeOK, CteInv, __am_irq_handle
    PROVE  cteTypeOK' /\ CteInv'
  <1>0. mode = "__am_irq_handle"
    BY DEF __am_irq_handle
  <1>1. /\ Started /\ Running
        /\ \A t \in 1 .. Threads : t # cur => Suspended(t)
    BY <1>0, InvParts
  <1> DEFINE c == gpr[2]
             e == c + OffEpc
             moved == Moved(mem[c + OffCause])
  <1>2. /\ cur \in 1 .. Threads /\ gpr \in [1 .. 3 -> Int] /\ mem \in [Memory -> Int]
        /\ pcb \in [1 .. Threads -> Int]
        /\ StackKept(cur) /\ FrameKept(cur, c, moved)
    BY <1>0, <1>1 DEF Running, Started
  <1>3. PICK u \in 1 .. Threads :
           /\ cur' = u
           /\ pcb' = [pcb EXCEPT ![cur] = c]
           /\ gpr' = [r \in DOMAIN gpr |-> IF r = 2 THEN pcb'[u] ELSE Junk]
           /\ mem' = IF mem[c + OffCause] = 11 THEN [mem EXCEPT ![e] = mem[e] + 4] ELSE mem
           /\ mode' = "return"
           /\ UNCHANGED <<pc, csr, left>>
    BY DEF __am_irq_handle
  <1>4. /\ c \in Int /\ left[cur].sp \in Room(cur) /\ c = left[cur].sp - FrameWords
    <2>1. FrameWords \in Int
      BY CteAssumption DEF ContextWords, NR_REGS
    <2> QED
      BY <1>2, <2>1 DEF StackKept, FrameKept
  <1>5. /\ left[cur].sp \in Int /\ Frame(c) \subseteq Stack(cur)
        /\ \A a \in Frame(c) : a \in Int /\ a < left[cur].sp
    BY <1>2, <1>4, FrameInStack
  <1>6. Stack(cur) \subseteq Memory /\ OffCause = 4 /\ OffEpc = 6 /\ e \in Frame(c)
    BY <1>2, StackBounds DEF OffCause, OffEpc, NR_REGS, Frame
  <1>7. e \in Memory /\ e \in Stack(cur) /\ e < left[cur].sp /\ c + 1 # e /\ mem[e] \in Int /\ c + 1 \in Stack(cur)
    <2>1. c + 1 # e
      BY <1>4, <1>6
    <2>2. c + 1 \in Frame(c)
      BY DEF Frame
    <2> HIDE DEF c, e
    <2> QED
      BY <1>2, <1>5, <1>6, <2>1, <2>2
  <1>8. /\ mem' \in [Memory -> Int] /\ mem'[e] = mem[e] + moved
        /\ \A a \in Memory : a # e => mem'[a] = mem[a]
    <2> HIDE DEF c, e
    <2>1. mem[e] + 4 \in Int /\ mem[e] + 0 = mem[e]
      BY <1>7
    <2>2. CASE mem[c + OffCause] = 11
      BY <1>2, <1>3, <1>7, <2>1, <2>2 DEF Moved
    <2>3. CASE mem[c + OffCause] # 11
      BY <1>2, <1>3, <1>7, <2>1, <2>3 DEF Moved
    <2> QED
      BY <2>2, <2>3
  <1>9. mem[c + 1] = left[cur].x1 /\ mem[e] + moved = left[cur].pc /\ c + FrameWords = left[cur].sp
    BY <1>2 DEF FrameKept
  <1>10. left[cur].pc \in Int /\ left[cur].pc + 0 = left[cur].pc
    BY <1>1, <1>2 DEF Started
  <1> HIDE DEF c, e, moved
  <1>11. pcb' \in [1 .. Threads -> Int] /\ pcb'[cur] = c /\ \A t \in 1 .. Threads : t # cur => pcb'[t] = pcb[t]
    BY <1>2, <1>3, <1>4
  <1>12. gpr' \in [1 .. 3 -> Int] /\ gpr'[2] = pcb'[u]
    <2>1. Junk \in Int /\ pcb'[u] \in Int
      BY <1>11 DEF Junk
    <2> QED
      BY <1>2, <1>3, <2>1
  <1>13. Started'
    BY <1>1, <1>3, <1>8, <1>11, <1>12 DEF Started, Memory, Top
  <1>14. Running'
    BY <1>3 DEF Running
  <1>15. PICK z \in 1 .. Threads : z = cur
    BY <1>2
  <1>16. Suspended(z)'
    <2>1. /\ left[z].sp \in Room(z) /\ DOMAIN left[z].stack \subseteq {b \in Stack(z) : b >= left[z].sp}
          /\ \A a \in DOMAIN left[z].stack : mem[a] = left[z].stack[a]
      BY <1>2, <1>15 DEF StackKept
    <2>2. ASSUME NEW a \in DOMAIN left[z].stack PROVE mem'[a] = left[z].stack[a]
      <3>1. a \in Stack(z) /\ a >= left[z].sp /\ a \in Memory /\ a \in Int
        BY <1>6, <1>15, <2>1 DEF Stack
      <3>2. a # e
        BY <1>5, <1>6, <1>7, <1>15, <3>1
      <3> QED
        BY <1>8, <2>1, <3>1, <3>2
    <2>3. StackKept(z)'
      BY <1>3, <2>1, <2>2 DEF StackKept, Room, Stack, Top
    <2>4. mem'[c + 1] = left[z].x1 /\ mem'[e] = left[z].pc
      BY <1>6, <1>7, <1>8, <1>9, <1>15
    <2>5. FrameKept(z, pcb[z], 0)'
      BY <1>3, <1>9, <1>10, <1>11, <1>15, <2>4 DEF FrameKept, e
    <2> QED
      BY <2>3, <2>5 DEF Suspended
  <1>17. ASSUME NEW t \in 1 .. Threads PROVE Suspended(t)'
    <2>1. CASE t = z
      BY <1>16, <2>1
    <2>2. CASE t # z
      <3>1. \A a \in Stack(t) : a \in Memory /\ a # e
        BY <1>2, <1>7, <1>15, <2>2, StacksApart, StackBounds
      <3>2. \A a \in Stack(t) : mem'[a] = mem[a]
        BY <1>8, <3>1
      <3> QED
        BY <1>1, <1>3, <1>11, <1>15, <2>2, <3>2, SuspendedStays
    <2> QED
      BY <2>1, <2>2
  <1> QED
    BY <1>3, <1>12, <1>13, <1>14, <1>17, InvBuilt

\* The thread of the frame goes on above it.
LEMMA ReturnStep ==
    ASSUME cteTypeOK, CteInv, TrapReturn
    PROVE  cteTypeOK' /\ CteInv'
  <1>0. mode = "return"
    BY DEF TrapReturn
  <1>1. /\ Started /\ gpr[2] = pcb[cur]
        /\ \A t \in 1 .. Threads : Suspended(t)
    BY <1>0, InvParts
  <1> DEFINE c == gpr[2]
  <1>2. /\ cur \in 1 .. Threads /\ gpr \in [1 .. 3 -> Int] /\ mem \in [Memory -> Int]
        /\ csr \in [mtvec : {"unset", "__am_asm_trap"}, mcause : Int, mepc : Int] /\ csr.mtvec = "__am_asm_trap"
        /\ left[cur].sp \in Room(cur) /\ c + FrameWords = left[cur].sp
    BY <1>1 DEF Started, Suspended, StackKept, FrameKept
  <1>3. /\ gpr' = [r \in 1 .. 3 |-> IF r = 2 THEN c + FrameWords ELSE mem[c + r]]
        /\ csr' = [csr EXCEPT !.mepc = mem[c + OffEpc]] /\ pc' = mem[c + OffEpc]
        /\ mode' = "thread"
        /\ UNCHANGED <<mem, cur, pcb, left>>
    BY <1>2 DEF TrapReturn
  <1>4. c \in Int /\ c = left[cur].sp - FrameWords /\ FrameWords \in Int
    <2>1. FrameWords \in Int /\ c \in Int
      BY <1>2, CteAssumption DEF ContextWords, NR_REGS
    <2> QED
      BY <1>2, <2>1
  <1>5. left[cur].sp \in Int /\ Frame(c) \subseteq Stack(cur) /\ Stack(cur) \subseteq Memory
    BY <1>2, <1>4, FrameInStack, StackBounds
  <1> HIDE DEF c
  <1>6. mem[c + 1] \in Int /\ mem[c + 3] \in Int /\ mem[c + OffEpc] \in Int
    BY <1>2, <1>5 DEF Frame
  <1>7. gpr' \in [1 .. 3 -> Int] /\ gpr'[2] = left[cur].sp
    <2>1. \A r \in 1 .. 3 : r = 1 \/ r = 2 \/ r = 3
      OBVIOUS
    <2>2. \A r \in 1 .. 3 : gpr'[r] \in Int
      BY <1>2, <1>3, <1>5, <1>6, <2>1
    <2>3. gpr' = [r \in 1 .. 3 |-> gpr'[r]]
      BY <1>3
    <2> QED
      BY <1>2, <1>3, <2>2, <2>3
  <1>8. /\ csr' \in [mtvec : {"unset", "__am_asm_trap"}, mcause : Int, mepc : Int]
        /\ csr'.mtvec = "__am_asm_trap"
    BY <1>2, <1>3, <1>6
  <1>9. Started'
    BY <1>1, <1>3, <1>6, <1>7, <1>8 DEF Started, Memory, Top
  <1>10. Running'
    BY <1>2, <1>3, <1>7 DEF Running, Room, Top
  <1>11. \A t \in 1 .. Threads : Suspended(t)'
    BY <1>1, <1>3, SuspendedStays
  <1> QED
    BY <1>3, <1>9, <1>10, <1>11, InvBuilt

\* For any number of threads and traps, stacks of any size that holds a
\* context, both layouts of the frame and every choice of the event handler:
\* a trap returns to the register, the stack and the instruction the thread
\* had, and no thread's stack pointer leaves its stack.
THEOREM ThreadsAlwaysResume == cteSpec => []ThreadsResume
  <1>1. cteInit => cteTypeOK /\ CteInv
    BY CteInitInv
  <1>2. cteTypeOK /\ CteInv /\ [cteNext]_cteVars => cteTypeOK' /\ CteInv'
    <2> SUFFICES ASSUME cteTypeOK, CteInv, [cteNext]_cteVars PROVE cteTypeOK' /\ CteInv'
      OBVIOUS
    <2>1. CASE cte_init
      BY <2>1, InitStep
    <2>2. CASE Compute \/ UseStack
      BY <2>2, ThreadStep
    <2>3. CASE yield \/ Syscall \/ Exception
      <3>1. 11 \in Int /\ 2 \in Int /\ -1 \in Int /\ 1 \in Int /\ 0 \in Int
        OBVIOUS
      <3>2. PICK cause \in Int, number \in Int : Trap(cause, number)
        BY <2>3, <3>1 DEF yield, Syscall, Exception
      <3> QED
        BY <3>2, TrapStep
    <2>4. CASE TrapEntry
      BY <2>4, EntryStep
    <2>5. CASE __am_irq_handle
      BY <2>5, HandleStep
    <2>6. CASE TrapReturn
      BY <2>6, ReturnStep
    <2>7. CASE UNCHANGED cteVars
      BY <2>7 DEF cteVars, cteTypeOK, CteInv, StackKept, FrameKept, Room, Stack, Top, Moved
    <2> QED
      BY <2>1, <2>2, <2>3, <2>4, <2>5, <2>6, <2>7 DEF cteNext
  <1>3. cteTypeOK /\ CteInv => ThreadsResume
    <2> SUFFICES ASSUME cteTypeOK, CteInv PROVE ThreadsResume
      OBVIOUS
    <2>1. InOwnStack
      BY DEF CteInv, InOwnStack, Room
    <2>2. ASSUME mode = "return"
          PROVE  LET sp == pcb[cur] IN
                 /\ mem[sp + 1] = left[cur].x1
                 /\ mem[sp + OffEpc] = left[cur].pc
                 /\ sp + FrameWords = left[cur].sp
                 /\ \A a \in DOMAIN left[cur].stack : mem[a] = left[cur].stack[a]
      <3>1. Started /\ Suspended(cur) /\ cur \in 1 .. Threads
        BY <2>2, InvParts DEF Started
      <3>2. /\ pcb[cur] + FrameWords = left[cur].sp /\ mem[pcb[cur] + 1] = left[cur].x1
            /\ mem[pcb[cur] + OffEpc] + 0 = left[cur].pc
            /\ \A a \in DOMAIN left[cur].stack : mem[a] = left[cur].stack[a]
            /\ left[cur].sp \in Room(cur) /\ pcb[cur] \in Int /\ mem \in [Memory -> Int]
        BY <3>1 DEF Started, Suspended, StackKept, FrameKept
      <3>3. mem[pcb[cur] + OffEpc] \in Int
        <4>1. FrameWords \in Int
          BY CteAssumption DEF ContextWords, NR_REGS
        <4>2. pcb[cur] = left[cur].sp - FrameWords
          BY <3>2, <4>1
        <4>3. pcb[cur] + OffEpc \in Memory
          BY <3>1, <3>2, <4>2, FrameInStack, StackBounds DEF Frame
        <4> QED
          BY <3>2, <4>3
      <3> QED
        BY <3>2, <3>3
    <2> QED
      BY <2>1, <2>2 DEF ThreadsResume, Resumed
  <1> QED
    BY <1>1, <1>2, <1>3, PTL DEF cteSpec

(***************************************************************************)
(* The start of a program on ysyxSoC.                                      *)
(***************************************************************************)
\* What is assumed of a program.
LEMMA ProgramParts ==
    ASSUME NEW p \in Programs
    PROVE  /\ FlashSize \in Nat /\ SocSize \in Nat /\ FlashSize <= SocSize
           /\ \A area \in {p.image, p.ssbl} :
                  /\ area.load \in Nat /\ area.len \in Nat /\ area.start \in Nat
                  /\ area.load + area.len <= FlashSize /\ FlashSize <= area.start /\ area.start + area.len <= SocSize
           /\ p.bss.start \in Nat /\ p.bss.len \in Nat /\ FlashSize <= p.bss.start
           /\ p.ssbl.start + p.ssbl.len <= p.image.start /\ p.image.start + p.image.len <= p.bss.start
  BY BootAssumption

\* The record of a start.
BootType == [prog : Programs, mem : SocMemory, pc : BootPc, dst : Nat, src : Nat, end : Nat,
             then : {"none", "_ssbl_init", "clear_bss"}, uart : {UartAtReset, UartReady}]

\* Its fields.
LEMMA BootFields ==
    ASSUME bootTypeOK
    PROVE  /\ boot \in BootType /\ boot.prog \in Programs /\ boot.mem \in SocMemory /\ boot.pc \in BootPc
           /\ boot.dst \in Nat /\ boot.src \in Nat /\ boot.end \in Nat
           /\ DOMAIN boot.mem = SocBytes /\ \A a \in SocBytes : boot.mem[a] \in Int
  <1>1. /\ boot \in BootType /\ boot.prog \in Programs /\ boot.mem \in SocMemory /\ boot.pc \in BootPc
        /\ boot.dst \in Nat /\ boot.src \in Nat /\ boot.end \in Nat
    BY DEF bootTypeOK, BootType
  <1> QED
    BY <1>1 DEF SocMemory

\* At reset.
LEMMA BootInit ==
    ASSUME NEW p \in Programs, boot = Reset(p)
    PROVE  bootTypeOK /\ BootInv
  <1> DEFINE m == [a \in SocBytes |-> IF a \in FlashBytes THEN a ELSE Uninit]
  <1>1. m \in SocMemory
    BY BootAssumption DEF SocMemory, SocBytes, Uninit
  <1>2. \A a \in SocBytes : m[a] = IF a \in FlashBytes THEN a ELSE Uninit
    OBVIOUS
  <1> HIDE DEF m
  <1>3. boot = [prog |-> p, mem |-> m, pc |-> "_trm_init", dst |-> 0, src |-> 0, end |-> 0, then |-> "none", uart |-> UartAtReset]
    BY DEF Reset, m
  <1>4. "_trm_init" \in BootPc
    BY DEF BootPc
  <1>5. boot \in BootType
    BY <1>1, <1>3, <1>4 DEF BootType
  <1>6. boot.prog = p /\ boot.mem = m /\ boot.pc = "_trm_init" /\ boot.uart = UartAtReset
    BY <1>3
  <1>7. Unwritten
    BY <1>2, <1>6 DEF Unwritten
  <1> QED
    BY <1>5, <1>6, <1>7 DEF bootTypeOK, BootType, BootInv, SecondLoaderRuns

\* A copy that begins.
LEMMA CopyBegins ==
    ASSUME bootTypeOK, BootInv, NEW area \in {boot.prog.image, boot.prog.ssbl}, NEW then \in {"_ssbl_init", "clear_bss"},
           boot.pc \in {"_trm_init", "_ssbl_init"},
           area = IF then = "_ssbl_init" THEN boot.prog.ssbl ELSE boot.prog.image,
           then = "clear_bss" /\ TwoLoaders(boot.prog) => boot.pc = "_ssbl_init",
           boot' = Copying(boot, area, then)
    PROVE  bootTypeOK' /\ BootInv'
  <1>1. area.load \in Nat /\ area.len \in Nat /\ area.start \in Nat
    BY BootFields, ProgramParts
  <1> DEFINE l == area.load
             n == area.len
             s == area.start
             e == area.load + area.len
  <1>2. boot' = [boot EXCEPT !.dst = s, !.src = l, !.end = e, !.pc = "copy", !.then = then]
    BY DEF Copying
  <1>3. l \in Nat /\ n \in Nat /\ s \in Nat /\ e = l + n /\ boot \in BootType
    BY <1>1, BootFields
  <1>4. /\ boot' \in BootType /\ boot'.prog = boot.prog /\ boot'.mem = boot.mem /\ boot'.uart = boot.uart
        /\ boot'.pc = "copy" /\ boot'.then = then /\ boot'.src = l /\ boot'.dst = s /\ boot'.end = e
    <2> DEFINE z == "copy"
    <2>1. /\ z \in BootPc /\ then \in {"none", "_ssbl_init", "clear_bss"} /\ e \in Nat /\ l \in Nat /\ s \in Nat /\ boot \in BootType
          /\ boot' = [boot EXCEPT !.dst = s, !.src = l, !.end = e, !.pc = z, !.then = then]
      BY <1>2, <1>3 DEF BootPc
    <2> HIDE DEF l, n, s, e, z
    <2>2. /\ boot' \in BootType /\ boot'.prog = boot.prog /\ boot'.mem = boot.mem /\ boot'.uart = boot.uart
          /\ boot'.pc = z /\ boot'.then = then /\ boot'.src = l /\ boot'.dst = s /\ boot'.end = e
      BY ONLY <2>1 DEF BootType
    <2> QED
      BY <2>2 DEF z
  <1>5. bootTypeOK'
    BY <1>4 DEF bootTypeOK, BootType
  <1>6. Unwritten'
    BY <1>4 DEF BootInv, Unwritten, At
  <1>7. BeingCopied' = area
    BY <1>4 DEF BeingCopied
  <1>8. /\ l \in l .. e /\ s = s + l - l
        /\ CopiedFirst(area, l - l)'
    BY <1>3 DEF CopiedFirst
  <1>9. SecondLoaderRuns' => InPlace(boot.prog.ssbl)'
    <2> SUFFICES ASSUME SecondLoaderRuns' PROVE InPlace(boot.prog.ssbl)'
      OBVIOUS
    <2>1. SecondLoaderRuns
      BY <1>4 DEF SecondLoaderRuns, TwoLoaders
    <2>2. InPlace(boot.prog.ssbl)
      BY <2>1 DEF BootInv
    <2> QED
      BY <1>4, <2>2 DEF InPlace, CopiedFirst
  <1>10. boot.uart = UartAtReset
    BY DEF BootInv
  <1> QED
    BY <1>4, <1>5, <1>6, <1>7, <1>8, <1>9, <1>10 DEF BootInv

\* Where a copy is.
LEMMA CopyParts ==
    ASSUME bootTypeOK, BootInv, boot.pc = "copy", NEW area, area = BeingCopied
    PROVE  /\ area \in {boot.prog.image, boot.prog.ssbl}
           /\ area.load \in Nat /\ area.len \in Nat /\ area.start \in Nat /\ FlashSize \in Nat /\ SocSize \in Nat
           /\ area.load + area.len <= FlashSize /\ FlashSize <= area.start /\ area.start + area.len <= SocSize
           /\ boot.src \in area.load .. boot.end /\ boot.end = area.load + area.len
           /\ boot.dst = area.start + boot.src - area.load
           /\ CopiedFirst(area, boot.src - area.load)
           /\ Unwritten
  <1>1. area \in {boot.prog.image, boot.prog.ssbl}
    BY DEF BeingCopied
  <1> QED
    BY <1>1, BootFields, ProgramParts DEF BootInv

\* A turn of a loop copies its next bytes, which are in the flash, to where
\* nothing is yet.
LEMMA CopyGoesOn ==
    ASSUME bootTypeOK, BootInv, boot.pc = "copy", NEW n \in {1, 4}, boot.src + n <= boot.end, CopyUnit(n)
    PROVE  bootTypeOK' /\ BootInv'
  <1> DEFINE area == BeingCopied
             l == area.load
             total == area.len
             s == area.start
             src == boot.src
             dst == boot.dst
             m == [a \in SocBytes |-> IF a - dst \in 0 .. n - 1 THEN boot.mem[src + a - dst] ELSE boot.mem[a]]
  <1>1. /\ l \in Nat /\ total \in Nat /\ s \in Nat /\ FlashSize \in Nat /\ SocSize \in Nat
        /\ l + total <= FlashSize /\ FlashSize <= s /\ s + total <= SocSize
        /\ src \in Nat /\ l <= src /\ src + n <= l + total /\ dst = s + src - l /\ dst \in Nat
        /\ area \in {boot.prog.image, boot.prog.ssbl} /\ CopiedFirst(area, src - l) /\ Unwritten
    BY CopyParts, BootFields
  <1>2. boot' = [boot EXCEPT !.dst = dst + n, !.src = src + n, !.mem = m]
    BY DEF CopyUnit
  <1> HIDE DEF area, l, total, s, src, dst
  <1>3. \A a \in SocBytes : a - dst \in 0 .. n - 1 =>
            /\ a \in s .. s + total - 1 /\ src + a - dst = l + (a - s) /\ a - s \in src - l .. src + n - l - 1
            /\ src + a - dst \in FlashBytes
    BY <1>1 DEF SocBytes, FlashBytes
  <1>4. FlashBytes \subseteq SocBytes /\ \A a \in FlashBytes : a \in Nat /\ a < FlashSize
    BY BootAssumption DEF SocBytes, FlashBytes
  <1>5. \A a \in FlashBytes : boot.mem[a] = a
    BY <1>1, <1>4 DEF Unwritten
  <1>6. /\ \A a \in SocBytes : m[a] = IF a - dst \in 0 .. n - 1 THEN l + (a - s) ELSE boot.mem[a]
        /\ DOMAIN m = SocBytes
    BY <1>3, <1>5
  <1>7. m \in SocMemory
    <2>1. \A a \in SocBytes : m[a] \in Int
      BY <1>1, <1>3, <1>6, BootFields
    <2> QED
      BY <2>1 DEF SocMemory
  <1> HIDE DEF m
  <1>8. /\ boot' \in BootType /\ boot'.prog = boot.prog /\ boot'.mem = m /\ boot'.uart = boot.uart /\ boot'.end = boot.end
        /\ boot'.pc = "copy" /\ boot'.then = boot.then /\ boot'.src = src + n /\ boot'.dst = dst + n
    <2> DEFINE x == dst + n
               y == src + n
    <2>1. x \in Nat /\ y \in Nat /\ m \in SocMemory /\ boot \in BootType /\ boot.pc = "copy"
          /\ boot' = [boot EXCEPT !.dst = x, !.src = y, !.mem = m]
      BY <1>1, <1>2, <1>7, BootFields
    <2> HIDE DEF x, y
    <2>2. /\ boot' \in BootType /\ boot'.prog = boot.prog /\ boot'.mem = m /\ boot'.uart = boot.uart /\ boot'.end = boot.end
          /\ boot'.pc = "copy" /\ boot'.then = boot.then /\ boot'.src = y /\ boot'.dst = x
      BY ONLY <2>1 DEF BootType
    <2> QED
      BY <2>2 DEF x, y
  <1>9. bootTypeOK'
    BY <1>8 DEF bootTypeOK, BootType
  <1>10. BeingCopied' = area
    BY <1>8 DEF BeingCopied, area
  <1>11. ASSUME NEW k \in 0 .. src + n - l - 1 PROVE m[s + k] = l + k
    <2>1. s + k \in SocBytes /\ (s + k) - s = k
      BY <1>1 DEF SocBytes
    <2>2. CASE (s + k) - dst \in 0 .. n - 1
      BY <1>1, <1>6, <2>1, <2>2
    <2>3. CASE ~((s + k) - dst \in 0 .. n - 1)
      <3>1. k \in 0 .. src - l - 1
        BY <1>1, <2>3
      <3>2. boot.mem[s + k] = l + k
        BY <1>1, <3>1 DEF CopiedFirst, s, l
      <3> QED
        BY <1>6, <2>1, <2>3, <3>2
    <2> QED
      BY <2>2, <2>3
  <1>12. Unwritten'
    <2>1. \A a \in FlashBytes : ~(a - dst \in 0 .. n - 1)
      BY <1>1, <1>4
    <2>2. \A a \in SocBytes : a - dst \in 0 .. n - 1 => At(area, a)
      BY <1>1, <1>3 DEF At, SocBytes, s, total
    <2>3. \A a \in SocBytes : At(area, a) => At(boot.prog.image, a) \/ At(boot.prog.ssbl, a)
      BY <1>1
    <2> QED
      BY <1>1, <1>4, <1>6, <1>8, <2>1, <2>2, <2>3 DEF Unwritten, At
  <1>13. SecondLoaderRuns' => InPlace(boot.prog.ssbl)'
    <2> SUFFICES ASSUME SecondLoaderRuns' PROVE InPlace(boot.prog.ssbl)'
      OBVIOUS
    <2>1. SecondLoaderRuns /\ boot.then = "clear_bss"
      BY <1>8 DEF SecondLoaderRuns, TwoLoaders
    <2>2. InPlace(boot.prog.ssbl) /\ area = boot.prog.image
      BY <2>1 DEF BootInv, BeingCopied, area
    <2> DEFINE z == boot.prog.ssbl
    <2>3. z.start \in Nat /\ z.len \in Nat /\ z.start + z.len <= s /\ z.start + z.len <= SocSize
      BY <2>2, BootFields, ProgramParts DEF s
    <2>4. ASSUME NEW k \in 0 .. z.len - 1 PROVE m[z.start + k] = z.load + k
      <3>1. z.start + k \in SocBytes /\ ~((z.start + k) - dst \in 0 .. n - 1)
        BY <1>1, <2>3 DEF SocBytes
      <3>2. boot.mem[z.start + k] = z.load + k
        BY <2>2 DEF InPlace, CopiedFirst
      <3> QED
        BY <1>6, <3>1, <3>2
    <2> QED
      BY <1>8, <2>4 DEF InPlace, CopiedFirst
  <1>14. boot.uart = UartAtReset /\ boot.then \in {"_ssbl_init", "clear_bss"} /\ boot.end = l + total
    BY CopyParts DEF BootInv, area, l, total
  <1>15. /\ boot.then \in {"_ssbl_init", "clear_bss"}
         /\ src + n \in l .. boot.end /\ dst + n = s + (src + n) - l
    BY <1>1, <1>14
  <1>16. \A k \in 0 .. boot'.src - area.load - 1 : boot'.mem[area.start + k] = area.load + k
    <2>1. \A k \in 0 .. src + n - l - 1 : m[s + k] = l + k
      BY ONLY <1>11
    <2>2. boot'.src = src + n /\ boot'.mem = m
      BY ONLY <1>8
    <2>3. \A k \in 0 .. boot'.src - l - 1 : boot'.mem[s + k] = l + k
      BY <1>1, <2>1, <2>2
    <2> QED
      BY ONLY <2>3 DEF l, s
  <1>17. BeingCopied'.load = l /\ BeingCopied'.len = total /\ BeingCopied'.start = s
    BY <1>10 DEF l, total, s
  <1>18. CopiedFirst(BeingCopied, boot.src - BeingCopied.load)'
    BY <1>10, <1>16 DEF CopiedFirst
  <1>19. /\ boot'.src \in BeingCopied'.load .. boot'.end /\ boot'.end = BeingCopied'.load + BeingCopied'.len
         /\ boot'.dst = BeingCopied'.start + boot'.src - BeingCopied'.load
    BY <1>8, <1>14, <1>15, <1>17
  <1>20. BootInv'
    BY <1>8, <1>12, <1>13, <1>14, <1>18, <1>19 DEF BootInv
  <1> QED
    BY <1>9, <1>20

\* A copy that has ended is complete.
LEMMA CopyEnds ==
    ASSUME bootTypeOK, BootInv, boot.pc = "copy", ~(boot.src < boot.end), boot' = [boot EXCEPT !.pc = boot.then]
    PROVE  bootTypeOK' /\ BootInv'
  <1> DEFINE area == BeingCopied
             z == boot.then
  <1>1. /\ area.load \in Nat /\ area.len \in Nat /\ boot.src \in Nat /\ boot.end \in Nat
        /\ boot.src \in area.load .. boot.end /\ boot.end = area.load + area.len
        /\ CopiedFirst(area, boot.src - area.load) /\ Unwritten
    BY CopyParts, BootFields
  <1>2. InPlace(area)
    <2>1. boot.src - area.load = area.len
      BY <1>1
    <2> QED
      BY <1>1, <2>1 DEF InPlace
  <1>3. z \in {"_ssbl_init", "clear_bss"} /\ boot.uart = UartAtReset
    BY DEF BootInv
  <1>4. z \in BootPc /\ boot \in BootType /\ boot' = [boot EXCEPT !.pc = z]
    BY <1>3, BootFields DEF BootPc
  <1> HIDE DEF z
  <1>5. /\ boot' \in BootType /\ boot'.prog = boot.prog /\ boot'.mem = boot.mem /\ boot'.uart = boot.uart
        /\ boot'.pc = z /\ boot'.then = boot.then
    BY ONLY <1>4 DEF BootType
  <1>6. bootTypeOK'
    BY <1>5 DEF bootTypeOK, BootType
  <1>7. Unwritten'
    BY <1>1, <1>5 DEF Unwritten, At
  <1>8. CASE z = "_ssbl_init"
    <2>1. InPlace(boot.prog.ssbl)
      BY <1>2, <1>8 DEF BeingCopied, z
    <2> QED
      BY <1>3, <1>5, <1>6, <1>7, <1>8, <2>1 DEF BootInv, InPlace, CopiedFirst, SecondLoaderRuns
  <1>9. CASE z = "clear_bss"
    <2>1. InPlace(boot.prog.image)
      BY <1>2, <1>9 DEF BeingCopied, z
    <2> QED
      BY <1>3, <1>5, <1>6, <1>7, <1>9, <2>1 DEF BootInv, InPlace, CopiedFirst, SecondLoaderRuns
  <1> QED
    BY <1>3, <1>8, <1>9

\* Clearing the uninitialised data leaves the image alone.
LEMMA ClearStep ==
    ASSUME bootTypeOK, BootInv, clear_bss
    PROVE  bootTypeOK' /\ BootInv'
  <1> DEFINE b == boot.prog.bss
             z == "call_main"
             m == [a \in SocBytes |-> IF a - b.start \in 0 .. b.len - 1 THEN 0 ELSE boot.mem[a]]
  <1>1. /\ boot.pc = "clear_bss" /\ boot' = [boot EXCEPT !.pc = z, !.mem = m]
    BY DEF clear_bss
  <1>2. /\ b.start \in Nat /\ b.len \in Nat /\ FlashSize \in Nat /\ SocSize \in Nat /\ FlashSize <= b.start
    BY BootFields, ProgramParts
  <1>3. Unwritten /\ InPlace(boot.prog.image) /\ boot.uart = UartAtReset
    BY <1>1 DEF BootInv
  <1>4. \A a \in SocBytes : m[a] = IF At(b, a) THEN 0 ELSE boot.mem[a]
    BY DEF At
  <1>5. m \in SocMemory
    BY BootFields DEF SocMemory
  <1> HIDE DEF m
  <1>6. /\ boot' \in BootType /\ boot'.prog = boot.prog /\ boot'.mem = m /\ boot'.uart = boot.uart /\ boot'.pc = z
    <2>1. z \in BootPc /\ boot \in BootType
      BY BootFields DEF BootPc
    <2> HIDE DEF z
    <2> QED
      BY ONLY <1>1, <1>5, <2>1 DEF BootType
  <1>7. bootTypeOK'
    BY <1>6 DEF bootTypeOK, BootType
  <1>8. Unwritten'
    <2>1. \A a \in FlashBytes : ~At(b, a)
      BY <1>2 DEF At, FlashBytes
    <2> QED
      BY <1>3, <1>4, <1>6, <2>1 DEF Unwritten, At
  <1>9. InPlace(boot.prog.image)'
    <2> DEFINE i == boot.prog.image
    <2>1. i.start \in Nat /\ i.len \in Nat /\ i.start + i.len <= SocSize /\ i.start + i.len <= b.start
      BY BootFields, ProgramParts
    <2>2. ASSUME NEW k \in 0 .. i.len - 1 PROVE m[i.start + k] = i.load + k
      <3>1. i.start + k \in SocBytes /\ ~At(b, i.start + k)
        BY <1>2, <2>1 DEF SocBytes, At
      <3>2. boot.mem[i.start + k] = i.load + k
        BY <1>3 DEF InPlace, CopiedFirst
      <3> QED
        BY <1>4, <3>1, <3>2
    <2> QED
      BY <1>6, <2>2 DEF InPlace, CopiedFirst
  <1>10. \A a \in SocBytes : At(boot.prog.bss, a)' => boot'.mem[a] = 0
    BY <1>4, <1>6 DEF At
  <1> QED
    BY <1>3, <1>6, <1>7, <1>8, <1>9, <1>10 DEF BootInv, SecondLoaderRuns, At

\* A write changes the register selected.
LEMMA Outb ==
    ASSUME NEW u, DOMAIN u = UartRegisters, NEW lcr \in Nat, u["lcr"] = lcr, NEW reg \in 0 .. 3, NEW v
    PROVE  LET w == outb(u, reg, v)
               sel == IF reg = 0 THEN (IF lcr >= 128 THEN "dll" ELSE "thr")
                      ELSE IF reg = 1 THEN (IF lcr >= 128 THEN "dlm" ELSE "ier")
                      ELSE IF reg = 2 THEN "fcr" ELSE "lcr"
           IN  /\ DOMAIN w = UartRegisters /\ w = [r \in UartRegisters |-> w[r]]
               /\ \A r \in UartRegisters : w[r] = IF r = sel THEN v ELSE u[r]
  <1> DEFINE sel == IF reg = 0 THEN (IF lcr >= 128 THEN "dll" ELSE "thr")
                    ELSE IF reg = 1 THEN (IF lcr >= 128 THEN "dlm" ELSE "ier")
                    ELSE IF reg = 2 THEN "fcr" ELSE "lcr"
             w == outb(u, reg, v)
  <1>1. Selected(u, reg) = sel /\ sel \in UartRegisters
    BY DEF Selected, UartRegisters
  <1>2. w = [u EXCEPT ![sel] = v]
    BY <1>1 DEF outb
  <1> HIDE DEF sel, w
  <1>3. w = [r \in UartRegisters |-> IF r = sel THEN v ELSE u[r]]
    BY <1>1, <1>2
  <1>4. DOMAIN w = UartRegisters /\ \A r \in UartRegisters : w[r] = IF r = sel THEN v ELSE u[r]
    BY <1>3
  <1>5. w = [r \in UartRegisters |-> w[r]]
    BY <1>3
  <1> QED
    BY <1>4, <1>5 DEF w, sel

\* The six writes leave the UART ready.
LEMMA UartInit == uart_init(UartAtReset) = UartReady
  <1> DEFINE a == outb(UartAtReset, 1, 0)
             b == outb(a, 3, 128)
             c == outb(b, 0, 1)
             d == outb(c, 1, 0)
             e == outb(d, 3, 3)
             f == outb(e, 2, 7)
             Holds(u, thr, ier, dll, dlm, fcr, lcr) ==
                 /\ DOMAIN u = UartRegisters /\ u["lcr"] = lcr /\ lcr \in Nat
                 /\ u["thr"] = thr /\ u["ier"] = ier /\ u["dll"] = dll /\ u["dlm"] = dlm /\ u["fcr"] = fcr
  <1>0. Holds(UartAtReset, Uninit, 0, 0, 0, 192, 3)
    BY DEF UartAtReset, UartRegisters
  <1>1. uart_init(UartAtReset) = f
    BY DEF uart_init
  <1> HIDE DEF a, b, c, d, e, f
  <1>2. Holds(a, Uninit, 0, 0, 0, 192, 3)
    <2>1. DOMAIN UartAtReset = UartRegisters /\ UartAtReset["lcr"] \in Nat
      BY <1>0
    <2>2. a = outb(UartAtReset, 1, 0)
      BY DEF a
    <2> QED
      BY <1>0, <2>1, <2>2, Outb DEF UartRegisters
  <1>3. Holds(b, Uninit, 0, 0, 0, 192, 128)
    <2>1. DOMAIN a = UartRegisters /\ a["lcr"] \in Nat
      BY <1>2
    <2>2. b = outb(a, 3, 128)
      BY DEF b
    <2> QED
      BY <1>2, <2>1, <2>2, Outb DEF UartRegisters
  <1>4. Holds(c, Uninit, 0, 1, 0, 192, 128)
    <2>1. DOMAIN b = UartRegisters /\ b["lcr"] \in Nat
      BY <1>3
    <2>2. c = outb(b, 0, 1)
      BY DEF c
    <2> QED
      BY <1>3, <2>1, <2>2, Outb DEF UartRegisters
  <1>5. Holds(d, Uninit, 0, 1, 0, 192, 128)
    <2>1. DOMAIN c = UartRegisters /\ c["lcr"] \in Nat
      BY <1>4
    <2>2. d = outb(c, 1, 0)
      BY DEF d
    <2> QED
      BY <1>4, <2>1, <2>2, Outb DEF UartRegisters
  <1>6. Holds(e, Uninit, 0, 1, 0, 192, 3)
    <2>1. DOMAIN d = UartRegisters /\ d["lcr"] \in Nat
      BY <1>5
    <2>2. e = outb(d, 3, 3)
      BY DEF e
    <2> QED
      BY <1>5, <2>1, <2>2, Outb DEF UartRegisters
  <1>7. Holds(f, Uninit, 0, 1, 0, 7, 3)
    <2>1. DOMAIN e = UartRegisters /\ e["lcr"] \in Nat
      BY <1>6
    <2>2. f = outb(e, 2, 7)
      BY DEF f
    <2> QED
      BY <1>6, <2>1, <2>2, Outb DEF UartRegisters
  <1>8. f = [r \in UartRegisters |-> f[r]]
    BY <1>6, Outb DEF f, UartRegisters
  <1> QED
    BY <1>1, <1>7, <1>8 DEF UartReady, UartRegisters

\* main is called with the program in place.
LEMMA MainStep ==
    ASSUME bootTypeOK, BootInv, call_main
    PROVE  bootTypeOK' /\ BootInv'
  <1> DEFINE z == "main"
             u == UartReady
  <1>1. boot.uart = UartAtReset /\ boot.pc = "call_main"
    BY DEF call_main, BootInv
  <1>2. boot' = [boot EXCEPT !.uart = u, !.pc = z]
    BY <1>1, UartInit DEF call_main
  <1>3. /\ boot' \in BootType /\ boot'.prog = boot.prog /\ boot'.mem = boot.mem /\ boot'.uart = u /\ boot'.pc = z
    <2>1. z \in BootPc /\ boot \in BootType /\ u \in {UartAtReset, UartReady}
      BY BootFields DEF BootPc
    <2> HIDE DEF z, u
    <2> QED
      BY ONLY <1>2, <2>1 DEF BootType
  <1>4. bootTypeOK'
    BY <1>3 DEF bootTypeOK, BootType
  <1>5. Unwritten' /\ InPlace(boot.prog.image)' /\ \A a \in SocBytes : At(boot.prog.bss, a)' => boot'.mem[a] = 0
    BY <1>1, <1>3 DEF BootInv, Unwritten, InPlace, CopiedFirst, At
  <1> QED
    BY <1>3, <1>4, <1>5 DEF BootInv, SecondLoaderRuns, At

\* A step of the start.
LEMMA BootStep == ASSUME bootTypeOK, BootInv, bootNext PROVE bootTypeOK' /\ BootInv'
  <1>1. CASE _trm_init
    <2>1. boot.pc = "_trm_init"
      BY <1>1 DEF _trm_init
    <2>2. CASE TwoLoaders(boot.prog)
      <3>1. boot' = Copying(boot, boot.prog.ssbl, "_ssbl_init")
        BY <1>1, <2>2 DEF _trm_init
      <3> QED
        BY <2>1, <3>1, CopyBegins
    <2>3. CASE ~TwoLoaders(boot.prog)
      <3>1. boot' = Copying(boot, boot.prog.image, "clear_bss")
        BY <1>1, <2>3 DEF _trm_init
      <3> QED
        BY <2>1, <2>3, <3>1, CopyBegins
    <2> QED
      BY <2>2, <2>3
  <1>2. CASE _ssbl_init
    <2>1. boot.pc = "_ssbl_init" /\ boot' = Copying(boot, boot.prog.image, "clear_bss")
      BY <1>2 DEF _ssbl_init
    <2> QED
      BY <2>1, CopyBegins
  <1>3. CASE fsbl_copy_image
    <2>1. boot.pc = "copy" /\ boot.src \in Nat /\ boot.end \in Nat
      BY <1>3, BootFields DEF fsbl_copy_image
    <2>2. CASE ByWords
      <3>1. CopyUnit(4) /\ boot.src + 4 <= boot.end
        BY <1>3, <2>2 DEF fsbl_copy_image, ByWords
      <3> QED
        BY <2>1, <3>1, CopyGoesOn
    <2>3. CASE ~ByWords /\ boot.src < boot.end
      <3>1. CopyUnit(1) /\ boot.src + 1 <= boot.end
        BY <1>3, <2>1, <2>3 DEF fsbl_copy_image
      <3> QED
        BY <2>1, <3>1, CopyGoesOn
    <2>4. CASE ~ByWords /\ ~(boot.src < boot.end)
      <3>1. boot' = [boot EXCEPT !.pc = boot.then]
        BY <1>3, <2>4 DEF fsbl_copy_image
      <3> QED
        BY <2>1, <2>4, <3>1, CopyEnds
    <2> QED
      BY <2>2, <2>3, <2>4
  <1> QED
    BY <1>1, <1>2, <1>3, ClearStep, MainStep DEF bootNext

\* So whatever runs is in place.
LEMMA BootLoaded == ASSUME bootTypeOK, BootInv PROVE ProgramLoaded
  <1>1. Unwritten
    BY DEF BootInv
  <1>2. ASSUME boot.pc = "main"
        PROVE  /\ InPlace(boot.prog.image) /\ boot.uart = UartReady
               /\ \A a \in SocBytes : At(boot.prog.bss, a) => boot.mem[a] = 0
    BY <1>2 DEF BootInv
  <1>3. ASSUME NEW a \in FlashBytes PROVE ~At(boot.prog.bss, a) /\ ~At(boot.prog.image, a) /\ ~At(boot.prog.ssbl, a)
    BY BootFields, ProgramParts DEF At, FlashBytes
  <1>4. ASSUME boot.pc = "main", NEW a \in SocBytes
        PROVE  CASE a \in FlashBytes -> boot.mem[a] = a
                 [] At(boot.prog.bss, a) -> boot.mem[a] = 0
                 [] At(boot.prog.image, a) \/ At(boot.prog.ssbl, a) -> TRUE
                 [] OTHER -> boot.mem[a] = Uninit
    <2>1. /\ a \in FlashBytes => boot.mem[a] = a
          /\ a \notin FlashBytes /\ ~At(boot.prog.image, a) /\ ~At(boot.prog.ssbl, a) /\ ~At(boot.prog.bss, a) => boot.mem[a] = Uninit
      BY <1>1 DEF Unwritten
    <2>2. At(boot.prog.bss, a) => boot.mem[a] = 0
      BY <1>2, <1>4
    <2> QED
      BY <1>3, <2>1, <2>2
  <1>5. SecondLoaderRuns => InPlace(boot.prog.ssbl)
    BY DEF BootInv
  <1> QED
    BY <1>2, <1>4, <1>5 DEF ProgramLoaded

\* The second loader is in place as long as it runs, and main starts with
\* its program in place and nothing else written, for every program whose
\* parts are laid out as assumed and every size of the memories.
THEOREM ProgramAlwaysLoaded == bootSpec => []ProgramLoaded
  <1>1. boot \in {Reset(p) : p \in Programs} => bootTypeOK /\ BootInv
    BY BootInit
  <1>2. bootTypeOK /\ BootInv /\ [bootNext]_boot => bootTypeOK' /\ BootInv'
    <2> SUFFICES ASSUME bootTypeOK, BootInv, [bootNext]_boot PROVE bootTypeOK' /\ BootInv'
      OBVIOUS
    <2>1. CASE UNCHANGED boot
      <3>1. bootTypeOK' /\ Unwritten' /\ BeingCopied' = BeingCopied
        BY <2>1 DEF bootTypeOK, BootInv, Unwritten, At, BeingCopied
      <3> QED
        BY <2>1, <3>1 DEF BootInv, CopiedFirst, InPlace, SecondLoaderRuns, TwoLoaders, At
    <2>2. CASE bootNext
      BY <2>2, BootStep
    <2> QED
      BY <2>1, <2>2
  <1>3. bootTypeOK /\ BootInv => ProgramLoaded
    BY BootLoaded
  <1> QED
    BY <1>1, <1>2, <1>3, PTL DEF bootSpec

(***************************************************************************)
(* The keyboards of ysyxSoC: what is in their queues is the codes of the   *)
(* keys not reported yet, of the first perhaps only its last bytes.        *)
(***************************************************************************)

\* No two keys of the PS/2 keyboard have the same code, and none has that
\* of a prefix.
LEMMA PlainCodes ==
    /\ \A i, j \in DOMAIN Plain : Plain[i][1] = Plain[j][1] => i = j
    /\ \A i \in DOMAIN Plain : Plain[i][1] \in Nat \ {224, 240}
  <1> DEFINE c(i) == Plain[i][1]
  <1>1. DOMAIN Plain = 1..69
    BY DEF Plain
  <1>2. c(1) = 118 /\ c(2) = 5 /\ c(3) = 6 /\ c(4) = 4 /\ c(5) = 12 /\ c(6) = 3 /\ c(7) = 11 /\
        c(8) = 131 /\ c(9) = 10 /\ c(10) = 1 /\ c(11) = 9 /\ c(12) = 120 /\ c(13) = 7 /\ c(14) = 14 /\
        c(15) = 22 /\ c(16) = 30 /\ c(17) = 38 /\ c(18) = 37 /\ c(19) = 46 /\ c(20) = 54 /\ c(21) = 61 /\
        c(22) = 62 /\ c(23) = 70
    BY DEF Plain
  <1>3. c(24) = 69 /\ c(25) = 78 /\ c(26) = 85 /\ c(27) = 102 /\ c(28) = 13 /\ c(29) = 21 /\ c(30) = 29 /\
        c(31) = 36 /\ c(32) = 45 /\ c(33) = 44 /\ c(34) = 53 /\ c(35) = 60 /\ c(36) = 67 /\ c(37) = 68 /\
        c(38) = 77 /\ c(39) = 84 /\ c(40) = 91 /\ c(41) = 93 /\ c(42) = 88 /\ c(43) = 28 /\ c(44) = 27 /\
        c(45) = 35 /\ c(46) = 43
    BY DEF Plain
  <1>4. c(47) = 52 /\ c(48) = 51 /\ c(49) = 59 /\ c(50) = 66 /\ c(51) = 75 /\ c(52) = 76 /\ c(53) = 82 /\
        c(54) = 90 /\ c(55) = 18 /\ c(56) = 26 /\ c(57) = 34 /\ c(58) = 33 /\ c(59) = 42 /\ c(60) = 50 /\
        c(61) = 49 /\ c(62) = 58 /\ c(63) = 65 /\ c(64) = 73 /\ c(65) = 74 /\ c(66) = 89 /\ c(67) = 20 /\
        c(68) = 17 /\ c(69) = 41
    BY DEF Plain
  <1> HIDE DEF c
  <1>5. \A i \in 1..69 : i = 1 \/ i = 2 \/ i = 3 \/ i = 4 \/ i = 5 \/ i = 6 \/ i = 7 \/ i = 8 \/ i = 9 \/ i = 10 \/
        i = 11 \/ i = 12 \/ i = 13 \/ i = 14 \/ i = 15 \/ i = 16 \/ i = 17 \/ i = 18 \/ i = 19 \/ i = 20 \/
        i = 21 \/ i = 22 \/ i = 23 \/ i = 24 \/ i = 25 \/ i = 26 \/ i = 27 \/ i = 28 \/ i = 29 \/ i = 30 \/
        i = 31 \/ i = 32 \/ i = 33 \/ i = 34 \/ i = 35 \/ i = 36 \/ i = 37 \/ i = 38 \/ i = 39 \/ i = 40 \/
        i = 41 \/ i = 42 \/ i = 43 \/ i = 44 \/ i = 45 \/ i = 46 \/ i = 47 \/ i = 48 \/ i = 49 \/ i = 50 \/
        i = 51 \/ i = 52 \/ i = 53 \/ i = 54 \/ i = 55 \/ i = 56 \/ i = 57 \/ i = 58 \/ i = 59 \/ i = 60 \/
        i = 61 \/ i = 62 \/ i = 63 \/ i = 64 \/ i = 65 \/ i = 66 \/ i = 67 \/ i = 68 \/ i = 69
    OBVIOUS
  <1>6. \A i, j \in 1..69 : c(i) = c(j) => i = j
    BY <1>2, <1>3, <1>4, <1>5, SMTT(60)
  <1>7. \A i \in 1..69 : c(i) \in Nat \ {224, 240}
    BY <1>2, <1>3, <1>4, <1>5, SMTT(60)
  <1>8. \A i, j \in 1..69 : Plain[i][1] = Plain[j][1] => i = j
    BY <1>6 DEF c
  <1>9. \A i \in DOMAIN Plain : i \in 1..69
    BY <1>1
  <1>10. ASSUME NEW i \in DOMAIN Plain, NEW j \in DOMAIN Plain, Plain[i][1] = Plain[j][1] PROVE i = j
    <2>1. i \in 1..69 /\ j \in 1..69
      BY <1>9
    <2> QED
      BY <1>8, <1>10, <2>1
  <1>11. \A i \in DOMAIN Plain : Plain[i][1] \in Nat \ {224, 240}
    <2>1. \A i \in DOMAIN Plain : c(i) \in Nat \ {224, 240}
      BY <1>7, <1>9
    <2> QED
      BY <2>1, Zenon DEF c
  <1> QED
    BY <1>10, <1>11, Zenon

\* The same of the keys with two bytes.
LEMMA ExtendedCodes ==
    /\ \A i, j \in DOMAIN Extended : Extended[i][1] = Extended[j][1] => i = j
    /\ \A i \in DOMAIN Extended : Extended[i][1] \in Nat \ {224, 240}
  <1>1. DOMAIN Extended = 1..13
    BY DEF Extended
  <1> QED
    BY <1>1, SMTT(60) DEF Extended

\* A byte's key is the one of its entry.
LEMMA LookupIs ==
    ASSUME NEW table, NEW i \in DOMAIN table, \A j \in DOMAIN table : table[i][1] = table[j][1] => i = j
    PROVE  Lookup(table, table[i][1]) = table[i][2]
  <1> DEFINE at == {j \in DOMAIN table : table[j][1] = table[i][1]}
  <1>1. at = {i}
    OBVIOUS
  <1>2. (CHOOSE j \in at : TRUE) = i
    BY <1>1
  <1> QED
    BY <1>1, <1>2 DEF Lookup

\* The keys of a keyboard, as they are reported.
KeysOf(s) == {[key |-> k.key, down |-> k.down] : k \in {x \in Typed : x.from = s}}
Ps2Keys == KeysOf("ps2")
UartKeys == {k \in KeysOf("uart") : k.key # "ESCAPE"}

\* A code is read back as its key.
LEMMA ScanCodeRead ==
    ASSUME NEW k \in Ps2Keys
    PROVE  LET c == ScanCode(k.key) IN
           /\ c[1] \in BOOLEAN /\ c[2] \in Nat \ {224, 240} /\ key_from_ps2(c[2], c[1]) = k.key
           /\ k.down \in BOOLEAN /\ k = [key |-> k.key, down |-> k.down]
  <1> DEFINE name == k.key
             plain == {i \in DOMAIN Plain : Plain[i][2] = name}
             ext == {i \in DOMAIN Extended : Extended[i][2] = name}
             p == CHOOSE i \in plain : TRUE
             e == CHOOSE i \in ext : TRUE
  <1>1. k.down \in BOOLEAN /\ k = [key |-> k.key, down |-> k.down] /\ (plain # {} \/ ext # {})
    BY TypedAssumption DEF KeysOf, Ps2Keys
  <1>2. ASSUME plain # {} PROVE LET c == ScanCode(k.key) IN c[1] = FALSE /\ c[2] \in Nat \ {224, 240} /\ key_from_ps2(c[2], FALSE) = k.key
    <2>1. p \in plain /\ ScanCode(name) = <<FALSE, Plain[p][1]>>
      BY <1>2 DEF ScanCode
    <2>2. p \in DOMAIN Plain /\ Plain[p][2] = name
      BY <2>1
    <2>3. Lookup(Plain, Plain[p][1]) = Plain[p][2]
      BY <2>2, PlainCodes, LookupIs
    <2> HIDE DEF p
    <2> QED
      BY <2>1, <2>2, <2>3, PlainCodes DEF key_from_ps2
  <1>3. ASSUME plain = {}, ext # {} PROVE LET c == ScanCode(k.key) IN c[1] = TRUE /\ c[2] \in Nat \ {224, 240} /\ key_from_ps2(c[2], TRUE) = k.key
    <2>1. e \in ext /\ ScanCode(name) = <<TRUE, Extended[e][1]>>
      BY <1>3 DEF ScanCode
    <2>2. e \in DOMAIN Extended /\ Extended[e][2] = name
      BY <2>1
    <2>3. Lookup(Extended, Extended[e][1]) = Extended[e][2]
      BY <2>2, ExtendedCodes, LookupIs
    <2> HIDE DEF e
    <2> QED
      BY <2>1, <2>2, <2>3, ExtendedCodes DEF key_from_ps2
  <1> QED
    BY <1>1, <1>2, <1>3

(***************************************************************************)
(* Codes one after the other: w is what is left of those of cs when off    *)
(* bytes of the first are gone; code k ends at s[k].                       *)
(***************************************************************************)
StreamOf(w, cs, off, n, m) ==
    \E s \in [0 .. n -> Int] :
        /\ s[0] + off = 0 /\ s[n] = m
        /\ \A k \in 0 .. n : s[k] <= m /\ (k > 0 => s[k] > 0)
        /\ \A k \in 1 .. n : s[k] = s[k - 1] + Len(cs[k])
        /\ \A k \in 1 .. n : \A j \in 1 .. Len(cs[k]) : s[k - 1] + j > 0 => w[s[k - 1] + j] = cs[k][j]
Stream(w, cs, off) == StreamOf(w, cs, off, Len(cs), Len(w))

\* Codes of at least one byte.
CodesOf(W) == {cs \in Seq(Seq(W)) : \A k \in DOMAIN cs : cs[k] # <<>>}

\* Nothing has been typed.
LEMMA StreamEmpty == Stream(<<>>, <<>>, 0)
  <1> DEFINE s == [k \in 0 .. 0 |-> 0]
  <1>1. Len(<<>>) = 0
    OBVIOUS
  <1>2. s \in [0 .. Len(<<>>) -> Int] /\ s[0] = 0 /\ \A k \in 0 .. 0 : s[k] = 0 /\ ~(k > 0)
    BY <1>1
  <1> HIDE DEF s
  <1>3. \A k \in 1 .. Len(<<>>) : FALSE
    BY <1>1
  <1>4. s[0] + 0 = 0
    <2>1. s[0] = 0
      BY <1>2
    <2> QED
      BY <2>1
  <1> QED
    BY <1>1, <1>2, <1>3, <1>4 DEF Stream, StreamOf

\* When nothing is left to read there is no code left.
LEMMA StreamEnd ==
    ASSUME NEW W, NEW cs \in CodesOf(W), NEW off \in Nat, Stream(<<>>, cs, off)
    PROVE  cs = <<>>
  <1>1. PICK s \in [0 .. Len(cs) -> Int] : s[Len(cs)] = 0 /\ \A k \in 0 .. Len(cs) : k > 0 => s[k] > 0
    BY DEF Stream, StreamOf
  <1>2. cs \in Seq(Seq(W)) /\ Len(cs) \in Nat
    BY DEF CodesOf
  <1> DEFINE n == Len(cs)
  <1>3. n = 0
    <2> HIDE DEF n
    <2>1. n \in Nat /\ (n > 0 => s[n] > 0) /\ s[n] = 0
      <3>1. n \in Nat /\ n \in 0 .. n
        BY <1>2 DEF n
      <3> QED
        BY <1>1, <3>1 DEF n
    <2> QED
      BY <2>1
  <1> QED
    BY <1>2, <1>3

\* A byte of a code that ends at b lies within the m bytes.
LEMMA ByteWithin ==
    ASSUME NEW a \in Int, NEW b \in Int, NEW c \in Nat, NEW j \in Nat, NEW m \in Nat
    PROVE  /\ b = a + c /\ b <= m /\ j <= c /\ a + j > 0 => a + j \in 1 .. m
           /\ b = a + c /\ b <= m /\ j <= c /\ a - 1 + j > 0 =>
                  a - 1 + j \in 1 .. m - 1 /\ (a - 1 + j) + 1 = a + j /\ a + j > 0
  OBVIOUS

\* All the ends are one less when a byte is gone.
LEMMA OneLess ==
    ASSUME NEW a \in Int, NEW b \in Int, NEW c \in Nat, NEW m \in Int
    PROVE  /\ (b = a + c => b - 1 = (a - 1) + c) /\ (b <= m => b - 1 <= m - 1)
           /\ (a + c = 0 => (a - 1) + (c + 1) = 0) /\ (b > 1 => b - 1 > 0)
  OBVIOUS

\* The step before one of n steps.
LEMMA StepBefore == ASSUME NEW n \in Nat, NEW k \in 1 .. n PROVE k - 1 \in 0 .. n /\ k \in 0 .. n /\ (k > 1 => k - 1 > 0)
  OBVIOUS

\* One more code is sent.
LEMMA StreamAppend ==
    ASSUME NEW W, NEW w \in Seq(W), NEW cs \in CodesOf(W), NEW off \in Nat, NEW c \in Seq(W), c # <<>>, Stream(w, cs, off)
    PROVE  Append(cs, c) \in CodesOf(W) /\ Stream(w \o c, Append(cs, c), off)
  <1> DEFINE n == Len(cs)  m == Len(w)  l == Len(c)  ds == Append(cs, c)  v == w \o c
  <1>1. /\ cs \in Seq(Seq(W)) /\ n \in Nat /\ m \in Nat /\ l \in Nat \ {0}
        /\ ds \in Seq(Seq(W)) /\ Len(ds) = n + 1 /\ \A k \in 1 .. n : ds[k] = cs[k]
        /\ \A k \in 1 .. n : cs[k] \in Seq(W) /\ Len(cs[k]) \in Nat \ {0}
        /\ ds[n + 1] = c
        /\ Len(v) = m + l /\ (\A p \in 1 .. m : v[p] = w[p]) /\ (\A j \in 1 .. l : v[m + j] = c[j])
    BY DEF CodesOf
  <1>2. PICK s \in [0 .. n -> Int] :
        /\ s[0] + off = 0 /\ s[n] = m
        /\ \A k \in 0 .. n : s[k] <= m /\ (k > 0 => s[k] > 0)
        /\ \A k \in 1 .. n : s[k] = s[k - 1] + Len(cs[k])
        /\ \A k \in 1 .. n : \A j \in 1 .. Len(cs[k]) : s[k - 1] + j > 0 => w[s[k - 1] + j] = cs[k][j]
    BY DEF Stream, StreamOf
  <1>1a. (\A p \in 1 .. m : v[p] = w[p]) /\ (\A j \in 1 .. l : v[m + j] = c[j])
    BY <1>1
  <1>1c. \A k \in 1 .. n : ds[k] = cs[k] /\ Len(cs[k]) \in Nat
    BY <1>1
  <1>1b. m \in Nat /\ n \in Nat /\ l \in Nat /\ ds[n + 1] = c
    BY <1>1
  <1>2b. \A k \in 0 .. n : s[k] \in Int /\ s[k] <= m
    BY <1>2
  <1>2a. s[n] = m /\ \A k \in 1 .. n : s[k] = s[k - 1] + Len(cs[k])
    BY <1>2
  <1> DEFINE t == [k \in 0 .. n + 1 |-> IF k <= n THEN s[k] ELSE m + l]
  <1>3. ds \in CodesOf(W)
    <2>1. (\A k \in 1 .. n + 1 : ds[k] # <<>>) /\ DOMAIN ds = 1 .. n + 1
      <3>1. DOMAIN ds = 1 .. n + 1
        BY <1>1
      <3>2. Len(<<>>) = 0 /\ \A k \in 1 .. n : ds[k] = cs[k] /\ Len(cs[k]) # 0
        BY <1>1
      <3>3. \A k \in 1 .. n : ds[k] # <<>>
        BY <3>2
      <3>4. ds[n + 1] # <<>>
        BY <1>1, <3>2
      <3>5. \A k \in 1 .. n + 1 : k \in 1 .. n \/ k = n + 1
        BY <1>1
      <3> QED
        BY <3>1, <3>3, <3>4, <3>5
    <2> QED
      BY <1>1, <2>1 DEF CodesOf
  <1>4. t \in [0 .. n + 1 -> Int] /\ t[n + 1] = m + l /\ \A k \in 0 .. n : t[k] = s[k]
    BY <1>1, <1>2
  <1> HIDE DEF t, ds, v, n, m, l
  <1>5. \A k \in 0 .. n + 1 : t[k] <= m + l /\ (k > 0 => t[k] > 0)
    <2> TAKE k \in 0 .. n + 1
    <2>1. CASE k \in 0 .. n
      <3>1. t[k] = s[k] /\ s[k] \in Int /\ s[k] <= m /\ (k > 0 => s[k] > 0)
        BY <1>2, <1>4, <2>1
      <3> QED
        BY <1>1, <3>1
    <2>2. CASE k = n + 1
      BY <1>1, <1>4, <2>2
    <2> QED
      BY <1>1, <2>1, <2>2
  <1>6. \A k \in 1 .. n + 1 : t[k] = t[k - 1] + Len(ds[k])
    <2> TAKE k \in 1 .. n + 1
    <2>1. CASE k \in 1 .. n
      <3>1. k - 1 \in 0 .. n /\ k \in 0 .. n
        BY <1>1b, <2>1, StepBefore
      <3> QED
        BY <1>1, <1>2, <1>4, <2>1, <3>1
    <2>2. CASE k = n + 1
      <3>1. k - 1 = n /\ n \in 0 .. n
        BY <1>1, <2>2
      <3> QED
        BY <1>1, <1>2, <1>4, <2>2, <3>1 DEF l
    <2> QED
      BY <1>1, <2>1, <2>2
  <1>7. \A k \in 1 .. n + 1 : \A j \in 1 .. Len(ds[k]) : t[k - 1] + j > 0 => v[t[k - 1] + j] = ds[k][j]
    <2> TAKE k \in 1 .. n + 1
    <2> TAKE j \in 1 .. Len(ds[k])
    <2> HAVE t[k - 1] + j > 0
    <2>1. CASE k \in 1 .. n
      <3>1. k - 1 \in 0 .. n /\ k \in 0 .. n
        BY <1>1b, <2>1, StepBefore
      <3>2. ds[k] = cs[k] /\ Len(cs[k]) \in Nat
        BY <1>1c, <2>1
      <3>3. t[k - 1] = s[k - 1] /\ s[k - 1] \in Int /\ s[k] \in Int /\ s[k] <= m
        BY <1>2b, <1>4, <3>1
      <3>4. s[k] = s[k - 1] + Len(cs[k])
        BY <1>2a, <2>1
      <3>5. j \in 1 .. Len(cs[k]) /\ s[k - 1] + j > 0
        BY <3>2, <3>3
      <3>6. w[s[k - 1] + j] = cs[k][j]
        <4>1. \A i \in 1 .. Len(cs[k]) : s[k - 1] + i > 0 => w[s[k - 1] + i] = cs[k][i]
          BY <1>2, <2>1
        <4> QED
          BY <4>1, <3>5
      <3>7. s[k - 1] + j \in 1 .. m
        <4>1. m \in Nat /\ j \in Nat /\ j <= Len(cs[k])
          BY <1>1b, <3>2, <3>5
        <4> QED
          BY <4>1, <3>2, <3>3, <3>4, <3>5, ByteWithin
      <3> QED
        BY <1>1a, <3>2, <3>3, <3>6, <3>7
    <2>2. CASE k = n + 1
      <3>1. k - 1 = n /\ n \in 0 .. n
        BY <1>1b, <2>2
      <3>2. t[k - 1] = m /\ ds[k] = c
        BY <1>1b, <1>2a, <1>4, <2>2, <3>1
      <3>3. j \in 1 .. l
        BY <3>2 DEF l
      <3>4. v[m + j] = c[j]
        BY <1>1a, <3>3
      <3> QED
        BY <3>2, <3>4
    <2> QED
      BY <1>1b, <2>1, <2>2
  <1>8. t[0] + off = 0
    BY <1>1, <1>2, <1>4
  <1>9. Stream(v, ds, off)
    <2>1. Len(ds) = n + 1 /\ Len(v) = m + l
      BY <1>1
    <2>2. \E u \in [0 .. n + 1 -> Int] :
            /\ u[0] + off = 0 /\ u[n + 1] = m + l
            /\ \A k \in 0 .. n + 1 : u[k] <= m + l /\ (k > 0 => u[k] > 0)
            /\ \A k \in 1 .. n + 1 : u[k] = u[k - 1] + Len(ds[k])
            /\ \A k \in 1 .. n + 1 : \A j \in 1 .. Len(ds[k]) : u[k - 1] + j > 0 => v[u[k - 1] + j] = ds[k][j]
      BY <1>4, <1>5, <1>6, <1>7, <1>8, Zenon
    <2>3. StreamOf(v, ds, off, n + 1, m + l)
      BY <2>2, Zenon DEF StreamOf
    <2> QED
      BY <2>1, <2>3 DEF Stream
  <1> QED
    BY <1>3, <1>9 DEF ds, v

\* The next byte is the next of the first code; with the last the code is
\* done.
LEMMA StreamHead ==
    ASSUME NEW W, NEW w \in Seq(W), w # <<>>, NEW cs \in CodesOf(W), NEW off \in Nat, Stream(w, cs, off)
    PROVE  /\ cs # <<>> /\ off < Len(cs[1]) /\ Head(w) = cs[1][off + 1]
           /\ off + 1 < Len(cs[1]) => Stream(Tail(w), cs, off + 1)
           /\ off + 1 = Len(cs[1]) => Stream(Tail(w), Tail(cs), 0)
           /\ Tail(cs) \in CodesOf(W)
  <1> DEFINE n == Len(cs)  m == Len(w)  v == Tail(w)
  <1>1. /\ cs \in Seq(Seq(W)) /\ n \in Nat /\ m \in Nat \ {0} /\ Len(v) = m - 1
        /\ \A k \in 1 .. n : cs[k] \in Seq(W) /\ Len(cs[k]) \in Nat \ {0}
        /\ \A p \in 1 .. m - 1 : v[p] = w[p + 1]
    BY DEF CodesOf
  <1>2. PICK s \in [0 .. n -> Int] :
        /\ s[0] + off = 0 /\ s[n] = m
        /\ \A k \in 0 .. n : s[k] <= m /\ (k > 0 => s[k] > 0)
        /\ \A k \in 1 .. n : s[k] = s[k - 1] + Len(cs[k])
        /\ \A k \in 1 .. n : \A j \in 1 .. Len(cs[k]) : s[k - 1] + j > 0 => w[s[k - 1] + j] = cs[k][j]
    BY DEF Stream, StreamOf
  <1>3. n > 0 /\ cs # <<>>
    BY <1>1, <1>2
  <1>4. s[1] = Len(cs[1]) - off /\ s[1] > 0 /\ off < Len(cs[1])
    <2>1. 1 \in 1 .. n /\ 1 \in 0 .. n /\ 0 \in 0 .. n /\ 1 - 1 = 0
      BY <1>1, <1>3
    <2>2. Len(cs[1]) \in Nat
      BY <1>1, <2>1
    <2>3. s[1] = s[0] + Len(cs[1]) /\ s[1] > 0 /\ s[0] + off = 0 /\ s[0] \in Int
      BY <1>2, <2>1
    <2> DEFINE a == s[0]  b == s[1]  d == Len(cs[1])
    <2> HIDE DEF a, b, d
    <2>4. b = a + d /\ b > 0 /\ a + off = 0 /\ a \in Int /\ d \in Nat => b = d - off /\ off < d
      OBVIOUS
    <2> QED
      BY <2>2, <2>3, <2>4 DEF a, b, d
  <1>5. Head(w) = cs[1][off + 1]
    <2>0. 1 \in 1 .. n /\ 0 \in 0 .. n
      BY <1>1, <1>3
    <2>1. 1 \in 1 .. n /\ off + 1 \in 1 .. Len(cs[1]) /\ s[1 - 1] + (off + 1) = 1
      <3>1. Len(cs[1]) \in Nat /\ s[0] \in Int /\ s[0] + off = 0
        BY <1>1, <1>2, <2>0
      <3> QED
        BY <1>4, <2>0, <3>1
    <2>2. w[s[1 - 1] + (off + 1)] = cs[1][off + 1]
      <3>1. s[1 - 1] + (off + 1) > 0
        BY <2>1
      <3> QED
        BY <1>2, <2>1, <3>1
    <2> QED
      BY <2>1, <2>2
  <1> HIDE DEF v, n, m
  <1>6. \A k \in 2 .. n : s[k] > 1
    <2> TAKE k \in 2 .. n
    <2>1. k - 1 \in 0 .. n /\ k - 1 > 0 /\ k \in 1 .. n
      BY <1>1
    <2>2. s[k - 1] > 0 /\ s[k] = s[k - 1] + Len(cs[k]) /\ s[k - 1] \in Int
      BY <1>2, <2>1
    <2> QED
      BY <1>1, <2>1, <2>2
  <1>7. \A k \in 1 .. n : \A j \in 1 .. Len(cs[k]) : s[k - 1] - 1 + j > 0 => v[s[k - 1] - 1 + j] = cs[k][j]
    <2> TAKE k \in 1 .. n
    <2> TAKE j \in 1 .. Len(cs[k])
    <2> HAVE s[k - 1] - 1 + j > 0
    <2>0. k - 1 \in 0 .. n /\ k \in 0 .. n /\ Len(cs[k]) \in Nat
      BY <1>1
    <2>1. s[k - 1] \in Int /\ j \in Nat /\ j <= Len(cs[k]) /\ s[k] \in Int
      BY <1>2, <2>0
    <2>2. s[k] = s[k - 1] + Len(cs[k]) /\ s[k] <= m /\ Len(cs[k]) \in Nat
      BY <1>2, <2>0
    <2>3. s[k - 1] - 1 + j \in 1 .. m - 1
      <3>1. m \in Nat
        BY <1>1
      <3> QED
        BY <3>1, <2>1, <2>2, ByteWithin
    <2>4. v[s[k - 1] - 1 + j] = w[s[k - 1] + j]
      <3>1. (s[k - 1] - 1 + j) + 1 = s[k - 1] + j
        <4>1. m \in Nat
          BY <1>1
        <4> QED
          BY <4>1, <2>1, <2>2, ByteWithin
      <3>2. \A p \in 1 .. m - 1 : v[p] = w[p + 1]
        BY <1>1
      <3> QED
        BY <2>3, <3>1, <3>2
    <2>5. s[k - 1] + j > 0
      <3>1. m \in Nat
        BY <1>1
      <3> QED
        BY <3>1, <2>1, <2>2, ByteWithin
    <2>6. w[s[k - 1] + j] = cs[k][j]
      <3>1. \A i \in 1 .. Len(cs[k]) : s[k - 1] + i > 0 => w[s[k - 1] + i] = cs[k][i]
        BY <1>2
      <3> QED
        BY <2>5, <3>1
    <2> QED
      BY <2>4, <2>6
  <1>8. ASSUME off + 1 < Len(cs[1]) PROVE Stream(v, cs, off + 1)
    <2> DEFINE t == [k \in 0 .. n |-> s[k] - 1]
    <2>1. t \in [0 .. n -> Int] /\ \A k \in 0 .. n : t[k] = s[k] - 1
      BY <1>2
    <2> HIDE DEF t
    <2>2. t[0] + (off + 1) = 0 /\ t[n] = m - 1
      <3>1. n \in Nat /\ 0 \in 0 .. n /\ n \in 0 .. n
        BY <1>1
      <3>2. t[0] = s[0] - 1 /\ t[n] = s[n] - 1 /\ s[0] \in Int
        BY <2>1, <3>1
      <3>3. s[0] + off = 0 /\ s[n] = m
        BY <1>2
      <3>4. (s[0] - 1) + (off + 1) = 0
        BY <3>2, <3>3, OneLess
      <3> QED
        BY <3>2, <3>3, <3>4
    <2>3. \A k \in 0 .. n : t[k] <= m - 1 /\ (k > 0 => t[k] > 0)
      <3> TAKE k \in 0 .. n
      <3>1. t[k] <= m - 1
        <4>1. t[k] = s[k] - 1 /\ s[k] <= m /\ s[k] \in Int /\ m \in Nat
          BY <1>1, <1>2, <2>1
        <4>2. s[k] - 1 <= m - 1
          BY <4>1, OneLess
        <4> QED
          BY <4>1, <4>2
      <3>2. CASE k > 0
        <4>1. s[k] > 1
          BY <1>1, <1>4, <1>6, <1>8, <3>2
        <4> QED
          BY <2>1, <3>1, <4>1, <1>2
      <3> QED
        BY <3>1, <3>2
    <2>4. \A k \in 1 .. n : t[k] = t[k - 1] + Len(cs[k])
      <3> TAKE k \in 1 .. n
      <3>1. k - 1 \in 0 .. n /\ k \in 0 .. n /\ Len(cs[k]) \in Nat
        BY <1>1
      <3>2. t[k] = s[k] - 1 /\ t[k - 1] = s[k - 1] - 1 /\ s[k] = s[k - 1] + Len(cs[k]) /\ s[k - 1] \in Int
        BY <1>2, <2>1, <3>1
      <3>3. s[k] \in Int
        BY <1>2, <3>1
      <3>4. s[k] - 1 = (s[k - 1] - 1) + Len(cs[k])
        BY <3>1, <3>2, <3>3, OneLess
      <3> QED
        BY <3>2, <3>4
    <2>5. \A k \in 1 .. n : \A j \in 1 .. Len(cs[k]) : t[k - 1] + j > 0 => v[t[k - 1] + j] = cs[k][j]
      <3> TAKE k \in 1 .. n
      <3>1. k - 1 \in 0 .. n /\ t[k - 1] = s[k - 1] - 1
        BY <1>1, <2>1
      <3> QED
        BY <1>7, <3>1
    <2>6. \E u \in [0 .. n -> Int] :
            /\ u[0] + (off + 1) = 0 /\ u[n] = m - 1
            /\ \A k \in 0 .. n : u[k] <= m - 1 /\ (k > 0 => u[k] > 0)
            /\ \A k \in 1 .. n : u[k] = u[k - 1] + Len(cs[k])
            /\ \A k \in 1 .. n : \A j \in 1 .. Len(cs[k]) : u[k - 1] + j > 0 => v[u[k - 1] + j] = cs[k][j]
      BY <2>1, <2>2, <2>3, <2>4, <2>5, Zenon
    <2>7. StreamOf(v, cs, off + 1, n, m - 1)
      BY <2>6, Zenon DEF StreamOf
    <2>8. Len(v) = m - 1 /\ n = Len(cs)
      BY <1>1 DEF n
    <2> QED
      BY <2>7, <2>8, Zenon DEF Stream
  <1> DEFINE ds == Tail(cs)
  <1>9. ds \in Seq(Seq(W)) /\ Len(ds) = n - 1 /\ \A k \in 1 .. n - 1 : ds[k] = cs[k + 1]
    BY <1>1, <1>3 DEF n
  <1> HIDE DEF ds
  <1>10. ds \in CodesOf(W)
    <2>1. DOMAIN ds = 1 .. n - 1
      BY <1>9
    <2>2. \A k \in 1 .. n - 1 : ds[k] # <<>>
      <3> TAKE k \in 1 .. n - 1
      <3>1. k + 1 \in 1 .. n /\ ds[k] = cs[k + 1]
        BY <1>1, <1>9
      <3>2. Len(cs[k + 1]) > 0
        BY <1>1, <3>1
      <3> QED
        BY <3>1, <3>2
    <2> QED
      BY <1>9, <2>1, <2>2 DEF CodesOf
  <1>11. ASSUME off + 1 = Len(cs[1]) PROVE Stream(v, ds, 0)
    <2> DEFINE t == [k \in 0 .. n - 1 |-> s[k + 1] - 1]
    <2>1. t \in [0 .. n - 1 -> Int] /\ \A k \in 0 .. n - 1 : t[k] = s[k + 1] - 1
      BY <1>1, <1>2
    <2> HIDE DEF t
    <2>2. t[0] + 0 = 0 /\ t[n - 1] = m - 1
      <3>1. 0 \in 0 .. n - 1 /\ n - 1 \in 0 .. n - 1 /\ (n - 1) + 1 = n /\ 0 + 1 = 1
        BY <1>1, <1>3
      <3>2. t[0] = s[1] - 1 /\ t[n - 1] = s[n] - 1
        BY <2>1, <3>1
      <3>3. Len(cs[1]) \in Nat
        BY <1>1, <1>3
      <3> QED
        BY <1>2, <1>4, <1>11, <3>2, <3>3
    <2>3. \A k \in 0 .. n - 1 : t[k] <= m - 1 /\ (k > 0 => t[k] > 0)
      <3> TAKE k \in 0 .. n - 1
      <3>1. k + 1 \in 0 .. n /\ s[k + 1] \in Int
        BY <1>1, <1>2
      <3>2. t[k] = s[k + 1] - 1 /\ s[k + 1] <= m /\ m \in Nat
        BY <1>1, <1>2, <2>1, <3>1
      <3>3. ASSUME k > 0 PROVE s[k + 1] > 1
        BY <1>1, <1>6, <3>1, <3>3
      <3> QED
        BY <3>1, <3>2, <3>3
    <2>4. \A k \in 1 .. n - 1 : t[k] = t[k - 1] + Len(ds[k])
      <3> TAKE k \in 1 .. n - 1
      <3>1. k - 1 \in 0 .. n - 1 /\ k \in 0 .. n - 1 /\ k + 1 \in 1 .. n /\ (k - 1) + 1 = k /\ (k + 1) - 1 = k /\ k \in 0 .. n
        BY <1>1
      <3>2. t[k] = s[k + 1] - 1 /\ t[k - 1] = s[k] - 1 /\ s[k + 1] = s[k] + Len(cs[k + 1]) /\ ds[k] = cs[k + 1] /\ s[k] \in Int
        BY <1>2, <1>9, <2>1, <3>1
      <3>3. Len(cs[k + 1]) \in Nat
        BY <1>1, <3>1
      <3> QED
        BY <3>2, <3>3
    <2>5. \A k \in 1 .. n - 1 : \A j \in 1 .. Len(ds[k]) : t[k - 1] + j > 0 => v[t[k - 1] + j] = ds[k][j]
      <3> TAKE k \in 1 .. n - 1
      <3>1. k - 1 \in 0 .. n - 1 /\ k + 1 \in 1 .. n /\ (k - 1) + 1 = k /\ (k + 1) - 1 = k
        BY <1>1
      <3>2. t[k - 1] = s[(k + 1) - 1] - 1 /\ ds[k] = cs[k + 1]
        BY <1>9, <2>1, <3>1
      <3> QED
        BY <1>7, <3>1, <3>2
    <2>6. Len(ds) = n - 1 /\ Len(v) = m - 1
      BY <1>1, <1>9
    <2>7. \E u \in [0 .. n - 1 -> Int] :
            /\ u[0] + 0 = 0 /\ u[n - 1] = m - 1
            /\ \A k \in 0 .. n - 1 : u[k] <= m - 1 /\ (k > 0 => u[k] > 0)
            /\ \A k \in 1 .. n - 1 : u[k] = u[k - 1] + Len(ds[k])
            /\ \A k \in 1 .. n - 1 : \A j \in 1 .. Len(ds[k]) : u[k - 1] + j > 0 => v[u[k - 1] + j] = ds[k][j]
      BY <2>1, <2>2, <2>3, <2>4, <2>5, Zenon
    <2>8. StreamOf(v, ds, 0, n - 1, m - 1)
      BY <2>7, Zenon DEF StreamOf
    <2> QED
      BY <2>6, <2>8 DEF Stream
  <1> QED
    BY <1>3, <1>4, <1>5, <1>8, <1>10, <1>11 DEF v, ds

\* Sequences that are joined, taken apart at an element.
LEMMA JoinMoves ==
    ASSUME NEW S, NEW a \in Seq(S), NEW b \in Seq(S)
    PROVE  /\ \A x \in S : Append(a \o b, x) = a \o Append(b, x) /\ Append(b, x) # <<>>
           /\ b # <<>> => a \o b = Append(a, b[1]) \o Tail(b) /\ b[1] \in S
  <1> DEFINE n == Len(a)  m == Len(b)
  <1>1. n \in Nat /\ m \in Nat
    OBVIOUS
  <1>2. ASSUME NEW x \in S PROVE Append(a \o b, x) = a \o Append(b, x) /\ Append(b, x) # <<>>
    <2> DEFINE u == Append(a \o b, x)  v == a \o Append(b, x)
    <2>1. /\ u \in Seq(S) /\ v \in Seq(S) /\ Len(u) = n + m + 1 /\ Len(v) = n + m + 1
          /\ \A i \in 1 .. n + m + 1 : u[i] = v[i]
      OBVIOUS
    <2> HIDE DEF u, v
    <2>2. u = [i \in 1 .. n + m + 1 |-> u[i]] /\ v = [i \in 1 .. n + m + 1 |-> v[i]]
      BY <2>1
    <2>3. Len(Append(b, x)) > 0 /\ Len(<<>>) = 0
      OBVIOUS
    <2>4. Append(b, x) # <<>>
      BY <2>3
    <2> QED
      BY <2>1, <2>2, <2>4 DEF u, v
  <1>3. ASSUME b # <<>> PROVE a \o b = Append(a, b[1]) \o Tail(b) /\ b[1] \in S
    <2> DEFINE u == a \o b  v == Append(a, b[1]) \o Tail(b)
    <2>0. m > 0 /\ b[1] \in S
      BY <1>3
    <2>1. /\ u \in Seq(S) /\ v \in Seq(S) /\ Len(u) = n + m /\ Len(v) = n + m
          /\ \A i \in 1 .. n + m : u[i] = v[i]
      <3> DEFINE x == Append(a, b[1])  y == Tail(b)
      <3>1. /\ x \in Seq(S) /\ Len(x) = n + 1 /\ (\A i \in 1 .. n : x[i] = a[i]) /\ x[n + 1] = b[1]
            /\ y \in Seq(S) /\ Len(y) = m - 1 /\ (\A i \in 1 .. m - 1 : y[i] = b[i + 1])
        BY <2>0
      <3>2. u \in Seq(S) /\ Len(u) = n + m /\ (\A i \in 1 .. n : u[i] = a[i]) /\ (\A i \in n + 1 .. n + m : u[i] = b[i - n])
        OBVIOUS
      <3> HIDE DEF x, y
      <3>3. x \o y \in Seq(S) /\ Len(x \o y) = n + m /\ (\A i \in 1 .. n + 1 : (x \o y)[i] = x[i])
            /\ (\A i \in n + 2 .. n + m : (x \o y)[i] = y[i - (n + 1)])
        <4>1. /\ x \o y \in Seq(S) /\ Len(x \o y) = Len(x) + Len(y) /\ (\A i \in 1 .. Len(x) : (x \o y)[i] = x[i])
              /\ (\A i \in Len(x) + 1 .. Len(x) + Len(y) : (x \o y)[i] = y[i - Len(x)])
          <5>1. x \in Seq(S) /\ y \in Seq(S)
            BY <3>1
          <5> QED
            BY <5>1
        <4>2. Len(x) = n + 1 /\ Len(x) + Len(y) = n + m /\ Len(x) + 1 = n + 2
          BY <1>1, <3>1
        <4> QED
          BY <4>1, <4>2
      <3>4. v = x \o y
        BY DEF x, y
      <3> HIDE DEF u, v
      <3>5. \A i \in 1 .. n + m : u[i] = v[i]
        <4> TAKE i \in 1 .. n + m
        <4>1. CASE i \in 1 .. n
          BY <1>1, <3>1, <3>2, <3>3, <3>4, <4>1
        <4>2. CASE i = n + 1
          <5>1. i - n = 1 /\ i \in n + 1 .. n + m /\ i \in 1 .. n + 1
            BY <1>1, <2>0, <4>2
          <5> QED
            BY <3>1, <3>2, <3>3, <3>4, <4>2, <5>1
        <4>3. CASE i \in n + 2 .. n + m
          <5>1. i - (n + 1) \in 1 .. m - 1 /\ (i - (n + 1)) + 1 = i - n /\ i \in n + 1 .. n + m
            BY <1>1, <4>3
          <5> QED
            BY ZenonT(60), <3>1, <3>2, <3>3, <3>4, <4>3, <5>1
        <4> QED
          BY <1>1, <4>1, <4>2, <4>3
      <3> QED
        BY <3>2, <3>3, <3>4, <3>5
    <2> HIDE DEF u, v
    <2>2. u = [i \in 1 .. n + m |-> u[i]] /\ v = [i \in 1 .. n + m |-> v[i]]
      BY <2>1
    <2> QED
      BY <2>0, <2>1, <2>2 DEF u, v
  <1> QED
    BY <1>2, <1>3

(***************************************************************************)
(* The PS/2 keyboard.                                                      *)
(***************************************************************************)
Seen(code, off, b) == \E j \in 1 .. off : code[j] = b

\* The bytes before the last say of what kind it is.
ReadAs(code, k) ==
    LET n == Len(code) IN
    /\ code \in Seq(Nat) /\ n \in Nat \ {0} /\ code # <<>>
    /\ \A j \in 1 .. n - 1 : code[j] \in {224, 240}
    /\ code[n] \in Nat \ {224, 240}
    /\ k = [key |-> key_from_ps2(code[n], Seen(code, n - 1, 224)), down |-> ~Seen(code, n - 1, 240)]

\* A key's code is.
LEMMA Ps2CodeIs ==
    ASSUME NEW k \in Ps2Keys
    PROVE  ReadAs(Ps2Bytes(k.key, k.down), k)
  <1> DEFINE c == ScanCode(k.key)  b == c[2]  code == Ps2Bytes(k.key, k.down)  n == Len(code)
  <1>1. /\ c[1] \in BOOLEAN /\ b \in Nat \ {224, 240} /\ key_from_ps2(b, c[1]) = k.key
        /\ k.down \in BOOLEAN /\ k = [key |-> k.key, down |-> k.down]
    BY ScanCodeRead
  <1>2. code = (IF c[1] THEN <<224>> ELSE <<>>) \o (IF k.down THEN <<>> ELSE <<240>>) \o <<b>>
    BY DEF Ps2Bytes
  <1> HIDE DEF c, b, code
  <1>3. ASSUME c[1] = FALSE /\ k.down = TRUE PROVE ReadAs(code, k)
    <2>2. code \in Seq(Nat) /\ n = 1 /\ code[1] = b
      BY <1>1, <1>2, <1>3
    <2>3. ~Seen(code, n - 1, 224) /\ ~Seen(code, n - 1, 240)
      BY <2>2 DEF Seen
    <2>4. k = [key |-> key_from_ps2(code[n], Seen(code, n - 1, 224)), down |-> ~Seen(code, n - 1, 240)]
      <3>1. Seen(code, n - 1, 224) = FALSE /\ Seen(code, n - 1, 240) = FALSE
        BY <2>3
      <3>2. key_from_ps2(code[n], Seen(code, n - 1, 224)) = k.key
        <4>1. Seen(code, n - 1, 224) = c[1]
          <5>1. Seen(code, n - 1, 224) \in BOOLEAN
            BY DEF Seen
          <5> QED
            BY <1>1, <1>3, <3>1, <5>1
        <4>2. code[n] = b
          BY <2>2
        <4> QED
          BY <1>1, <4>1, <4>2, Zenon
      <3>3. (~Seen(code, n - 1, 240)) = k.down
        BY <1>3, <3>1
      <3> QED
        BY <1>1, <3>2, <3>3, Zenon
    <2>5. (\A j \in 1 .. n - 1 : code[j] \in {224, 240}) /\ code[n] \in Nat \ {224, 240} /\ n \in Nat \ {0} /\ code # <<>>
      <3>1. n \in Nat \ {0} /\ code # <<>>
        <4>1. n \in Nat \ {0} /\ Len(<<>>) = 0
          BY <2>2
        <4> QED
          BY <4>1
      <3>2. code[n] \in Nat \ {224, 240}
        BY <1>1, <2>2
      <3>3. \A j \in 1 .. n - 1 : code[j] \in {224, 240}
        BY <2>2
      <3> QED
        BY <3>1, <3>2, <3>3
    <2> QED
      BY <2>2, <2>4, <2>5 DEF ReadAs
  <1>4. ASSUME c[1] = FALSE /\ k.down = FALSE PROVE ReadAs(code, k)
    <2>2. code \in Seq(Nat) /\ n = 2 /\ code[1] = 240 /\ code[2] = b
      BY <1>1, <1>2, <1>4
    <2>3. ~Seen(code, n - 1, 224) /\ Seen(code, n - 1, 240)
      BY <2>2 DEF Seen
    <2>4. k = [key |-> key_from_ps2(code[n], Seen(code, n - 1, 224)), down |-> ~Seen(code, n - 1, 240)]
      <3>1. Seen(code, n - 1, 224) = FALSE /\ Seen(code, n - 1, 240) = TRUE
        BY <2>3 DEF Seen
      <3>2. key_from_ps2(code[n], Seen(code, n - 1, 224)) = k.key
        <4>1. Seen(code, n - 1, 224) = c[1]
          <5>1. Seen(code, n - 1, 224) \in BOOLEAN
            BY DEF Seen
          <5> QED
            BY <1>1, <1>4, <3>1, <5>1
        <4>2. code[n] = b
          BY <2>2
        <4> QED
          BY <1>1, <4>1, <4>2, Zenon
      <3>3. (~Seen(code, n - 1, 240)) = k.down
        BY <1>4, <3>1
      <3> QED
        BY <1>1, <3>2, <3>3, Zenon
    <2>5. (\A j \in 1 .. n - 1 : code[j] \in {224, 240}) /\ code[n] \in Nat \ {224, 240} /\ n \in Nat \ {0} /\ code # <<>>
      <3>1. n \in Nat \ {0} /\ code # <<>>
        <4>1. n \in Nat \ {0} /\ Len(<<>>) = 0
          BY <2>2
        <4> QED
          BY <4>1
      <3>2. code[n] \in Nat \ {224, 240}
        BY <1>1, <2>2
      <3>3. \A j \in 1 .. n - 1 : code[j] \in {224, 240}
        BY <2>2
      <3> QED
        BY <3>1, <3>2, <3>3
    <2> QED
      BY <2>2, <2>4, <2>5 DEF ReadAs
  <1>5. ASSUME c[1] = TRUE /\ k.down = TRUE PROVE ReadAs(code, k)
    <2>2. code \in Seq(Nat) /\ n = 2 /\ code[1] = 224 /\ code[2] = b
      BY <1>1, <1>2, <1>5
    <2>3. Seen(code, n - 1, 224) /\ ~Seen(code, n - 1, 240)
      BY <2>2 DEF Seen
    <2>4. k = [key |-> key_from_ps2(code[n], Seen(code, n - 1, 224)), down |-> ~Seen(code, n - 1, 240)]
      <3>1. Seen(code, n - 1, 224) = TRUE /\ Seen(code, n - 1, 240) = FALSE
        BY <2>3 DEF Seen
      <3>2. key_from_ps2(code[n], Seen(code, n - 1, 224)) = k.key
        <4>1. Seen(code, n - 1, 224) = c[1]
          <5>1. Seen(code, n - 1, 224) \in BOOLEAN
            BY DEF Seen
          <5> QED
            BY <1>1, <1>5, <3>1, <5>1
        <4>2. code[n] = b
          BY <2>2
        <4> QED
          BY <1>1, <4>1, <4>2, Zenon
      <3>3. (~Seen(code, n - 1, 240)) = k.down
        BY <1>5, <3>1
      <3> QED
        BY <1>1, <3>2, <3>3, Zenon
    <2>5. (\A j \in 1 .. n - 1 : code[j] \in {224, 240}) /\ code[n] \in Nat \ {224, 240} /\ n \in Nat \ {0} /\ code # <<>>
      <3>1. n \in Nat \ {0} /\ code # <<>>
        <4>1. n \in Nat \ {0} /\ Len(<<>>) = 0
          BY <2>2
        <4> QED
          BY <4>1
      <3>2. code[n] \in Nat \ {224, 240}
        BY <1>1, <2>2
      <3>3. \A j \in 1 .. n - 1 : code[j] \in {224, 240}
        BY <2>2
      <3> QED
        BY <3>1, <3>2, <3>3
    <2> QED
      BY <2>2, <2>4, <2>5 DEF ReadAs
  <1>6. ASSUME c[1] = TRUE /\ k.down = FALSE PROVE ReadAs(code, k)
    <2>2. code \in Seq(Nat) /\ n = 3 /\ code[1] = 224 /\ code[2] = 240 /\ code[3] = b
      BY <1>1, <1>2, <1>6
    <2>3. Seen(code, n - 1, 224) /\ Seen(code, n - 1, 240)
      BY <2>2 DEF Seen
    <2>4. k = [key |-> key_from_ps2(code[n], Seen(code, n - 1, 224)), down |-> ~Seen(code, n - 1, 240)]
      <3>1. Seen(code, n - 1, 224) = TRUE /\ Seen(code, n - 1, 240) = TRUE
        BY <2>3 DEF Seen
      <3>2. key_from_ps2(code[n], Seen(code, n - 1, 224)) = k.key
        <4>1. Seen(code, n - 1, 224) = c[1]
          <5>1. Seen(code, n - 1, 224) \in BOOLEAN
            BY DEF Seen
          <5> QED
            BY <1>1, <1>6, <3>1, <5>1
        <4>2. code[n] = b
          BY <2>2
        <4> QED
          BY <1>1, <4>1, <4>2, Zenon
      <3>3. (~Seen(code, n - 1, 240)) = k.down
        BY <1>6, <3>1
      <3> QED
        BY <1>1, <3>2, <3>3, Zenon
    <2>5. (\A j \in 1 .. n - 1 : code[j] \in {224, 240}) /\ code[n] \in Nat \ {224, 240} /\ n \in Nat \ {0} /\ code # <<>>
      <3>1. n \in Nat \ {0} /\ code # <<>>
        <4>1. n \in Nat \ {0} /\ Len(<<>>) = 0
          BY <2>2
        <4> QED
          BY <4>1
      <3>2. code[n] \in Nat \ {224, 240}
        BY <1>1, <2>2
      <3>3. \A j \in 1 .. n - 1 : code[j] \in {224, 240}
        BY <2>2
      <3> QED
        BY <3>1, <3>2, <3>3
    <2> QED
      BY <2>2, <2>4, <2>5 DEF ReadAs
  <1> QED
    BY <1>1, <1>3, <1>4, <1>5, <1>6 DEF code

Ps2Codes(r) == [k \in 1 .. Len(r) |-> Ps2Bytes(r[k].key, r[k].down)]

\* The codes of one more and one less key.
LEMMA Ps2CodesIs ==
    ASSUME NEW r \in Seq(Ps2Keys)
    PROVE  /\ Ps2Codes(r) \in CodesOf(Nat)
           /\ \A k \in Ps2Keys : Ps2Codes(Append(r, k)) = Append(Ps2Codes(r), Ps2Bytes(k.key, k.down))
           /\ Ps2Codes(r) = <<>> <=> r = <<>>
           /\ r # <<>> => Tail(Ps2Codes(r)) = Ps2Codes(Tail(r)) /\ Ps2Codes(r)[1] = Ps2Bytes(r[1].key, r[1].down)
  <1> DEFINE n == Len(r)  cs == Ps2Codes(r)
  <1>1. n \in Nat /\ \A k \in 1 .. n : r[k] \in Ps2Keys
    OBVIOUS
  <1>2. \A k \in 1 .. n : Ps2Bytes(r[k].key, r[k].down) \in Seq(Nat) /\ Ps2Bytes(r[k].key, r[k].down) # <<>>
    <2>1. \A k \in 1 .. n : ReadAs(Ps2Bytes(r[k].key, r[k].down), r[k])
      BY <1>1, Ps2CodeIs
    <2> QED
      BY ZenonT(60), <2>1 DEF ReadAs
  <1>3. cs \in Seq(Seq(Nat)) /\ Len(cs) = n /\ DOMAIN cs = 1 .. n /\ \A k \in 1 .. n : cs[k] = Ps2Bytes(r[k].key, r[k].down)
    BY <1>1, <1>2 DEF Ps2Codes
  <1>4. cs \in CodesOf(Nat)
    BY <1>2, <1>3 DEF CodesOf
  <1>5. ASSUME NEW k \in Ps2Keys PROVE Ps2Codes(Append(r, k)) = Append(cs, Ps2Bytes(k.key, k.down))
    <2> DEFINE s == Append(r, k)  c == Ps2Bytes(k.key, k.down)
    <2>1. Len(s) = n + 1 /\ (\A j \in 1 .. n : s[j] = r[j]) /\ s[n + 1] = k
      BY <1>1
    <2>2. Ps2Codes(s) = [j \in 1 .. n + 1 |-> Ps2Bytes(s[j].key, s[j].down)]
      BY <2>1 DEF Ps2Codes
    <2>3. \A j \in 1 .. n + 1 : Ps2Bytes(s[j].key, s[j].down) = IF j <= n THEN cs[j] ELSE c
      BY <1>1, <1>3, <2>1
    <2>4. Append(cs, c) = [j \in 1 .. n + 1 |-> IF j <= n THEN cs[j] ELSE c]
      <3> HIDE DEF cs, c
      <3> DEFINE x == Append(cs, c)
      <3>1. c \in Seq(Nat)
        BY Ps2CodeIs DEF c, ReadAs
      <3>2. x \in Seq(Seq(Nat)) /\ Len(x) = n + 1 /\ (\A j \in 1 .. n : x[j] = cs[j]) /\ x[n + 1] = c
        BY <1>1, <1>3, <3>1
      <3> HIDE DEF x
      <3>3. x = [j \in 1 .. n + 1 |-> x[j]]
        BY <3>2
      <3>4. \A j \in 1 .. n + 1 : x[j] = IF j <= n THEN cs[j] ELSE c
        BY <1>1, <3>2
      <3> QED
        BY <3>3, <3>4 DEF x
    <2> HIDE DEF cs, c, s
    <2> QED
      BY <2>2, <2>3, <2>4 DEF s
  <1>6. cs = <<>> <=> r = <<>>
    BY <1>1, <1>3
  <1>7. ASSUME r # <<>> PROVE Tail(cs) = Ps2Codes(Tail(r)) /\ cs[1] = Ps2Bytes(r[1].key, r[1].down)
    <2> DEFINE t == Tail(r)
    <2>1. n > 0 /\ Len(t) = n - 1 /\ \A j \in 1 .. n - 1 : t[j] = r[j + 1]
      BY <1>1, <1>7
    <2>2. Ps2Codes(t) = [j \in 1 .. n - 1 |-> Ps2Bytes(t[j].key, t[j].down)]
      BY <2>1 DEF Ps2Codes
    <2>3. \A j \in 1 .. n - 1 : Ps2Bytes(t[j].key, t[j].down) = cs[j + 1]
      BY <1>1, <1>3, <2>1
    <2>4. Tail(cs) = [j \in 1 .. n - 1 |-> cs[j + 1]]
      <3> HIDE DEF cs
      <3> DEFINE x == Tail(cs)
      <3>1. x \in Seq(Seq(Nat)) /\ Len(x) = n - 1 /\ \A j \in 1 .. n - 1 : x[j] = cs[j + 1]
        BY <1>1, <1>3, <2>1
      <3> HIDE DEF x
      <3>2. x = [j \in 1 .. n - 1 |-> x[j]]
        BY <3>1
      <3> QED
        BY <3>1, <3>2 DEF x
    <2> HIDE DEF t
    <2>5. [j \in 1 .. n - 1 |-> Ps2Bytes(t[j].key, t[j].down)] = [j \in 1 .. n - 1 |-> cs[j + 1]]
      BY <2>3
    <2>6. cs[1] = Ps2Bytes(r[1].key, r[1].down)
      BY <1>1, <1>3, <2>1
    <2> QED
      BY <2>2, <2>4, <2>5, <2>6 DEF t
  <1> QED
    BY <1>4, <1>5, <1>6, <1>7

\* What is typed is what has been reported and keys r whose codes are being
\* read, the first off bytes of the first of them gone.
Ps2At(typed, got, w, ext, rel, r, off) ==
    /\ typed = got \o r /\ Stream(w, Ps2Codes(r), off)
    /\ r # <<>> => ext = Seen(Ps2Codes(r)[1], off, 224) /\ rel = Seen(Ps2Codes(r)[1], off, 240)
    /\ r = <<>> => ext = FALSE /\ rel = FALSE
Ps2State(typed, got, w, ext, rel) == \E r \in Seq(Ps2Keys), off \in Nat : Ps2At(typed, got, w, ext, rel, r, off)

\* A key is typed.
LEMMA Ps2Typed ==
    ASSUME NEW typed \in Seq(Ps2Keys), NEW got \in Seq(Ps2Keys), NEW w \in Seq(Nat), NEW ext, NEW rel,
           Ps2State(typed, got, w, ext, rel), NEW k \in Ps2Keys
    PROVE  Ps2State(Append(typed, k), got, w \o Ps2Bytes(k.key, k.down), ext, rel)
  <1>0. PICK r \in Seq(Ps2Keys), off \in Nat : Ps2At(typed, got, w, ext, rel, r, off)
    BY DEF Ps2State
  <1>1. /\ typed = got \o r /\ Stream(w, Ps2Codes(r), off)
        /\ r # <<>> => ext = Seen(Ps2Codes(r)[1], off, 224) /\ rel = Seen(Ps2Codes(r)[1], off, 240)
        /\ r = <<>> => ext = FALSE /\ rel = FALSE
    BY <1>0 DEF Ps2At
  <1> DEFINE s == Append(r, k)  c == Ps2Bytes(k.key, k.down)  cs == Ps2Codes(r)
  <1>2. c \in Seq(Nat) /\ c # <<>> /\ cs \in CodesOf(Nat) /\ Ps2Codes(s) = Append(cs, c) /\ (cs = <<>> <=> r = <<>>)
    BY Ps2CodeIs, Ps2CodesIs DEF ReadAs
  <1> HIDE DEF c, cs
  <1>3. Stream(w \o c, Ps2Codes(s), off)
    <2>1. Stream(w, cs, off)
      BY <1>1 DEF cs
    <2> QED
      BY <1>2, <2>1, StreamAppend
  <1>4. Append(typed, k) = got \o s /\ s \in Seq(Ps2Keys) /\ s # <<>>
    <2>1. Append(got \o r, k) = got \o Append(r, k) /\ Append(r, k) # <<>>
      <3>1. \A x \in Ps2Keys : Append(got \o r, x) = got \o Append(r, x) /\ Append(r, x) # <<>>
        BY JoinMoves, Zenon
      <3> QED
        BY <3>1
    <2>2. Append(r, k) \in Seq(Ps2Keys)
      OBVIOUS
    <2> QED
      BY <1>1, <2>1, <2>2
  <1>5. ext = Seen(Ps2Codes(s)[1], off, 224) /\ rel = Seen(Ps2Codes(s)[1], off, 240)
    <2>1. CASE r # <<>>
      <3>1. cs # <<>> /\ cs \in Seq(Seq(Nat))
        BY <1>2, <2>1 DEF CodesOf
      <3>2. Append(cs, c)[1] = cs[1]
        BY <1>2, <3>1
      <3> QED
        BY <1>1, <1>2, <2>1, <3>2 DEF cs
    <2>2. CASE r = <<>>
      <3>1. off = 0
        <4>1. Stream(w, <<>>, off)
          BY <1>1, <1>2, <2>2 DEF cs
        <4>2. Len(<<>>) = 0 /\ Len(w) \in Nat
          OBVIOUS
        <4>3. StreamOf(w, <<>>, off, 0, Len(w))
          BY <4>1, <4>2 DEF Stream
        <4> QED
          BY <4>2, <4>3 DEF StreamOf
      <3>2. Seen(Ps2Codes(s)[1], off, 224) = FALSE /\ Seen(Ps2Codes(s)[1], off, 240) = FALSE
        BY <3>1 DEF Seen
      <3> QED
        BY <1>1, <2>2, <3>2
    <2> QED
      BY <2>1, <2>2
  <1>6. Ps2At(Append(typed, k), got, w \o c, ext, rel, s, off)
    BY <1>3, <1>4, <1>5 DEF Ps2At
  <1> QED
    BY <1>4, <1>6 DEF Ps2State, c

KeyRead(b, ext, rel) == [key |-> key_from_ps2(b, ext), down |-> ~rel]

\* A byte is read (__am_input_keybrd).
LEMMA Ps2Polled ==
    ASSUME NEW typed \in Seq(Ps2Keys), NEW got \in Seq(Ps2Keys), NEW w \in Seq(Nat), w # <<>>,
           NEW ext, NEW rel, Ps2State(typed, got, w, ext, rel)
    PROVE  LET b == Head(w)  k == KeyRead(b, ext, rel) IN
           /\ b = 224 => Ps2State(typed, got, Tail(w), TRUE, rel)
           /\ b = 240 => Ps2State(typed, got, Tail(w), ext, TRUE)
           /\ b \notin {224, 240} => k \in Ps2Keys /\ Ps2State(typed, Append(got, k), Tail(w), FALSE, FALSE)
  <1>0. PICK r \in Seq(Ps2Keys), off \in Nat : Ps2At(typed, got, w, ext, rel, r, off)
    BY DEF Ps2State
  <1>1. /\ typed = got \o r /\ Stream(w, Ps2Codes(r), off)
        /\ r # <<>> => ext = Seen(Ps2Codes(r)[1], off, 224) /\ rel = Seen(Ps2Codes(r)[1], off, 240)
        /\ r = <<>> => ext = FALSE /\ rel = FALSE
    BY <1>0 DEF Ps2At
  <1> DEFINE cs == Ps2Codes(r)  code == cs[1]  n == Len(code)  b == Head(w)  t == Tail(r)
  <1>2. /\ cs # <<>> /\ off < n /\ b = code[off + 1]
        /\ off + 1 < n => Stream(Tail(w), cs, off + 1)
        /\ off + 1 = n => Stream(Tail(w), Tail(cs), 0)
    BY <1>1, Ps2CodesIs, StreamHead
  <1>3. r # <<>> /\ Tail(cs) = Ps2Codes(t) /\ code = Ps2Bytes(r[1].key, r[1].down) /\ r[1] \in Ps2Keys
    BY <1>2, Ps2CodesIs
  <1>4. /\ n \in Nat \ {0} /\ \A j \in 1 .. n - 1 : code[j] \in {224, 240}
        /\ code[n] \in Nat \ {224, 240}
        /\ r[1] = [key |-> key_from_ps2(code[n], Seen(code, n - 1, 224)), down |-> ~Seen(code, n - 1, 240)]
    <2>1. ReadAs(code, r[1])
      BY <1>3, Ps2CodeIs, Zenon
    <2> HIDE DEF cs
    <2> QED
      BY <2>1 DEF ReadAs
  <1>5. ext = Seen(code, off, 224) /\ rel = Seen(code, off, 240)
    BY <1>1, <1>3
  <1> HIDE DEF cs, code, n, b, t
  <1>6. \A x : Seen(code, off + 1, x) <=> (Seen(code, off, x) \/ code[off + 1] = x)
    <2> TAKE x
    <2>1. \A j : j \in 1 .. off + 1 <=> j \in 1 .. off \/ j = off + 1
      OBVIOUS
    <2> QED
      BY <2>1, Zenon DEF Seen
  <1>7. ASSUME b \in {224, 240}
        PROVE  /\ b = 224 => Ps2State(typed, got, Tail(w), TRUE, rel)
               /\ b = 240 => Ps2State(typed, got, Tail(w), ext, TRUE)
    <2>1. off + 1 < n /\ off + 1 \in Nat
      BY <1>2, <1>4, <1>7
    <2>2. Stream(Tail(w), cs, off + 1)
      BY <1>2, <2>1
    <2>3. ASSUME b = 224 PROVE Ps2State(typed, got, Tail(w), TRUE, rel)
      <3>1. Seen(code, off + 1, 224) = TRUE
        BY <1>2, <1>6, <2>3
      <3>2. Seen(code, off + 1, 240) = rel
        <4>1. ~(code[off + 1] = 240)
          BY <1>2, <2>3
        <4>2. Seen(code, off + 1, 240) = Seen(code, off, 240)
          <5>1. Seen(code, off, 240) \in BOOLEAN /\ Seen(code, off + 1, 240) \in BOOLEAN
            BY DEF Seen
          <5>2. Seen(code, off + 1, 240) <=> Seen(code, off, 240)
            BY <1>6, <4>1
          <5> QED
            BY <5>1, <5>2
        <4> QED
          BY <1>5, <4>2
      <3>3. typed = got \o r /\ r # <<>> /\ r \in Seq(Ps2Keys)
        BY <1>1, <1>3
      <3>4. Stream(Tail(w), Ps2Codes(r), off + 1) /\ off + 1 \in Nat
        BY <2>1, <2>2 DEF cs
      <3>5. TRUE = Seen(Ps2Codes(r)[1], off + 1, 224) /\ rel = Seen(Ps2Codes(r)[1], off + 1, 240)
        BY <3>1, <3>2 DEF cs, code
      <3>6. Ps2At(typed, got, Tail(w), TRUE, rel, r, off + 1)
        BY <3>3, <3>4, <3>5 DEF Ps2At
      <3> QED
        BY <3>4, <3>6 DEF Ps2State
    <2>4. ASSUME b = 240 PROVE Ps2State(typed, got, Tail(w), ext, TRUE)
      <3>1. Seen(code, off + 1, 240) = TRUE
        BY <1>2, <1>6, <2>4
      <3>2. Seen(code, off + 1, 224) = ext
        <4>1. ~(code[off + 1] = 224)
          BY <1>2, <2>4
        <4>2. Seen(code, off + 1, 224) = Seen(code, off, 224)
          <5>1. Seen(code, off, 224) \in BOOLEAN /\ Seen(code, off + 1, 224) \in BOOLEAN
            BY DEF Seen
          <5>2. Seen(code, off + 1, 224) <=> Seen(code, off, 224)
            BY <1>6, <4>1
          <5> QED
            BY <5>1, <5>2
        <4> QED
          BY <1>5, <4>2
      <3>3. typed = got \o r /\ r # <<>> /\ r \in Seq(Ps2Keys)
        BY <1>1, <1>3
      <3>4. Stream(Tail(w), Ps2Codes(r), off + 1) /\ off + 1 \in Nat
        BY <2>1, <2>2 DEF cs
      <3>5. ext = Seen(Ps2Codes(r)[1], off + 1, 224) /\ TRUE = Seen(Ps2Codes(r)[1], off + 1, 240)
        BY <3>1, <3>2 DEF cs, code
      <3>6. Ps2At(typed, got, Tail(w), ext, TRUE, r, off + 1)
        BY <3>3, <3>4, <3>5 DEF Ps2At
      <3> QED
        BY <3>4, <3>6 DEF Ps2State
    <2> QED
      BY <2>3, <2>4
  <1>8. ASSUME b \notin {224, 240}
        PROVE  LET k == KeyRead(b, ext, rel)
               IN k \in Ps2Keys /\ Ps2State(typed, Append(got, k), Tail(w), FALSE, FALSE)
    <2> DEFINE k == KeyRead(b, ext, rel)
    <2>1. off + 1 = n /\ off = n - 1
      <3>1. n \in Nat /\ off \in Nat /\ off < n /\ b = code[off + 1]
        BY <1>2, <1>4
      <3>2. off + 1 \notin 1 .. n - 1
        BY <1>4, <1>8, <3>1
      <3> QED
        BY <3>1, <3>2
    <2>2. k = r[1]
      BY <1>2, <1>4, <1>5, <2>1 DEF KeyRead
    <2>3. Stream(Tail(w), Ps2Codes(t), 0)
      BY <1>2, <1>3, <2>1
    <2>4. typed = Append(got, r[1]) \o t /\ t \in Seq(Ps2Keys)
      <3>1. got \o r = Append(got, r[1]) \o t
        <4>1. r # <<>>
          BY <1>3
        <4>2. got \o r = Append(got, r[1]) \o Tail(r)
          BY <4>1, JoinMoves
        <4> QED
          BY <4>2 DEF t
      <3>2. t \in Seq(Ps2Keys)
        BY <1>3 DEF t
      <3> QED
        BY <1>1, <3>1, <3>2
    <2>5. \A c, x : Seen(c, 0, x) = FALSE
      BY DEF Seen
    <2> HIDE DEF k
    <2>6. Ps2State(typed, Append(got, k), Tail(w), FALSE, FALSE)
      <3>1. FALSE = Seen(Ps2Codes(t)[1], 0, 224) /\ FALSE = Seen(Ps2Codes(t)[1], 0, 240) /\ 0 \in Nat
        BY <2>5
      <3>2. Ps2At(typed, Append(got, k), Tail(w), FALSE, FALSE, t, 0)
        BY <2>2, <2>3, <2>4, <3>1, Zenon DEF Ps2At
      <3> QED
        BY <2>4, <3>1, <3>2 DEF Ps2State
    <2> QED
      BY <1>3, <2>2, <2>6 DEF k
  <1> QED
    BY <1>7, <1>8 DEF b

(***************************************************************************)
(* The terminal.                                                           *)
(***************************************************************************)
UartChars == {"ESC", "["} \cup ArrowEnds \cup Characters

\* An arrow is a sequence that its last character tells, another key a
\* character of its own.
ArrowCode(code, k) ==
    /\ Len(code) = 3 /\ code[1] = "ESC" /\ code[2] = "["
    /\ Arrow(code[3]) # "NONE" /\ k = [key |-> Arrow(code[3]), down |-> TRUE]
CharCode(code, k) ==
    /\ Len(code) = 1 /\ code[1] # "ESC"
    /\ key_from_char(code[1]) # "NONE" /\ k = [key |-> key_from_char(code[1]), down |-> TRUE]

\* No character stands for no key.
LEMMA CharactersAreKeys == \A ch \in Characters : ch # "ESC" /\ key_from_char(ch) # "NONE"
  <1> SUFFICES ASSUME NEW ch \in Characters PROVE ch # "ESC" /\ key_from_char(ch) # "NONE"
    OBVIOUS
  <1>1. CASE ch \in Letters
    <2>1. ch # "ESC" /\ ch # "NONE"
      BY <1>1 DEF Letters
    <2> QED
      BY <1>1, <2>1 DEF key_from_char
  <1>2. CASE ch \notin Letters
    <2> DEFINE at == {i \in DOMAIN Signs : Signs[i][1] = ch}
    <2>1. ch # "ESC" /\ at # {}
      BY <1>2 DEF Characters
    <2>2. (CHOOSE i \in at : TRUE) \in DOMAIN Signs
      BY <2>1
    <2>3. \A i \in DOMAIN Signs : Signs[i][2] # "NONE"
      <3>1. DOMAIN Signs = 1 .. 18
        BY DEF Signs
      <3>2. /\ Signs[1][2] # "NONE" /\ Signs[2][2] # "NONE" /\ Signs[3][2] # "NONE"
            /\ Signs[4][2] # "NONE" /\ Signs[5][2] # "NONE" /\ Signs[6][2] # "NONE"
        BY DEF Signs
      <3>3. /\ Signs[7][2] # "NONE" /\ Signs[8][2] # "NONE" /\ Signs[9][2] # "NONE"
            /\ Signs[10][2] # "NONE" /\ Signs[11][2] # "NONE" /\ Signs[12][2] # "NONE"
        BY DEF Signs
      <3>4. /\ Signs[13][2] # "NONE" /\ Signs[14][2] # "NONE" /\ Signs[15][2] # "NONE"
            /\ Signs[16][2] # "NONE" /\ Signs[17][2] # "NONE" /\ Signs[18][2] # "NONE"
        BY DEF Signs
      <3>5. \A i \in 1 .. 18 : i \in 1 .. 6 \/ i \in 7 .. 12 \/ i \in 13 .. 18
        OBVIOUS
      <3>6. \A i \in 1 .. 6 : i = 1 \/ i = 2 \/ i = 3 \/ i = 4 \/ i = 5 \/ i = 6
        OBVIOUS
      <3>7. \A i \in 7 .. 12 : i = 7 \/ i = 8 \/ i = 9 \/ i = 10 \/ i = 11 \/ i = 12
        OBVIOUS
      <3>8. \A i \in 13 .. 18 : i = 13 \/ i = 14 \/ i = 15 \/ i = 16 \/ i = 17 \/ i = 18
        OBVIOUS
      <3> QED
        BY <3>1, <3>2, <3>3, <3>4, <3>5, <3>6, <3>7, <3>8
    <2>4. key_from_char(ch) = Signs[CHOOSE i \in at : TRUE][2]
      BY <1>2, <2>1 DEF key_from_char, Lookup
    <2> QED
      BY <2>1, <2>2, <2>3, <2>4
  <1> QED
    BY <1>1, <1>2

\* What the terminal sends for a key.
LEMMA UartCodeIs ==
    ASSUME NEW k \in UartKeys
    PROVE  LET code == TerminalBytes(k.key) IN
           code \in Seq(UartChars) /\ code # <<>> /\ (ArrowCode(code, k) \/ CharCode(code, k))
  <1> DEFINE code == TerminalBytes(k.key)
             end == CHOOSE ch \in ArrowEnds : Arrow(ch) = k.key
             one == CHOOSE ch \in Characters : key_from_char(ch) = k.key
  <1>1. /\ k = [key |-> k.key, down |-> TRUE]
        /\ k.key \in {Arrow(ch) : ch \in ArrowEnds} \cup {key_from_char(ch) : ch \in Characters}
        /\ k.key # "ESCAPE"
    BY TypedAssumption DEF KeysOf, UartKeys
  <1>2. ASSUME \E ch \in ArrowEnds : Arrow(ch) = k.key PROVE code \in Seq(UartChars) /\ code # <<>> /\ ArrowCode(code, k)
    <2>1. end \in ArrowEnds /\ Arrow(end) = k.key
      BY <1>2
    <2>2. code = <<"ESC", "[", end>>
      BY <1>2 DEF TerminalBytes
    <2> HIDE DEF end, code
    <2>3. code \in Seq(UartChars) /\ Len(code) = 3 /\ code[1] = "ESC" /\ code[2] = "[" /\ code[3] = end
      <3>1. end \in UartChars /\ "ESC" \in UartChars /\ "[" \in UartChars
        BY <2>1 DEF UartChars
      <3> QED
        BY <2>2, <3>1
    <2>4. Arrow(end) # "NONE"
      BY <2>1 DEF Arrow, ArrowEnds
    <2>5. code # <<>>
      <3>1. Len(<<>>) = 0
        OBVIOUS
      <3> QED
        BY <2>3, <3>1
    <2> QED
      BY <1>1, <2>1, <2>3, <2>4, <2>5 DEF ArrowCode
  <1>3. ASSUME ~ \E ch \in ArrowEnds : Arrow(ch) = k.key PROVE code \in Seq(UartChars) /\ code # <<>> /\ CharCode(code, k)
    <2>1. one \in Characters /\ key_from_char(one) = k.key
      BY <1>1, <1>3
    <2>2. code = <<one>>
      BY <1>1, <1>3 DEF TerminalBytes
    <2>3. one # "ESC" /\ key_from_char(one) # "NONE"
      BY <2>1, CharactersAreKeys
    <2> HIDE DEF one, code
    <2>4. code \in Seq(UartChars) /\ Len(code) = 1 /\ code[1] = one
      <3>1. one \in UartChars
        BY <2>1 DEF UartChars
      <3> QED
        BY <2>2, <3>1
    <2>5. code # <<>>
      <3>1. Len(<<>>) = 0
        OBVIOUS
      <3> QED
        BY <2>4, <3>1
    <2> QED
      BY <1>1, <2>1, <2>3, <2>4, <2>5 DEF CharCode
  <1> QED
    BY <1>2, <1>3

UartCodes(r) == [k \in 1 .. Len(r) |-> TerminalBytes(r[k].key)]

\* The codes of one more and one less key.
LEMMA UartCodesIs ==
    ASSUME NEW r \in Seq(UartKeys)
    PROVE  /\ UartCodes(r) \in CodesOf(UartChars)
           /\ \A k \in UartKeys : UartCodes(Append(r, k)) = Append(UartCodes(r), TerminalBytes(k.key))
           /\ UartCodes(r) = <<>> <=> r = <<>>
           /\ r # <<>> => Tail(UartCodes(r)) = UartCodes(Tail(r)) /\ UartCodes(r)[1] = TerminalBytes(r[1].key)
  <1> DEFINE n == Len(r)  cs == UartCodes(r)
  <1>1. n \in Nat /\ \A k \in 1 .. n : r[k] \in UartKeys
    OBVIOUS
  <1>2. \A k \in 1 .. n : TerminalBytes(r[k].key) \in Seq(UartChars) /\ TerminalBytes(r[k].key) # <<>>
    BY <1>1, UartCodeIs
  <1>3. cs \in Seq(Seq(UartChars)) /\ Len(cs) = n /\ DOMAIN cs = 1 .. n /\ \A k \in 1 .. n : cs[k] = TerminalBytes(r[k].key)
    BY <1>1, <1>2 DEF UartCodes
  <1>4. cs \in CodesOf(UartChars)
    BY <1>2, <1>3 DEF CodesOf
  <1>5. ASSUME NEW k \in UartKeys PROVE UartCodes(Append(r, k)) = Append(cs, TerminalBytes(k.key))
    <2> DEFINE s == Append(r, k)  c == TerminalBytes(k.key)
    <2>1. Len(s) = n + 1 /\ (\A j \in 1 .. n : s[j] = r[j]) /\ s[n + 1] = k
      BY <1>1
    <2>2. UartCodes(s) = [j \in 1 .. n + 1 |-> TerminalBytes(s[j].key)]
      BY <2>1 DEF UartCodes
    <2>3. \A j \in 1 .. n + 1 : TerminalBytes(s[j].key) = IF j <= n THEN cs[j] ELSE c
      BY <1>1, <1>3, <2>1
    <2>4. Append(cs, c) = [j \in 1 .. n + 1 |-> IF j <= n THEN cs[j] ELSE c]
      <3> HIDE DEF cs, c
      <3> DEFINE x == Append(cs, c)
      <3>1. c \in Seq(UartChars)
        BY UartCodeIs DEF c
      <3>2. x \in Seq(Seq(UartChars)) /\ Len(x) = n + 1 /\ (\A j \in 1 .. n : x[j] = cs[j]) /\ x[n + 1] = c
        BY <1>1, <1>3, <3>1
      <3> HIDE DEF x
      <3>3. x = [j \in 1 .. n + 1 |-> x[j]]
        BY <3>2
      <3>4. \A j \in 1 .. n + 1 : x[j] = IF j <= n THEN cs[j] ELSE c
        BY <1>1, <3>2
      <3> QED
        BY <3>3, <3>4 DEF x
    <2> HIDE DEF cs, c, s
    <2> QED
      BY <2>2, <2>3, <2>4 DEF s
  <1>6. cs = <<>> <=> r = <<>>
    BY <1>1, <1>3
  <1>7. ASSUME r # <<>> PROVE Tail(cs) = UartCodes(Tail(r)) /\ cs[1] = TerminalBytes(r[1].key)
    <2> DEFINE t == Tail(r)
    <2>1. n > 0 /\ Len(t) = n - 1 /\ \A j \in 1 .. n - 1 : t[j] = r[j + 1]
      BY <1>1, <1>7
    <2>2. UartCodes(t) = [j \in 1 .. n - 1 |-> TerminalBytes(t[j].key)]
      BY <2>1 DEF UartCodes
    <2>3. \A j \in 1 .. n - 1 : TerminalBytes(t[j].key) = cs[j + 1]
      BY <1>1, <1>3, <2>1
    <2>4. Tail(cs) = [j \in 1 .. n - 1 |-> cs[j + 1]]
      <3> HIDE DEF cs
      <3> DEFINE x == Tail(cs)
      <3>1. x \in Seq(Seq(UartChars)) /\ Len(x) = n - 1 /\ \A j \in 1 .. n - 1 : x[j] = cs[j + 1]
        BY <1>1, <1>3, <2>1
      <3> HIDE DEF x
      <3>2. x = [j \in 1 .. n - 1 |-> x[j]]
        BY <3>1
      <3> QED
        BY <3>1, <3>2 DEF x
    <2> HIDE DEF t
    <2>5. [j \in 1 .. n - 1 |-> TerminalBytes(t[j].key)] = [j \in 1 .. n - 1 |-> cs[j + 1]]
      BY <2>3
    <2>6. cs[1] = TerminalBytes(r[1].key)
      <3>1. 1 \in 1 .. n
        BY <1>1, <2>1
      <3> QED
        BY <1>3, <3>1
    <2> QED
      BY <2>2, <2>4, <2>5, <2>6 DEF t
  <1> QED
    BY <1>4, <1>5, <1>6, <1>7

\* w is what is in the UART's queue and on the wire; of a sequence that has
\* begun, esc characters are gone.
UartAt(typed, got, w, esc, r) == typed = got \o r /\ Stream(w, UartCodes(r), esc)
UartState(typed, got, w, esc) == \E r \in Seq(UartKeys) : UartAt(typed, got, w, esc, r)

\* A key is typed.
LEMMA UartTyped ==
    ASSUME NEW typed \in Seq(UartKeys), NEW got \in Seq(UartKeys), NEW w \in Seq(UartChars), NEW esc \in Nat,
           UartState(typed, got, w, esc), NEW k \in UartKeys
    PROVE  UartState(Append(typed, k), got, w \o TerminalBytes(k.key), esc)
  <1>1. PICK r \in Seq(UartKeys) : typed = got \o r /\ Stream(w, UartCodes(r), esc)
    BY DEF UartState, UartAt
  <1> DEFINE s == Append(r, k)  c == TerminalBytes(k.key)  cs == UartCodes(r)
  <1>2. c \in Seq(UartChars) /\ c # <<>> /\ cs \in CodesOf(UartChars) /\ UartCodes(s) = Append(cs, c)
    BY UartCodeIs, UartCodesIs
  <1> HIDE DEF c, cs
  <1>3. Stream(w \o c, UartCodes(s), esc)
    <2>1. Stream(w, cs, esc)
      BY <1>1 DEF cs
    <2> QED
      BY <1>2, <2>1, StreamAppend
  <1>4. Append(typed, k) = got \o s
    <2>1. \A x \in UartKeys : Append(got \o r, x) = got \o Append(r, x) /\ Append(r, x) # <<>>
      BY JoinMoves, Zenon
    <2> QED
      BY <1>1, <2>1
  <1>5. UartAt(Append(typed, k), got, w \o c, esc, s) /\ s \in Seq(UartKeys)
    BY <1>3, <1>4 DEF UartAt
  <1> QED
    BY <1>5 DEF UartState, c

\* A character is read (__am_input_keybrd).
LEMMA UartPolled ==
    ASSUME NEW typed \in Seq(UartKeys), NEW got \in Seq(UartKeys), NEW w \in Seq(UartChars), w # <<>>,
           NEW esc \in Nat, UartState(typed, got, w, esc)
    PROVE  LET ch == Head(w)
               Done(name) == LET k == [key |-> name, down |-> TRUE]
                            IN name # "NONE" /\ k \in UartKeys /\ UartState(typed, Append(got, k), Tail(w), 0)
           IN /\ esc = 0 /\ ch = "ESC" => UartState(typed, got, Tail(w), 1)
              /\ esc = 0 /\ ch # "ESC" => Done(key_from_char(ch))
              /\ esc = 1 => ch = "[" /\ UartState(typed, got, Tail(w), 2)
              /\ esc = 2 => Done(Arrow(ch))
  <1>1. PICK r \in Seq(UartKeys) : typed = got \o r /\ Stream(w, UartCodes(r), esc)
    BY DEF UartState, UartAt
  <1> DEFINE cs == UartCodes(r)  code == cs[1]  n == Len(code)  ch == Head(w)  t == Tail(r)
             Done(name) == LET k == [key |-> name, down |-> TRUE]
                          IN name # "NONE" /\ k \in UartKeys /\ UartState(typed, Append(got, k), Tail(w), 0)
  <1>2. /\ cs # <<>> /\ esc < n /\ ch = code[esc + 1]
        /\ esc + 1 < n => Stream(Tail(w), cs, esc + 1)
        /\ esc + 1 = n => Stream(Tail(w), Tail(cs), 0)
    BY <1>1, UartCodesIs, StreamHead
  <1>3. r # <<>> /\ Tail(cs) = UartCodes(t) /\ code = TerminalBytes(r[1].key) /\ r[1] \in UartKeys
    BY <1>2, UartCodesIs
  <1>4. ArrowCode(code, r[1]) \/ CharCode(code, r[1])
    BY <1>3, UartCodeIs
  <1> HIDE DEF cs, code, ch, t
  <1>5. ASSUME esc + 1 < n PROVE UartState(typed, got, Tail(w), esc + 1)
    <2>1. UartAt(typed, got, Tail(w), esc + 1, r)
      BY <1>1, <1>2, <1>5 DEF UartAt, cs
    <2> QED
      BY <2>1 DEF UartState
  <1>6. ASSUME esc + 1 = n PROVE UartState(typed, Append(got, r[1]), Tail(w), 0)
    <2>1. typed = Append(got, r[1]) \o t /\ t \in Seq(UartKeys)
      <3>1. got \o r = Append(got, r[1]) \o t
        <4>1. r # <<>>
          BY <1>3
        <4>2. got \o r = Append(got, r[1]) \o Tail(r)
          BY <4>1, JoinMoves
        <4> QED
          BY <4>2 DEF t
      <3>2. t \in Seq(UartKeys)
        BY <1>3 DEF t
      <3> QED
        BY <1>1, <3>1, <3>2
    <2>2. UartAt(typed, Append(got, r[1]), Tail(w), 0, t)
      BY <1>1, <1>2, <1>3, <1>6, <2>1 DEF UartAt
    <2> QED
      BY <2>1, <2>2 DEF UartState
  <1>7. ASSUME ArrowCode(code, r[1])
        PROVE  /\ esc = 0 /\ ch = "ESC" => UartState(typed, got, Tail(w), 1)
               /\ esc = 0 /\ ch # "ESC" => Done(key_from_char(ch))
               /\ esc = 1 => ch = "[" /\ UartState(typed, got, Tail(w), 2)
               /\ esc = 2 => Done(Arrow(ch))
    <2>1. n = 3 /\ code[1] = "ESC" /\ code[2] = "[" /\ Arrow(code[3]) # "NONE" /\ r[1] = [key |-> Arrow(code[3]), down |-> TRUE]
      BY <1>7 DEF ArrowCode
    <2>2. ASSUME esc = 0 PROVE ch = "ESC" /\ UartState(typed, got, Tail(w), 1)
      BY <1>2, <1>5, <2>1, <2>2
    <2>3. ASSUME esc = 1 PROVE ch = "[" /\ UartState(typed, got, Tail(w), 2)
      BY <1>2, <1>5, <2>1, <2>3
    <2>4. ASSUME esc = 2 PROVE Done(Arrow(ch))
      <3>1. ch = code[3] /\ UartState(typed, Append(got, r[1]), Tail(w), 0)
        BY <1>2, <1>6, <2>1, <2>4
      <3> QED
        BY <1>3, <2>1, <3>1
    <2> QED
      BY <2>2, <2>3, <2>4
  <1>8. ASSUME CharCode(code, r[1])
        PROVE  /\ esc = 0 /\ ch = "ESC" => UartState(typed, got, Tail(w), 1)
               /\ esc = 0 /\ ch # "ESC" => Done(key_from_char(ch))
               /\ esc = 1 => ch = "[" /\ UartState(typed, got, Tail(w), 2)
               /\ esc = 2 => Done(Arrow(ch))
    <2>1. n = 1 /\ code[1] # "ESC" /\ key_from_char(code[1]) # "NONE" /\ r[1] = [key |-> key_from_char(code[1]), down |-> TRUE]
      BY <1>8 DEF CharCode
    <2>2. esc = 0 /\ ch = code[1] /\ UartState(typed, Append(got, r[1]), Tail(w), 0)
      <3>1. esc = 0
        BY <1>2, <2>1
      <3> QED
        BY <1>2, <1>6, <2>1, <3>1
    <2>3. ch # "ESC" /\ Done(key_from_char(ch))
      BY <1>3, <2>1, <2>2
    <2> QED
      BY <2>2, <2>3
  <1> QED
    BY <1>4, <1>7, <1>8 DEF ch

\* Joining sequences.
LEMMA JoinAssociates ==
    ASSUME NEW S, NEW a \in Seq(S), NEW b \in Seq(S), NEW c \in Seq(S)
    PROVE  (a \o b) \o c = a \o (b \o c)
  OBVIOUS

\* The first of a joined sequence.
LEMMA JoinHead ==
    ASSUME NEW S, NEW a \in Seq(S), NEW b \in Seq(S), a # <<>>
    PROVE  a \o b \in Seq(S) /\ a \o b # <<>> /\ Head(a \o b) = Head(a) /\ Tail(a \o b) = Tail(a) \o b
  <1> DEFINE n == Len(a)  m == Len(b)  x == a \o b  t == Tail(a)  u == Tail(x)  v == t \o b
  <1>1. n \in Nat \ {0} /\ m \in Nat /\ x \in Seq(S) /\ Len(x) = n + m
    OBVIOUS
  <1>2. (\A i \in 1 .. n : x[i] = a[i]) /\ (\A i \in n + 1 .. n + m : x[i] = b[i - n])
    OBVIOUS
  <1>3. t \in Seq(S) /\ Len(t) = n - 1 /\ \A i \in 1 .. n - 1 : t[i] = a[i + 1]
    BY <1>1
  <1> HIDE DEF t, x
  <1>4. x # <<>> /\ Head(x) = x[1] /\ x[1] = a[1] /\ Head(a) = a[1]
    <2>1. Len(<<>>) = 0
      OBVIOUS
    <2> QED
      BY <1>1, <1>2, <2>1
  <1>5. u \in Seq(S) /\ Len(u) = n + m - 1 /\ \A i \in 1 .. n + m - 1 : u[i] = x[i + 1]
    BY <1>1, <1>4
  <1>6. v \in Seq(S) /\ Len(v) = n - 1 + m /\ (\A i \in 1 .. n - 1 : v[i] = t[i]) /\ \A i \in n .. n - 1 + m : v[i] = b[i - (n - 1)]
    <2>1. v \in Seq(S) /\ Len(v) = Len(t) + m /\ (\A i \in 1 .. Len(t) : v[i] = t[i])
          /\ \A i \in Len(t) + 1 .. Len(t) + m : v[i] = b[i - Len(t)]
      <3>1. t \in Seq(S)
        BY <1>3
      <3> QED
        BY <3>1
    <2> HIDE DEF v
    <2>2. Len(t) = n - 1 /\ Len(t) + 1 = n /\ Len(t) + m = n - 1 + m
      BY <1>1, <1>3
    <2> QED
      BY <2>1, <2>2
  <1> HIDE DEF u, v
  <1>7. \A i \in 1 .. n + m - 1 : u[i] = v[i]
    <2> TAKE i \in 1 .. n + m - 1
    <2>1. CASE i \in 1 .. n - 1
      BY <1>1, <1>2, <1>3, <1>5, <1>6, <2>1
    <2>2. CASE i \in n .. n - 1 + m
      <3>1. i + 1 \in n + 1 .. n + m /\ (i + 1) - n = i - (n - 1)
        BY <1>1, <2>2
      <3> QED
        BY <1>2, <1>5, <1>6, <2>2, <3>1
    <2> QED
      BY <1>1, <2>1, <2>2
  <1>8. u = [i \in 1 .. n + m - 1 |-> u[i]] /\ v = [i \in 1 .. n + m - 1 |-> v[i]]
    BY <1>1, <1>5, <1>6
  <1>9. u = v
    BY <1>7, <1>8
  <1> QED
    BY <1>1, <1>4, <1>9 DEF x, t, u, v

\* What a sequence begins with.
LEMMA JoinPrefix ==
    ASSUME NEW S, NEW a \in Seq(S), NEW b \in Seq(S)
    PROVE  IsPrefix(a, a \o b) /\ (b = <<>> => a = a \o b)
  BY DEF IsPrefix

(***************************************************************************)
(* The driver.  A muddled keyboard has no history.                         *)
(***************************************************************************)
InpRecords ==
    [ps2 : Seq(Nat), uart : Seq(UartChars), ps2_wire : Seq(Nat), wire : Seq(UartChars), esc_state : {0, 1, 2},
     ps2_extended : BOOLEAN, ps2_released : BOOLEAN,
     muddled : [ps2 : BOOLEAN, uart : BOOLEAN], since : [ps2 : Nat, uart : Nat], count : Nat,
     typed : [ps2 : Seq(Ps2Keys), uart : Seq(UartKeys)], got : [ps2 : Seq(Ps2Keys), uart : Seq(UartKeys)]]
Ps2Of(i) ==
    IF i.muddled.ps2 THEN i.typed.ps2 = <<>> /\ i.got.ps2 = <<>>
    ELSE Ps2State(i.typed.ps2, i.got.ps2, i.ps2 \o i.ps2_wire, i.ps2_extended, i.ps2_released)
UartOf(i) ==
    IF i.muddled.uart THEN i.typed.uart = <<>> /\ i.got.uart = <<>>
    ELSE UartState(i.typed.uart, i.got.uart, i.uart \o i.wire, i.esc_state)
InpInv(i) == i \in InpRecords /\ Ps2Of(i) /\ UartOf(i)
InpAsTyped == InpInv(inp)

\* A keyboard that a step leaves alone.
SamePs2(i, j) ==
    /\ j.ps2 = i.ps2 /\ j.ps2_wire = i.ps2_wire /\ j.ps2_extended = i.ps2_extended /\ j.ps2_released = i.ps2_released
    /\ j.muddled.ps2 = i.muddled.ps2 /\ j.typed.ps2 = i.typed.ps2 /\ j.got.ps2 = i.got.ps2
SameUart(i, j) ==
    /\ j.uart = i.uart /\ j.wire = i.wire /\ j.esc_state = i.esc_state
    /\ j.muddled.uart = i.muddled.uart /\ j.typed.uart = i.typed.uart /\ j.got.uart = i.got.uart

\* Its part of the invariant is kept.
LEMMA SameKept ==
    ASSUME NEW i, NEW j
    PROVE  /\ SamePs2(i, j) /\ Ps2Of(i) => Ps2Of(j)
           /\ SameUart(i, j) /\ UartOf(i) => UartOf(j)
  BY DEF SamePs2, SameUart, Ps2Of, UartOf

\* Nothing has been typed.
LEMMA NothingTyped == Ps2State(<<>>, <<>>, <<>>, FALSE, FALSE) /\ UartState(<<>>, <<>>, <<>>, 0)
  <1>1. <<>> \o <<>> = <<>> /\ Len(<<>>) = 0 /\ \A S : <<>> \in Seq(S)
    OBVIOUS
  <1>2. Ps2Codes(<<>>) = <<>> /\ UartCodes(<<>>) = <<>>
    BY <1>1, Ps2CodesIs, UartCodesIs
  <1>3. Ps2At(<<>>, <<>>, <<>>, FALSE, FALSE, <<>>, 0) /\ UartAt(<<>>, <<>>, <<>>, 0, <<>>)
    BY <1>1, <1>2, StreamEmpty DEF Ps2At, UartAt
  <1> QED
    BY <1>1, <1>3 DEF Ps2State, UartState

\* Initially nothing has.
LEMMA InpInitially == InpInv(inpInit)
  <1>1. <<>> \o <<>> = <<>> /\ \A S : <<>> \in Seq(S)
    OBVIOUS
  <1>2. inpInit \in InpRecords
    BY <1>1 DEF inpInit, InpRecords
  <1> QED
    BY <1>1, <1>2, NothingTyped DEF InpInv, Ps2Of, UartOf, inpInit

\* A muddled keyboard.
LEMMA MuddleIs ==
    ASSUME NEW i \in InpRecords
    PROVE  /\ LET m == Muddle(i, "ps2")
              IN m \in InpRecords /\ SameUart(i, m) /\ Ps2Of(m) /\ m.muddled.ps2 = TRUE /\ m.ps2 = i.ps2 /\ m.ps2_wire = i.ps2_wire
           /\ LET m == Muddle(i, "uart")
              IN m \in InpRecords /\ SamePs2(i, m) /\ UartOf(m) /\ m.muddled.uart = TRUE /\ m.uart = i.uart /\ m.wire = i.wire
  <1>1. \A S : <<>> \in Seq(S)
    OBVIOUS
  <1> DEFINE m == Muddle(i, "ps2")  u == Muddle(i, "uart")
  <1>2. /\ m \in InpRecords /\ SameUart(i, m) /\ m.muddled.ps2 = TRUE /\ m.typed.ps2 = <<>> /\ m.got.ps2 = <<>>
        /\ m.ps2 = i.ps2 /\ m.ps2_wire = i.ps2_wire
    BY <1>1 DEF Muddle, InpRecords, SameUart
  <1>3. /\ u \in InpRecords /\ SamePs2(i, u) /\ u.muddled.uart = TRUE /\ u.typed.uart = <<>> /\ u.got.uart = <<>>
        /\ u.uart = i.uart /\ u.wire = i.wire
    BY <1>1 DEF Muddle, InpRecords, SamePs2
  <1> HIDE DEF m, u
  <1>4. Ps2Of(m) /\ UartOf(u)
    BY <1>2, <1>3 DEF Ps2Of, UartOf
  <1> QED
    BY <1>2, <1>3, <1>4 DEF m, u

\* Joining bytes.
LEMMA JoinBytes == \A x, y, z \in Seq(Nat) : (x \o y) \o z = x \o (y \o z)
  OBVIOUS

OnPs2Wire(i, n, p) == [i EXCEPT !.count = n, !.ps2_wire = p]
OnUartWire(i, n, u) == [i EXCEPT !.count = n, !.wire = u]

\* The bytes of a key go to the wire of the PS/2 keyboard.
LEMMA ToPs2Wire ==
    ASSUME NEW i \in InpRecords, NEW n \in Nat, NEW p \in Seq(Nat)
    PROVE  LET a == OnPs2Wire(i, n, p)
           IN /\ a \in InpRecords /\ SameUart(i, a) /\ a.muddled = i.muddled /\ a.typed = i.typed /\ a.got = i.got
              /\ a.ps2 = i.ps2 /\ a.ps2_wire = p /\ a.ps2_extended = i.ps2_extended /\ a.ps2_released = i.ps2_released
  BY DEF InpRecords, SameUart, OnPs2Wire

\* They go to the wire of the terminal.
LEMMA ToUartWire ==
    ASSUME NEW i \in InpRecords, NEW n \in Nat, NEW u \in Seq(UartChars)
    PROVE  LET b == OnUartWire(i, n, u)
           IN /\ b \in InpRecords /\ SamePs2(i, b) /\ b.muddled = i.muddled /\ b.typed = i.typed /\ b.got = i.got
              /\ b.uart = i.uart /\ b.wire = u /\ b.esc_state = i.esc_state
  BY DEF InpRecords, SamePs2, OnUartWire

\* A key is remembered, or counted when its keyboard is muddled.
LEMMA RememberIs ==
    ASSUME NEW i \in InpRecords, NEW x
    PROVE  /\ (x \in Ps2Keys \/ i.muddled.ps2) =>
                 LET j == Remember(i, "ps2", x)
                 IN /\ j \in InpRecords /\ SameUart(i, j) /\ j.muddled = i.muddled /\ j.got = i.got
                    /\ j.typed.ps2 = (IF i.muddled.ps2 THEN i.typed.ps2 ELSE Append(i.typed.ps2, x)) /\ j.count = i.count
                    /\ j.ps2 = i.ps2 /\ j.ps2_wire = i.ps2_wire /\ j.ps2_extended = i.ps2_extended /\ j.ps2_released = i.ps2_released
           /\ (x \in UartKeys \/ i.muddled.uart) =>
                 LET j == Remember(i, "uart", x)
                 IN /\ j \in InpRecords /\ SamePs2(i, j) /\ j.muddled = i.muddled /\ j.got = i.got
                    /\ j.typed.uart = (IF i.muddled.uart THEN i.typed.uart ELSE Append(i.typed.uart, x)) /\ j.count = i.count
                    /\ j.uart = i.uart /\ j.wire = i.wire /\ j.esc_state = i.esc_state
  <1> DEFINE j == Remember(i, "ps2", x)  k == Remember(i, "uart", x)
             t == Append(i.typed.ps2, x)  u == Append(i.typed.uart, x)
  <1>1. ASSUME i.muddled.ps2
        PROVE  /\ j \in InpRecords /\ SameUart(i, j) /\ j.muddled = i.muddled /\ j.got = i.got
               /\ j.typed.ps2 = i.typed.ps2 /\ j.count = i.count
               /\ j.ps2 = i.ps2 /\ j.ps2_wire = i.ps2_wire /\ j.ps2_extended = i.ps2_extended /\ j.ps2_released = i.ps2_released
    <2> DEFINE q == i.since.ps2 + 1
    <2>1. j = [i EXCEPT !.since["ps2"] = q] /\ q \in Nat
      BY <1>1 DEF InpRecords, Remember
    <2> HIDE DEF q, j
    <2> QED
      BY <2>1 DEF InpRecords, SameUart
  <1>2. ASSUME ~i.muddled.ps2, x \in Ps2Keys
        PROVE  /\ j \in InpRecords /\ SameUart(i, j) /\ j.muddled = i.muddled /\ j.got = i.got
               /\ j.typed.ps2 = t /\ j.count = i.count
               /\ j.ps2 = i.ps2 /\ j.ps2_wire = i.ps2_wire /\ j.ps2_extended = i.ps2_extended /\ j.ps2_released = i.ps2_released
    <2>1. j = [i EXCEPT !.typed["ps2"] = t] /\ t \in Seq(Ps2Keys)
      BY <1>2 DEF InpRecords, Remember
    <2> HIDE DEF t, j
    <2> QED
      BY <2>1 DEF InpRecords, SameUart
  <1>3. ASSUME i.muddled.uart
        PROVE  /\ k \in InpRecords /\ SamePs2(i, k) /\ k.muddled = i.muddled /\ k.got = i.got
               /\ k.typed.uart = i.typed.uart /\ k.count = i.count
               /\ k.uart = i.uart /\ k.wire = i.wire /\ k.esc_state = i.esc_state
    <2> DEFINE q == i.since.uart + 1
    <2>1. k = [i EXCEPT !.since["uart"] = q] /\ q \in Nat
      BY <1>3 DEF InpRecords, Remember
    <2> HIDE DEF q, k
    <2> QED
      BY <2>1 DEF InpRecords, SamePs2
  <1>4. ASSUME ~i.muddled.uart, x \in UartKeys
        PROVE  /\ k \in InpRecords /\ SamePs2(i, k) /\ k.muddled = i.muddled /\ k.got = i.got
               /\ k.typed.uart = u /\ k.count = i.count
               /\ k.uart = i.uart /\ k.wire = i.wire /\ k.esc_state = i.esc_state
    <2>1. k = [i EXCEPT !.typed["uart"] = u] /\ u \in Seq(UartKeys)
      BY <1>4 DEF InpRecords, Remember
    <2> HIDE DEF u, k
    <2> QED
      BY <2>1 DEF InpRecords, SamePs2
  <1> QED
    BY <1>1, <1>2, <1>3, <1>4

\* A key is typed on the PS/2 keyboard.
LEMMA TypePs2Keeps ==
    ASSUME InpInv(inp), NEW k \in Typed, Type(k), k.from = "ps2"
    PROVE  InpInv(inp')
  <1> DEFINE item == [key |-> k.key, down |-> k.down]  c == Ps2Bytes(k.key, k.down)
             i == Remember(inp, "ps2", item)  w == i.ps2_wire \o c  n == i.count + 1
  <1>1. inp \in InpRecords /\ Ps2Of(inp) /\ UartOf(inp)
    BY DEF InpInv
  <1>2. item \in Ps2Keys
    BY DEF Ps2Keys, KeysOf
  <1>3. c \in Seq(Nat) /\ c = Ps2Bytes(item.key, item.down)
    BY <1>2, Ps2CodeIs DEF ReadAs
  <1>4. inp' = OnPs2Wire(i, n, w)
    BY DEF Type, OnPs2Wire
  <1> HIDE DEF item, c
  <1>5. /\ i \in InpRecords /\ SameUart(inp, i) /\ i.muddled = inp.muddled /\ i.got = inp.got
        /\ i.typed.ps2 = (IF inp.muddled.ps2 THEN inp.typed.ps2 ELSE Append(inp.typed.ps2, item))
        /\ i.ps2 = inp.ps2 /\ i.ps2_wire = inp.ps2_wire
        /\ i.ps2_extended = inp.ps2_extended /\ i.ps2_released = inp.ps2_released
    BY <1>1, <1>2, RememberIs
  <1> HIDE DEF i
  <1>6. /\ inp.ps2 \in Seq(Nat) /\ inp.ps2_wire \in Seq(Nat) /\ inp.ps2 \o inp.ps2_wire \in Seq(Nat)
        /\ inp.typed.ps2 \in Seq(Ps2Keys) /\ inp.got.ps2 \in Seq(Ps2Keys) /\ n \in Nat /\ w \in Seq(Nat)
    BY <1>1, <1>3, <1>5 DEF InpRecords
  <1> HIDE DEF w, n
  <1>7. /\ inp' \in InpRecords /\ SameUart(i, inp') /\ inp'.muddled = i.muddled /\ inp'.typed = i.typed /\ inp'.got = i.got
        /\ inp'.ps2 = i.ps2 /\ inp'.ps2_wire = w /\ inp'.ps2_extended = i.ps2_extended /\ inp'.ps2_released = i.ps2_released
    BY <1>4, <1>5, <1>6, ToPs2Wire
  <1>8. Ps2Of(inp')
    <2>1. CASE inp.muddled.ps2
      BY <1>1, <1>5, <1>7, <2>1 DEF Ps2Of
    <2>2. CASE ~inp.muddled.ps2
      <3> DEFINE ty == Append(inp.typed.ps2, item)
      <3>1. Ps2State(inp.typed.ps2, inp.got.ps2, inp.ps2 \o inp.ps2_wire, inp.ps2_extended, inp.ps2_released)
        BY <1>1, <2>2 DEF Ps2Of
      <3>2. Ps2State(ty, inp.got.ps2, (inp.ps2 \o inp.ps2_wire) \o c, inp.ps2_extended, inp.ps2_released)
        BY <1>2, <1>3, <1>6, <3>1, Ps2Typed
      <3>3. (inp.ps2 \o inp.ps2_wire) \o c = inp.ps2 \o w
        <4>1. w = inp.ps2_wire \o c
          BY <1>5 DEF w
        <4>2. inp.ps2 \in Seq(Nat) /\ inp.ps2_wire \in Seq(Nat) /\ c \in Seq(Nat)
          BY <1>3, <1>6
        <4> HIDE DEF w
        <4>3. (inp.ps2 \o inp.ps2_wire) \o c = inp.ps2 \o (inp.ps2_wire \o c)
          BY <4>2, JoinBytes
        <4> QED
          BY <4>1, <4>3
      <3> HIDE DEF ty
      <3>4. inp'.typed.ps2 = ty
        BY <1>5, <1>7, <2>2 DEF ty
      <3> QED
        BY <1>5, <1>7, <2>2, <3>2, <3>3, <3>4 DEF Ps2Of
    <2> QED
      BY <2>1, <2>2
  <1>9. UartOf(inp')
    BY <1>1, <1>5, <1>7, SameKept
  <1> QED
    BY <1>7, <1>8, <1>9 DEF InpInv

\* A key is typed on the terminal; an escape muddles it.
LEMMA TypeUartKeeps ==
    ASSUME InpInv(inp), NEW k \in Typed, Type(k), k.from = "uart"
    PROVE  InpInv(inp')
  <1> DEFINE item == [key |-> k.key, down |-> k.down]  c == TerminalBytes(k.key)
             i == IF k.key = "ESCAPE" THEN Muddle(inp, "uart") ELSE Remember(inp, "uart", item)
             w == i.wire \o c  n == i.count + 1
  <1>1. inp \in InpRecords /\ Ps2Of(inp) /\ UartOf(inp)
    BY DEF InpInv
  <1>2. k.key # "ESCAPE" => item \in UartKeys
    BY DEF UartKeys, KeysOf
  <1>3. c \in Seq(UartChars) /\ c = TerminalBytes(item.key)
    <2>1. CASE k.key # "ESCAPE"
      BY <1>2, <2>1, UartCodeIs
    <2>2. CASE k.key = "ESCAPE"
      <3>1. \A ch \in ArrowEnds : Arrow(ch) # "ESCAPE"
        BY DEF Arrow, ArrowEnds
      <3>2. c = <<"ESC">>
        BY <2>2, <3>1 DEF TerminalBytes
      <3>3. "ESC" \in UartChars
        BY DEF UartChars
      <3> HIDE DEF c
      <3>4. c \in Seq(UartChars)
        BY <3>2, <3>3
      <3> QED
        BY <3>4 DEF c
    <2> QED
      BY <2>1, <2>2
  <1>4. inp' = OnUartWire(i, n, w)
    BY DEF Type, OnUartWire
  <1> HIDE DEF item, c
  <1>5. ASSUME k.key = "ESCAPE"
        PROVE  i \in InpRecords /\ SamePs2(inp, i) /\ UartOf(i) /\ i.muddled.uart = TRUE
    BY <1>1, <1>5, MuddleIs
  <1>6. ASSUME k.key # "ESCAPE"
        PROVE  /\ i \in InpRecords /\ SamePs2(inp, i) /\ i.muddled = inp.muddled /\ i.got = inp.got
               /\ i.typed.uart = (IF inp.muddled.uart THEN inp.typed.uart ELSE Append(inp.typed.uart, item))
               /\ i.uart = inp.uart /\ i.wire = inp.wire /\ i.esc_state = inp.esc_state
    BY <1>1, <1>2, <1>6, RememberIs
  <1> HIDE DEF i
  <1>7. /\ inp.uart \in Seq(UartChars) /\ inp.wire \in Seq(UartChars) /\ inp.uart \o inp.wire \in Seq(UartChars)
        /\ inp.typed.uart \in Seq(UartKeys) /\ inp.got.uart \in Seq(UartKeys) /\ inp.esc_state \in Nat
        /\ i \in InpRecords /\ n \in Nat /\ w \in Seq(UartChars)
    <2>1. i \in InpRecords
      BY <1>5, <1>6
    <2>2. i.count \in Nat /\ i.wire \in Seq(UartChars)
      BY <2>1 DEF InpRecords
    <2>3. n \in Nat /\ w \in Seq(UartChars)
      BY <1>3, <2>2
    <2>4. /\ inp.uart \in Seq(UartChars) /\ inp.wire \in Seq(UartChars) /\ inp.uart \o inp.wire \in Seq(UartChars)
          /\ inp.typed.uart \in Seq(UartKeys) /\ inp.got.uart \in Seq(UartKeys) /\ inp.esc_state \in Nat
      BY <1>1 DEF InpRecords
    <2> QED
      BY <2>1, <2>3, <2>4
  <1> HIDE DEF w, n
  <1>8. /\ inp' \in InpRecords /\ SamePs2(i, inp') /\ inp'.muddled = i.muddled /\ inp'.typed = i.typed /\ inp'.got = i.got
        /\ inp'.uart = i.uart /\ inp'.wire = w /\ inp'.esc_state = i.esc_state
    BY <1>4, <1>7, ToUartWire
  <1>9. UartOf(inp')
    <2>1. CASE k.key = "ESCAPE"
      BY <1>5, <1>8, <2>1 DEF UartOf
    <2>2. CASE k.key # "ESCAPE" /\ inp.muddled.uart
      BY <1>1, <1>6, <1>8, <2>2 DEF UartOf
    <2>3. CASE k.key # "ESCAPE" /\ ~inp.muddled.uart
      <3> DEFINE ty == Append(inp.typed.uart, item)
      <3>1. UartState(inp.typed.uart, inp.got.uart, inp.uart \o inp.wire, inp.esc_state)
        BY <1>1, <2>3 DEF UartOf
      <3>2. UartState(ty, inp.got.uart, (inp.uart \o inp.wire) \o c, inp.esc_state)
        BY <1>2, <1>3, <1>7, <2>3, <3>1, UartTyped
      <3>3. (inp.uart \o inp.wire) \o c = inp.uart \o w
        <4>1. w = inp.wire \o c
          BY <1>6, <2>3 DEF w
        <4>2. inp.uart \in Seq(UartChars) /\ inp.wire \in Seq(UartChars) /\ c \in Seq(UartChars)
          BY <1>3, <1>7
        <4>3. \A x, y, z \in Seq(UartChars) : (x \o y) \o z = x \o (y \o z)
          BY JoinAssociates
        <4>4. (inp.uart \o inp.wire) \o c = inp.uart \o (inp.wire \o c)
          BY <4>2, <4>3
        <4> QED
          BY <4>1, <4>4
      <3> HIDE DEF ty
      <3>4. inp'.typed.uart = ty
        BY <1>6, <1>8, <2>3 DEF ty
      <3> QED
        BY <1>6, <1>8, <2>3, <3>2, <3>3, <3>4 DEF UartOf
    <2> QED
      BY <2>1, <2>2, <2>3
  <1>10. Ps2Of(inp')
    BY <1>1, <1>5, <1>6, <1>8, SameKept
  <1> QED
    BY <1>8, <1>9, <1>10 DEF InpInv

Ps2Came(i, q, p) == [i EXCEPT !.ps2_wire = p, !.ps2 = q]
UartCame(i, q, u) == [i EXCEPT !.wire = u, !.uart = q]

\* Bytes move from the wire of the PS/2 keyboard into its FIFO.
LEMMA Ps2CameIs ==
    ASSUME NEW i \in InpRecords, NEW q \in Seq(Nat), NEW p \in Seq(Nat)
    PROVE  LET a == Ps2Came(i, q, p)
           IN /\ a \in InpRecords /\ SameUart(i, a) /\ a.muddled = i.muddled /\ a.typed = i.typed /\ a.got = i.got
              /\ a.ps2 = q /\ a.ps2_wire = p /\ a.ps2_extended = i.ps2_extended /\ a.ps2_released = i.ps2_released
  BY DEF InpRecords, SameUart, Ps2Came

\* Characters move from the wire of the terminal into the FIFO of the UART.
LEMMA UartCameIs ==
    ASSUME NEW i \in InpRecords, NEW q \in Seq(UartChars), NEW u \in Seq(UartChars)
    PROVE  LET a == UartCame(i, q, u)
           IN /\ a \in InpRecords /\ SamePs2(i, a) /\ a.muddled = i.muddled /\ a.typed = i.typed /\ a.got = i.got
              /\ a.uart = q /\ a.wire = u /\ a.esc_state = i.esc_state
  BY DEF InpRecords, SamePs2, UartCame

\* A byte of the PS/2 keyboard arrives, and may be dropped.
LEMMA Ps2ReceivesKeeps ==
    ASSUME InpInv(inp), Ps2Receives
    PROVE  InpInv(inp')
  <1> DEFINE q == Append(inp.ps2, Head(inp.ps2_wire))  p == Tail(inp.ps2_wire)  m == Muddle(inp, "ps2")
  <1>1. inp \in InpRecords /\ Ps2Of(inp) /\ UartOf(inp) /\ inp.ps2_wire # <<>>
    BY DEF InpInv, Ps2Receives
  <1>2. inp.ps2 \in Seq(Nat) /\ inp.ps2_wire \in Seq(Nat) /\ Head(inp.ps2_wire) = inp.ps2_wire[1]
    BY <1>1 DEF InpRecords
  <1>3. q \o p = inp.ps2 \o inp.ps2_wire
    <2>1. inp.ps2 \o inp.ps2_wire = Append(inp.ps2, inp.ps2_wire[1]) \o Tail(inp.ps2_wire)
      BY <1>1, <1>2, JoinMoves
    <2> QED
      BY <1>2, <2>1
  <1>4. q \in Seq(Nat) /\ p \in Seq(Nat)
    BY <1>1, <1>2
  <1>5. m \in InpRecords /\ SameUart(inp, m) /\ Ps2Of(m) /\ m.muddled.ps2 = TRUE /\ m.ps2 = inp.ps2 /\ m.ps2_wire = inp.ps2_wire
    BY <1>1, MuddleIs
  <1> HIDE DEF q, p, m
  <1>6. CASE Len(inp.ps2) < Ps2Depth
    <2>1. inp' = Ps2Came(inp, q, p)
      BY <1>6 DEF Ps2Receives, Ps2Came, q, p
    <2>2. /\ inp' \in InpRecords /\ SameUart(inp, inp') /\ inp'.muddled = inp.muddled /\ inp'.typed = inp.typed /\ inp'.got = inp.got
          /\ inp'.ps2 = q /\ inp'.ps2_wire = p /\ inp'.ps2_extended = inp.ps2_extended /\ inp'.ps2_released = inp.ps2_released
      BY <1>1, <1>4, <2>1, Ps2CameIs
    <2>3. Ps2Of(inp')
      BY <1>1, <1>3, <2>2 DEF Ps2Of
    <2> QED
      BY <1>1, <2>2, <2>3, SameKept DEF InpInv
  <1>7. CASE ~(Len(inp.ps2) < Ps2Depth)
    <2>1. m = [m EXCEPT !.ps2 = inp.ps2]
      BY <1>5 DEF InpRecords
    <2>2. inp' = [m EXCEPT !.ps2_wire = Tail(@)]
      BY <1>7 DEF Ps2Receives, m
    <2>3. inp' = Ps2Came(m, inp.ps2, p)
      BY <1>5, <2>2 DEF Ps2Came, InpRecords, p
    <2>4. /\ inp' \in InpRecords /\ SameUart(m, inp') /\ inp'.muddled = m.muddled /\ inp'.typed = m.typed /\ inp'.got = m.got
      <3>1. m \in InpRecords /\ inp.ps2 \in Seq(Nat) /\ p \in Seq(Nat)
        BY <1>2, <1>4, <1>5
      <3> QED
        BY <2>3, <3>1, Ps2CameIs
    <2>5. Ps2Of(inp')
      BY <1>5, <2>4 DEF Ps2Of
    <2> QED
      BY <1>1, <1>5, <2>4, <2>5, SameKept DEF InpInv
  <1> QED
    BY <1>6, <1>7

\* The oldest of a full queue is written over.
LEMMA Overwritten ==
    ASSUME NEW s \in Seq(UartChars), NEW x \in UartChars
    PROVE  [s EXCEPT ![1] = x] \in Seq(UartChars)
  <1> DEFINE n == Len(s)  o == [s EXCEPT ![1] = x]
  <1>1. n \in Nat /\ DOMAIN s = 1 .. n /\ \A j \in 1 .. n : s[j] \in UartChars
    OBVIOUS
  <1>2. o = [j \in 1 .. n |-> IF j = 1 THEN x ELSE s[j]]
    BY <1>1
  <1> HIDE DEF o, n
  <1>3. \A j \in 1 .. n : o[j] \in UartChars
    BY <1>1, <1>2
  <1>4. o = [j \in 1 .. n |-> o[j]]
    BY <1>2
  <1>5. [j \in 1 .. n |-> o[j]] \in Seq(UartChars)
    BY <1>1, <1>3
  <1> QED
    BY <1>4, <1>5 DEF o

\* A character of the terminal arrives, and may be written over another.
LEMMA UartReceivesKeeps ==
    ASSUME InpInv(inp), UartReceives
    PROVE  InpInv(inp')
  <1> DEFINE h == Head(inp.wire)  q == Append(inp.uart, h)  u == Tail(inp.wire)  m == Muddle(inp, "uart")
             over == [inp.uart EXCEPT ![1] = h]
  <1>1. inp \in InpRecords /\ Ps2Of(inp) /\ UartOf(inp) /\ inp.wire # <<>>
    BY DEF InpInv, UartReceives
  <1>2. inp.uart \in Seq(UartChars) /\ inp.wire \in Seq(UartChars) /\ h = inp.wire[1] /\ h \in UartChars
    BY <1>1 DEF InpRecords
  <1>3. q \o u = inp.uart \o inp.wire
    <2>1. inp.uart \o inp.wire = Append(inp.uart, inp.wire[1]) \o Tail(inp.wire)
      BY <1>1, <1>2, JoinMoves
    <2> QED
      BY <1>2, <2>1
  <1>4. q \in Seq(UartChars) /\ u \in Seq(UartChars) /\ over \in Seq(UartChars)
    <2>1. over \in Seq(UartChars)
      BY <1>2, Overwritten
    <2> QED
      BY <1>1, <1>2, <2>1
  <1>5. m \in InpRecords /\ SamePs2(inp, m) /\ UartOf(m) /\ m.muddled.uart = TRUE /\ m.uart = inp.uart /\ m.wire = inp.wire
    BY <1>1, MuddleIs
  <1> HIDE DEF h, q, u, m, over
  <1>6. CASE Len(inp.uart) < UartDepth
    <2>1. inp' = UartCame(inp, q, u)
      BY <1>6 DEF UartReceives, UartCame, h, q, u
    <2>2. /\ inp' \in InpRecords /\ SamePs2(inp, inp') /\ inp'.muddled = inp.muddled /\ inp'.typed = inp.typed /\ inp'.got = inp.got
          /\ inp'.uart = q /\ inp'.wire = u /\ inp'.esc_state = inp.esc_state
      <3>1. inp \in InpRecords /\ q \in Seq(UartChars) /\ u \in Seq(UartChars)
        BY <1>1, <1>4
      <3> QED
        BY <2>1, <3>1, UartCameIs
    <2>3. UartOf(inp')
      BY <1>1, <1>3, <2>2 DEF UartOf
    <2> QED
      BY <1>1, <2>2, <2>3, SameKept DEF InpInv
  <1>7. CASE ~(Len(inp.uart) < UartDepth)
    <2>1. inp' = [m EXCEPT !.wire = Tail(@), !.uart[1] = h]
      BY <1>7 DEF UartReceives, m, h
    <2>2. inp' = UartCame(m, over, u)
      BY <1>5, <2>1 DEF UartCame, InpRecords, u, over
    <2>3. inp' \in InpRecords /\ SamePs2(m, inp') /\ inp'.muddled = m.muddled /\ inp'.typed = m.typed /\ inp'.got = m.got
      <3>1. m \in InpRecords /\ over \in Seq(UartChars) /\ u \in Seq(UartChars)
        BY <1>4, <1>5
      <3> QED
        BY <2>2, <3>1, UartCameIs
    <2>4. UartOf(inp')
      BY <1>5, <2>3 DEF UartOf
    <2> QED
      BY <1>1, <1>5, <2>3, <2>4, SameKept DEF InpInv
  <1> QED
    BY <1>6, <1>7

\* A driver that has read everything of a keyboard and expects no more bytes
\* of a key: the history of it starts anew.
LEMMA SettleKeeps ==
    ASSUME NEW i, InpInv(i)
    PROVE  InpInv(Settle(i, "ps2", Ps2AtRest(i))) /\ InpInv(Settle(i, "uart", UartAtRest(i)))
  <1>1. i \in InpRecords /\ Ps2Of(i) /\ UartOf(i)
    BY DEF InpInv
  <1>2. <<>> \o <<>> = <<>>
    OBVIOUS
  <1> DEFINE p == Settle(i, "ps2", Ps2AtRest(i))  u == Settle(i, "uart", UartAtRest(i))
  <1>3. ASSUME Ps2AtRest(i) PROVE InpInv(p)
    <2>1. p = [i EXCEPT !.muddled["ps2"] = FALSE, !.since["ps2"] = 0]
      BY <1>3 DEF Settle
    <2> HIDE DEF p
    <2>2. /\ p \in InpRecords /\ SameUart(i, p) /\ p.muddled.ps2 = FALSE /\ p.typed = i.typed /\ p.got = i.got
          /\ p.ps2 = i.ps2 /\ p.ps2_wire = i.ps2_wire /\ p.ps2_extended = i.ps2_extended /\ p.ps2_released = i.ps2_released
      BY <1>1, <2>1 DEF InpRecords, SameUart
    <2>3. p.ps2 = <<>> /\ p.ps2_wire = <<>> /\ p.ps2_extended = FALSE /\ p.ps2_released = FALSE
      BY <1>1, <1>3, <2>2 DEF Ps2AtRest, InpRecords
    <2>4. Ps2Of(p)
      <3>1. CASE i.muddled.ps2
        BY <1>1, <1>2, <2>2, <2>3, <3>1, NothingTyped DEF Ps2Of
      <3>2. CASE ~i.muddled.ps2
        BY <1>1, <2>2, <3>2 DEF Ps2Of
      <3> QED
        BY <3>1, <3>2
    <2> QED
      BY <1>1, <2>2, <2>4, SameKept DEF InpInv
  <1>4. ASSUME UartAtRest(i) PROVE InpInv(u)
    <2>1. u = [i EXCEPT !.muddled["uart"] = FALSE, !.since["uart"] = 0]
      BY <1>4 DEF Settle
    <2> HIDE DEF u
    <2>2. /\ u \in InpRecords /\ SamePs2(i, u) /\ u.muddled.uart = FALSE /\ u.typed = i.typed /\ u.got = i.got
          /\ u.uart = i.uart /\ u.wire = i.wire /\ u.esc_state = i.esc_state
      BY <1>1, <2>1 DEF InpRecords, SamePs2
    <2>3. u.uart = <<>> /\ u.wire = <<>> /\ u.esc_state = 0
      BY <1>4, <2>2 DEF UartAtRest
    <2>4. UartOf(u)
      <3>1. CASE i.muddled.uart
        BY <1>1, <1>2, <2>2, <2>3, <3>1, NothingTyped DEF UartOf
      <3>2. CASE ~i.muddled.uart
        BY <1>1, <2>2, <3>2 DEF UartOf
      <3> QED
        BY <3>1, <3>2
    <2> QED
      BY <1>1, <2>2, <2>4, SameKept DEF InpInv
  <1>5. (~Ps2AtRest(i) => p = i) /\ (~UartAtRest(i) => u = i)
    BY DEF Settle
  <1> QED
    BY <1>3, <1>4, <1>5

Ps2Reads(i, q, e, r) == [i EXCEPT !.ps2 = q, !.ps2_extended = e, !.ps2_released = r]
UartReads(i, q, e) == [i EXCEPT !.uart = q, !.esc_state = e]

\* The driver reads a byte of the PS/2 keyboard.
LEMMA Ps2ReadsIs ==
    ASSUME NEW i \in InpRecords, NEW q \in Seq(Nat), NEW e \in BOOLEAN, NEW r \in BOOLEAN
    PROVE  LET a == Ps2Reads(i, q, e, r)
           IN /\ a \in InpRecords /\ SameUart(i, a) /\ a.muddled = i.muddled /\ a.typed = i.typed /\ a.got = i.got
              /\ a.ps2 = q /\ a.ps2_wire = i.ps2_wire /\ a.ps2_extended = e /\ a.ps2_released = r
  BY DEF InpRecords, SameUart, Ps2Reads

\* It reads a character of the terminal.
LEMMA UartReadsIs ==
    ASSUME NEW i \in InpRecords, NEW q \in Seq(UartChars), NEW e \in {0, 1, 2}
    PROVE  LET a == UartReads(i, q, e)
           IN /\ a \in InpRecords /\ SamePs2(i, a) /\ a.muddled = i.muddled /\ a.typed = i.typed /\ a.got = i.got
              /\ a.uart = q /\ a.wire = i.wire /\ a.esc_state = e
  BY DEF InpRecords, SamePs2, UartReads

\* It reports a key of the PS/2 keyboard, unless that is muddled.
LEMMA ReportPs2Is ==
    ASSUME NEW i \in InpRecords, NEW kk, NEW down
    PROVE  LET x == [key |-> kk, down |-> down]  j == Report(i, "ps2", kk, down) IN
           /\ i.muddled.ps2 => j = i
           /\ ~i.muddled.ps2 /\ x \in Ps2Keys =>
                 /\ j \in InpRecords /\ SameUart(i, j) /\ j.muddled = i.muddled /\ j.typed = i.typed
                 /\ j.got.ps2 = Append(i.got.ps2, x) /\ j.ps2 = i.ps2 /\ j.ps2_wire = i.ps2_wire
                 /\ j.ps2_extended = i.ps2_extended /\ j.ps2_released = i.ps2_released
  <1> DEFINE x == [key |-> kk, down |-> down]  j == Report(i, "ps2", kk, down)  t == Append(i.got.ps2, x)
  <1>1. i.muddled.ps2 => j = i
    BY DEF Report
  <1>2. ASSUME ~i.muddled.ps2, x \in Ps2Keys
        PROVE  /\ j \in InpRecords /\ SameUart(i, j) /\ j.muddled = i.muddled /\ j.typed = i.typed
               /\ j.got.ps2 = t /\ j.ps2 = i.ps2 /\ j.ps2_wire = i.ps2_wire
               /\ j.ps2_extended = i.ps2_extended /\ j.ps2_released = i.ps2_released
    <2> HIDE DEF x
    <2>1. j = [i EXCEPT !.got["ps2"] = t] /\ t \in Seq(Ps2Keys)
      BY <1>2 DEF InpRecords, Report, x
    <2> HIDE DEF t, j
    <2> QED
      BY <2>1 DEF InpRecords, SameUart
  <1> QED
    BY <1>1, <1>2

Reported(i, kk) == Report(i, "uart", kk, TRUE)

\* It reports a key of the terminal, unless that is muddled.
LEMMA ReportUartIs ==
    ASSUME NEW i \in InpRecords, NEW kk
    PROVE  LET x == [key |-> kk, down |-> TRUE]  j == Reported(i, kk) IN
           /\ i.muddled.uart => j = i
           /\ ~i.muddled.uart /\ x \in UartKeys =>
                 /\ j \in InpRecords /\ SamePs2(i, j) /\ j.muddled = i.muddled /\ j.typed = i.typed
                 /\ j.got.uart = Append(i.got.uart, x) /\ j.uart = i.uart /\ j.wire = i.wire /\ j.esc_state = i.esc_state
  <1> DEFINE x == [key |-> kk, down |-> TRUE]  j == Reported(i, kk)  u == Append(i.got.uart, x)
  <1>1. i.muddled.uart => j = i
    BY DEF Report, Reported
  <1>2. ASSUME ~i.muddled.uart, x \in UartKeys
        PROVE  /\ j \in InpRecords /\ SamePs2(i, j) /\ j.muddled = i.muddled /\ j.typed = i.typed
               /\ j.got.uart = u /\ j.uart = i.uart /\ j.wire = i.wire /\ j.esc_state = i.esc_state
    <2> HIDE DEF x
    <2>1. j = [i EXCEPT !.got["uart"] = u] /\ u \in Seq(UartKeys)
      BY <1>2 DEF InpRecords, Report, Reported, x
    <2> HIDE DEF u, j
    <2> QED
      BY <2>1 DEF InpRecords, SamePs2
  <1> QED
    BY <1>1, <1>2

\* The driver's writes, one after the other.
LEMMA ReadsInOrder ==
    ASSUME NEW i \in InpRecords, NEW q
    PROVE  /\ Ps2Reads(i, q, TRUE, i.ps2_released) = [[i EXCEPT !.ps2 = q] EXCEPT !.ps2_extended = TRUE]
           /\ Ps2Reads(i, q, i.ps2_extended, TRUE) = [[i EXCEPT !.ps2 = q] EXCEPT !.ps2_released = TRUE]
           /\ Ps2Reads(i, q, FALSE, FALSE) = [[i EXCEPT !.ps2 = q] EXCEPT !.ps2_extended = FALSE, !.ps2_released = FALSE]
           /\ UartReads(i, q, 0) = [[i EXCEPT !.uart = q] EXCEPT !.esc_state = 0]
           /\ UartReads(i, q, 1) = [[i EXCEPT !.uart = q] EXCEPT !.esc_state = 1]
           /\ UartReads(i, q, 2) = [[i EXCEPT !.uart = q] EXCEPT !.esc_state = 2]
           /\ i.esc_state = 0 => UartReads(i, q, 0) = [i EXCEPT !.uart = q]
  <1>1. Ps2Reads(i, q, TRUE, i.ps2_released) = [[i EXCEPT !.ps2 = q] EXCEPT !.ps2_extended = TRUE]
    BY DEF InpRecords, Ps2Reads
  <1>2. Ps2Reads(i, q, i.ps2_extended, TRUE) = [[i EXCEPT !.ps2 = q] EXCEPT !.ps2_released = TRUE]
    BY DEF InpRecords, Ps2Reads
  <1>3. Ps2Reads(i, q, FALSE, FALSE) = [[i EXCEPT !.ps2 = q] EXCEPT !.ps2_extended = FALSE, !.ps2_released = FALSE]
    BY DEF InpRecords, Ps2Reads
  <1>4. ASSUME NEW e PROVE UartReads(i, q, e) = [[i EXCEPT !.uart = q] EXCEPT !.esc_state = e]
    BY DEF InpRecords, UartReads
  <1>5. i.esc_state = 0 => UartReads(i, q, 0) = [i EXCEPT !.uart = q]
    BY DEF InpRecords, UartReads
  <1> QED
    BY <1>1, <1>2, <1>3, <1>4, <1>5

\* The first of joined bytes.
LEMMA JoinHeadBytes ==
    ASSUME NEW a \in Seq(Nat), NEW b \in Seq(Nat), a # <<>>
    PROVE  a \o b \in Seq(Nat) /\ a \o b # <<>> /\ Head(a \o b) = Head(a) /\ Tail(a \o b) = Tail(a) \o b
  <1>1. \A S : \A x, y \in Seq(S) :
            x # <<>> => x \o y \in Seq(S) /\ x \o y # <<>> /\ Head(x \o y) = Head(x) /\ Tail(x \o y) = Tail(x) \o y
    BY JoinHead
  <1> QED
    BY <1>1, Zenon

\* A byte of the PS/2 keyboard is read.
LEMMA PollPs2Keeps ==
    ASSUME NEW i, InpInv(i), i.ps2 # <<>>
    PROVE  InpInv(PollPs2(i))
  <1> DEFINE b == Head(i.ps2)  w == Tail(i.ps2)  item == KeyRead(b, i.ps2_extended, i.ps2_released)
             j == PollPs2(i)  z == Ps2Reads(i, w, FALSE, FALSE)
  <1>1. i \in InpRecords /\ Ps2Of(i) /\ UartOf(i)
    BY DEF InpInv
  <1>2. /\ i.ps2 \in Seq(Nat) /\ i.ps2_wire \in Seq(Nat) /\ w \in Seq(Nat)
        /\ i.ps2_extended \in BOOLEAN /\ i.ps2_released \in BOOLEAN
    BY <1>1 DEF InpRecords
  <1>3. ASSUME ~i.muddled.ps2
        PROVE  /\ b = 224 => Ps2State(i.typed.ps2, i.got.ps2, w \o i.ps2_wire, TRUE, i.ps2_released)
               /\ b = 240 => Ps2State(i.typed.ps2, i.got.ps2, w \o i.ps2_wire, i.ps2_extended, TRUE)
               /\ b \notin {224, 240} => /\ item \in Ps2Keys
                                         /\ Ps2State(i.typed.ps2, Append(i.got.ps2, item), w \o i.ps2_wire, FALSE, FALSE)
    <2> DEFINE v == i.ps2 \o i.ps2_wire
    <2>1. v \in Seq(Nat) /\ v # <<>> /\ Head(v) = b /\ Tail(v) = w \o i.ps2_wire
      BY <1>2, JoinHeadBytes
    <2>2. /\ i.typed.ps2 \in Seq(Ps2Keys) /\ i.got.ps2 \in Seq(Ps2Keys)
          /\ Ps2State(i.typed.ps2, i.got.ps2, v, i.ps2_extended, i.ps2_released)
      BY <1>1, <1>3 DEF Ps2Of, InpRecords
    <2> HIDE DEF v
    <2>3. LET k == KeyRead(Head(v), i.ps2_extended, i.ps2_released) IN
          /\ Head(v) = 224 => Ps2State(i.typed.ps2, i.got.ps2, Tail(v), TRUE, i.ps2_released)
          /\ Head(v) = 240 => Ps2State(i.typed.ps2, i.got.ps2, Tail(v), i.ps2_extended, TRUE)
          /\ Head(v) \notin {224, 240} =>
                k \in Ps2Keys /\ Ps2State(i.typed.ps2, Append(i.got.ps2, k), Tail(v), FALSE, FALSE)
      BY <2>1, <2>2, Ps2Polled
    <2>4. Head(v) = b /\ Tail(v) = w \o i.ps2_wire /\ KeyRead(Head(v), i.ps2_extended, i.ps2_released) = item
      BY <2>1
    <2> HIDE DEF item, b, w
    <2>5. ASSUME b = 224 PROVE Ps2State(i.typed.ps2, i.got.ps2, w \o i.ps2_wire, TRUE, i.ps2_released)
      <3>1. Ps2State(i.typed.ps2, i.got.ps2, Tail(v), TRUE, i.ps2_released)
        BY <2>3, <2>4, <2>5, Zenon
      <3> QED
        BY <2>4, <3>1, Zenon
    <2>6. ASSUME b = 240 PROVE Ps2State(i.typed.ps2, i.got.ps2, w \o i.ps2_wire, i.ps2_extended, TRUE)
      <3>1. Ps2State(i.typed.ps2, i.got.ps2, Tail(v), i.ps2_extended, TRUE)
        BY <2>3, <2>4, <2>6, Zenon
      <3> QED
        BY <2>4, <3>1, Zenon
    <2>7. b \notin {224, 240} => /\ item \in Ps2Keys
                               /\ Ps2State(i.typed.ps2, Append(i.got.ps2, item), w \o i.ps2_wire, FALSE, FALSE)
      BY <2>3, <2>4
    <2> QED
      BY <2>5, <2>6, <2>7
  <1>4. ASSUME NEW e \in BOOLEAN, NEW r \in BOOLEAN, j = Ps2Reads(i, w, e, r),
               ~i.muddled.ps2 => Ps2State(i.typed.ps2, i.got.ps2, w \o i.ps2_wire, e, r)
        PROVE  InpInv(j)
    <2> HIDE DEF w, j
    <2>1. /\ j \in InpRecords /\ SameUart(i, j) /\ j.muddled = i.muddled /\ j.typed = i.typed /\ j.got = i.got
          /\ j.ps2 = w /\ j.ps2_wire = i.ps2_wire /\ j.ps2_extended = e /\ j.ps2_released = r
      <3>1. j = Ps2Reads(i, w, e, r) /\ i \in InpRecords /\ w \in Seq(Nat)
        BY <1>1, <1>2, <1>4
      <3> QED
        BY <3>1, Ps2ReadsIs
    <2>2. Ps2Of(j)
      BY <1>1, <1>4, <2>1 DEF Ps2Of
    <2> QED
      BY <1>1, <2>1, <2>2, SameKept DEF InpInv
  <1>5. CASE b = 224
    <2> DEFINE y == Ps2Reads(i, w, TRUE, i.ps2_released)
    <2>1. j = y
      <3>1. y = [[i EXCEPT !.ps2 = w] EXCEPT !.ps2_extended = TRUE]
        BY <1>1, ReadsInOrder
      <3> HIDE DEF y
      <3> QED
        BY <1>5, <3>1 DEF PollPs2
    <2> HIDE DEF j, w, b
    <2>2. ~i.muddled.ps2 => Ps2State(i.typed.ps2, i.got.ps2, w \o i.ps2_wire, TRUE, i.ps2_released)
      BY <1>3, <1>5
    <2>3. TRUE \in BOOLEAN /\ i.ps2_extended \in BOOLEAN /\ i.ps2_released \in BOOLEAN
      BY <1>2
    <2> QED
      BY <1>4, <2>1, <2>2, <2>3, Zenon DEF j
  <1>6. CASE b = 240
    <2> DEFINE y == Ps2Reads(i, w, i.ps2_extended, TRUE)
    <2>1. j = y
      <3>1. y = [[i EXCEPT !.ps2 = w] EXCEPT !.ps2_released = TRUE]
        BY <1>1, ReadsInOrder
      <3> HIDE DEF y
      <3> QED
        BY <1>6, <3>1 DEF PollPs2
    <2> HIDE DEF j, w, b
    <2>2. ~i.muddled.ps2 => Ps2State(i.typed.ps2, i.got.ps2, w \o i.ps2_wire, i.ps2_extended, TRUE)
      BY <1>3, <1>6
    <2>3. TRUE \in BOOLEAN /\ i.ps2_extended \in BOOLEAN /\ i.ps2_released \in BOOLEAN
      BY <1>2
    <2> QED
      BY <1>4, <2>1, <2>2, <2>3, Zenon DEF j
  <1>7. CASE b \notin {224, 240}
    <2>1. j = Report(z, "ps2", key_from_ps2(b, i.ps2_extended), ~i.ps2_released)
      <3>1. z = [[i EXCEPT !.ps2 = w] EXCEPT !.ps2_extended = FALSE, !.ps2_released = FALSE]
        BY <1>1, ReadsInOrder
      <3> QED
        BY <1>7, <3>1 DEF PollPs2
    <2> DEFINE d == ~i.ps2_released  kk == key_from_ps2(b, i.ps2_extended)
    <2>2. item = [key |-> kk, down |-> d] /\ j = Report(z, "ps2", kk, d)
      BY <2>1 DEF KeyRead
    <2> HIDE DEF w, z, item, b, j, d, kk
    <2>3. /\ z \in InpRecords /\ SameUart(i, z) /\ z.muddled = i.muddled /\ z.typed = i.typed /\ z.got = i.got
          /\ z.ps2 = w /\ z.ps2_wire = i.ps2_wire /\ z.ps2_extended = FALSE /\ z.ps2_released = FALSE
      BY <1>1, <1>2, Ps2ReadsIs DEF z
    <2>4. CASE i.muddled.ps2
      <3>1. j = z
        BY <2>2, <2>3, <2>4, ReportPs2Is
      <3>2. Ps2Of(z)
        BY <1>1, <2>3, <2>4 DEF Ps2Of
      <3> QED
        BY <1>1, <2>3, <3>1, <3>2, SameKept DEF InpInv, j
    <2>5. CASE ~i.muddled.ps2
      <3>1. item \in Ps2Keys /\ Ps2State(i.typed.ps2, Append(i.got.ps2, item), w \o i.ps2_wire, FALSE, FALSE)
        BY <1>3, <1>7, <2>5
      <3>2. /\ j \in InpRecords /\ SameUart(z, j) /\ j.muddled = z.muddled /\ j.typed = z.typed
            /\ j.got.ps2 = Append(z.got.ps2, item) /\ j.ps2 = z.ps2 /\ j.ps2_wire = z.ps2_wire
            /\ j.ps2_extended = z.ps2_extended /\ j.ps2_released = z.ps2_released
        BY <2>2, <2>3, <2>5, <3>1, ReportPs2Is
      <3>3. Ps2Of(j)
        BY <2>3, <2>5, <3>1, <3>2 DEF Ps2Of
      <3> QED
        BY <1>1, <2>3, <3>2, <3>3, SameKept DEF InpInv, j
    <2> QED
      BY <2>4, <2>5
  <1> QED
    BY <1>5, <1>6, <1>7

\* A character of the terminal is read.
LEMMA PollUartKeeps ==
    ASSUME NEW i, InpInv(i), i.uart # <<>>
    PROVE  InpInv(PollUart(i))
  <1> DEFINE ch == Head(i.uart)  u == Tail(i.uart)  j == PollUart(i)  v == i.uart \o i.wire
             K(name) == [key |-> name, down |-> TRUE]
             Done(name) == name # "NONE" /\ K(name) \in UartKeys
                          /\ UartState(i.typed.uart, Append(i.got.uart, K(name)), u \o i.wire, 0)
             name == IF i.esc_state = 2 THEN Arrow(ch) ELSE IF i.esc_state = 1 THEN "ESCAPE" ELSE key_from_char(ch)
             z == UartReads(i, u, 0)
  <1>1. i \in InpRecords /\ Ps2Of(i) /\ UartOf(i)
    BY DEF InpInv
  <1>2. i.uart \in Seq(UartChars) /\ i.wire \in Seq(UartChars) /\ u \in Seq(UartChars) /\ i.esc_state \in {0, 1, 2}
    BY <1>1 DEF InpRecords
  <1>3. ASSUME ~i.muddled.uart
        PROVE  /\ i.esc_state = 0 /\ ch = "ESC" => UartState(i.typed.uart, i.got.uart, u \o i.wire, 1)
               /\ i.esc_state = 0 /\ ch # "ESC" => Done(key_from_char(ch))
               /\ i.esc_state = 1 => ch = "[" /\ UartState(i.typed.uart, i.got.uart, u \o i.wire, 2)
               /\ i.esc_state = 2 => Done(Arrow(ch))
    <2>1. v \in Seq(UartChars) /\ v # <<>> /\ Head(v) = ch /\ Tail(v) = u \o i.wire
      BY <1>2, JoinHead
    <2>2. i.typed.uart \in Seq(UartKeys) /\ i.got.uart \in Seq(UartKeys) /\ i.esc_state \in Nat
          /\ UartState(i.typed.uart, i.got.uart, v, i.esc_state)
      BY <1>1, <1>3 DEF InpRecords, UartOf
    <2> HIDE DEF v, ch, u
    <2> QED
      BY <2>1, <2>2, UartPolled
  <1>4. ASSUME NEW st \in {1, 2}, j = UartReads(i, u, st),
               ~i.muddled.uart => UartState(i.typed.uart, i.got.uart, u \o i.wire, st)
        PROVE  InpInv(j)
    <2> HIDE DEF u, j
    <2>1. /\ j \in InpRecords /\ SamePs2(i, j) /\ j.muddled = i.muddled /\ j.typed = i.typed /\ j.got = i.got
          /\ j.uart = u /\ j.wire = i.wire /\ j.esc_state = st
      <3>1. j = UartReads(i, u, st) /\ i \in InpRecords /\ u \in Seq(UartChars) /\ st \in {0, 1, 2}
        BY <1>1, <1>2, <1>4
      <3> QED
        BY <3>1, UartReadsIs
    <2>2. UartOf(j)
      BY <1>1, <1>4, <2>1 DEF UartOf
    <2> QED
      BY <1>1, <2>1, <2>2, SameKept DEF InpInv
  <1>5. ASSUME j = (IF name = "NONE" THEN z ELSE Reported(z, name)), ~i.muddled.uart => Done(name)
        PROVE  InpInv(j)
    <2> HIDE DEF u, j, name, z
    <2>1. /\ z \in InpRecords /\ SamePs2(i, z) /\ z.muddled = i.muddled /\ z.typed = i.typed /\ z.got = i.got
          /\ z.uart = u /\ z.wire = i.wire /\ z.esc_state = 0
      BY <1>1, <1>2, UartReadsIs DEF z
    <2>2. CASE i.muddled.uart
      <3>1. j = z
        BY <1>5, <2>1, <2>2, ReportUartIs
      <3>2. UartOf(z)
        BY <1>1, <2>1, <2>2 DEF UartOf
      <3>3. InpInv(z)
        BY <1>1, <2>1, <3>2, SameKept DEF InpInv
      <3> QED
        BY <3>1, <3>3
    <2>3. CASE ~i.muddled.uart
      <3>1. name # "NONE" /\ K(name) \in UartKeys
            /\ UartState(i.typed.uart, Append(i.got.uart, K(name)), u \o i.wire, 0)
        BY <1>5, <2>3
      <3>2. j = Reported(z, name)
        BY <1>5, <3>1
      <3>3. /\ j \in InpRecords /\ SamePs2(z, j) /\ j.muddled = z.muddled /\ j.typed = z.typed
            /\ j.got.uart = Append(z.got.uart, K(name)) /\ j.uart = z.uart /\ j.wire = z.wire /\ j.esc_state = z.esc_state
        BY <2>1, <2>3, <3>1, <3>2, ReportUartIs
      <3>4. UartOf(j)
        BY <2>1, <2>3, <3>1, <3>3 DEF UartOf
      <3> QED
        BY <1>1, <2>1, <3>3, <3>4, SameKept DEF InpInv
    <2> QED
      BY <2>2, <2>3
  <1>6. z = [[i EXCEPT !.uart = u] EXCEPT !.esc_state = 0]
    BY <1>1, ReadsInOrder
  <1>7. CASE i.esc_state = 0 /\ ch = "ESC"
    <2> DEFINE y == UartReads(i, u, 1)
    <2>1. j = y
      <3>1. y = [[i EXCEPT !.uart = u] EXCEPT !.esc_state = 1]
        BY <1>1, ReadsInOrder
      <3> HIDE DEF y
      <3> QED
        BY <1>7, <3>1 DEF PollUart, Report
    <2> HIDE DEF j, ch, u
    <2>2. ~i.muddled.uart => UartState(i.typed.uart, i.got.uart, u \o i.wire, 1)
      BY <1>3, <1>7
    <2>3. 1 \in {1, 2}
      OBVIOUS
    <2>4. InpInv(j)
      BY <1>4, <2>1, <2>2, <2>3
    <2> QED
      BY <2>4 DEF j
  <1>8. CASE i.esc_state = 0 /\ ch # "ESC"
    <2>1. z = [i EXCEPT !.uart = u]
      BY <1>1, <1>8, ReadsInOrder
    <2>2. name = key_from_char(ch)
      BY <1>8
    <2>3. j = IF name = "NONE" THEN z ELSE Reported(z, name)
      <3> HIDE DEF z, name
      <3> QED
        BY <1>8, <2>1, <2>2 DEF PollUart, Reported
    <2> HIDE DEF j, z, name
    <2> QED
      BY <1>3, <1>5, <1>8, <2>2, <2>3 DEF j, z, name
  <1>9. CASE i.esc_state = 1 /\ ch = "["
    <2> DEFINE y == UartReads(i, u, 2)
    <2>1. j = y
      <3>1. y = [[i EXCEPT !.uart = u] EXCEPT !.esc_state = 2]
        BY <1>1, ReadsInOrder
      <3> HIDE DEF y
      <3> QED
        BY <1>9, <3>1 DEF PollUart, Report
    <2> HIDE DEF j, ch, u
    <2>2. ~i.muddled.uart => UartState(i.typed.uart, i.got.uart, u \o i.wire, 2)
      BY <1>3, <1>9
    <2>3. 2 \in {1, 2}
      OBVIOUS
    <2>4. InpInv(j)
      BY <1>4, <2>1, <2>2, <2>3
    <2> QED
      BY <2>4 DEF j
  <1>10. CASE i.esc_state = 1 /\ ch # "["
    <2>1. name = "ESCAPE"
      BY <1>10
    <2>2. j = IF name = "NONE" THEN z ELSE Reported(z, name)
      <3> HIDE DEF z, name
      <3> QED
        BY <1>6, <1>10, <2>1 DEF PollUart, Reported
    <2>3. i.muddled.uart = TRUE
      BY <1>1, <1>3, <1>10 DEF InpRecords
    <2> HIDE DEF j, z, name
    <2> QED
      BY <1>5, <2>2, <2>3 DEF j, z, name
  <1>11. CASE i.esc_state = 2
    <2>1. name = Arrow(ch)
      BY <1>11
    <2>2. j = IF name = "NONE" THEN z ELSE Reported(z, name)
      <3> HIDE DEF z, name
      <3> QED
        BY <1>6, <1>11, <2>1 DEF PollUart, Reported
    <2> HIDE DEF j, z, name
    <2> QED
      BY <1>3, <1>5, <1>11, <2>1, <2>2 DEF j, z, name
  <1> QED
    BY <1>2, <1>7, <1>8, <1>9, <1>10, <1>11

\* What has been reported is what was typed, as far as it has been read.
LEMMA InpInvReports ==
    ASSUME InpInv(inp)
    PROVE  KeysReported
  <1>1. inp \in InpRecords /\ Ps2Of(inp) /\ UartOf(inp)
    BY DEF InpInv
  <1>2. <<>> \o <<>> = <<>> /\ IsPrefix(<<>>, <<>>)
    BY DEF IsPrefix
  <1>3. /\ IsPrefix(inp.got.ps2, inp.typed.ps2)
        /\ inp.ps2_wire = <<>> /\ inp.ps2 = <<>> => inp.got.ps2 = inp.typed.ps2
    <2> DEFINE g == inp.got.ps2
    <2>1. CASE inp.muddled.ps2
      BY <1>1, <1>2, <2>1 DEF Ps2Of
    <2>2. CASE ~inp.muddled.ps2
      <3>1. g \in Seq(Ps2Keys)
        BY <1>1 DEF InpRecords
      <3>2. PICK r \in Seq(Ps2Keys), off \in Nat :
                Ps2At(inp.typed.ps2, g, inp.ps2 \o inp.ps2_wire, inp.ps2_extended, inp.ps2_released, r, off)
        BY <1>1, <2>2 DEF Ps2Of, Ps2State
      <3> HIDE DEF g
      <3>3. inp.typed.ps2 = g \o r /\ Stream(inp.ps2 \o inp.ps2_wire, Ps2Codes(r), off)
        BY <3>2 DEF Ps2At
      <3>4. ASSUME inp.ps2 = <<>>, inp.ps2_wire = <<>> PROVE r = <<>>
        <4>1. inp.ps2 \o inp.ps2_wire = <<>>
          BY <3>4
        <4> QED
          BY <3>3, <4>1, StreamEnd, Ps2CodesIs
      <3>5. IsPrefix(g, g \o r) /\ (r = <<>> => g = g \o r)
        BY <3>1, JoinPrefix
      <3> QED
        BY <3>3, <3>4, <3>5 DEF g
    <2> QED
      BY <2>1, <2>2
  <1>4. /\ IsPrefix(inp.got.uart, inp.typed.uart)
        /\ inp.wire = <<>> /\ inp.uart = <<>> => inp.got.uart = inp.typed.uart
    <2> DEFINE g == inp.got.uart
    <2>1. CASE inp.muddled.uart
      BY <1>1, <1>2, <2>1 DEF UartOf
    <2>2. CASE ~inp.muddled.uart
      <3>1. g \in Seq(UartKeys) /\ inp.esc_state \in Nat
        BY <1>1 DEF InpRecords
      <3>2. PICK r \in Seq(UartKeys) : UartAt(inp.typed.uart, g, inp.uart \o inp.wire, inp.esc_state, r)
        BY <1>1, <2>2 DEF UartOf, UartState
      <3> HIDE DEF g
      <3>3. inp.typed.uart = g \o r /\ Stream(inp.uart \o inp.wire, UartCodes(r), inp.esc_state)
        BY <3>2 DEF UartAt
      <3>4. ASSUME inp.wire = <<>>, inp.uart = <<>> PROVE r = <<>>
        <4>1. inp.uart \o inp.wire = <<>>
          BY <3>4
        <4> QED
          BY <3>1, <3>3, <4>1, StreamEnd, UartCodesIs
      <3>5. IsPrefix(g, g \o r) /\ (r = <<>> => g = g \o r)
        BY <3>1, JoinPrefix
      <3> QED
        BY <3>3, <3>4, <3>5 DEF g
    <2> QED
      BY <2>1, <2>2
  <1> QED
    BY <1>3, <1>4 DEF KeysReported

\* __am_input_keybrd reports every key of either keyboard, whatever is typed
\* on them, however their bytes arrive and whenever it is called: once, as
\* itself, pressed or released, in order, and all of them when there is
\* nothing left to read.  A byte that finds its FIFO full, of whatever depth,
\* or an escape typed on its own ends that for its keyboard only, and only
\* until the driver has read everything and expects no more.
THEOREM KeysAlwaysReported == inpSpec => []KeysReported
  <1>1. inp = inpInit => InpAsTyped
    BY InpInitially DEF InpAsTyped
  <1>2. InpAsTyped /\ [inpNext]_inp => InpAsTyped'
    <2> SUFFICES ASSUME InpInv(inp), [inpNext]_inp PROVE InpInv(inp')
      BY DEF InpAsTyped
    <2>1. ASSUME NEW k \in Typed, Type(k) PROVE InpInv(inp')
      <3>1. k.from = "ps2" \/ k.from = "uart"
        BY TypedAssumption
      <3> QED
        BY <2>1, <3>1, TypePs2Keeps, TypeUartKeeps
    <2>2. CASE Ps2Receives
      BY <2>2, Ps2ReceivesKeeps
    <2>3. CASE UartReceives
      BY <2>3, UartReceivesKeeps
    <2>4. CASE __am_input_keybrd_soc
      <3>1. CASE inp.ps2 # <<>>
        <4>1. InpInv(PollPs2(inp))
          BY <3>1, PollPs2Keeps
        <4>2. inp' = Settle(PollPs2(inp), "ps2", Ps2AtRest(PollPs2(inp)))
          BY <2>4, <3>1 DEF __am_input_keybrd_soc
        <4> QED
          BY <4>1, <4>2, SettleKeeps
      <3>2. CASE inp.ps2 = <<>>
        <4>1. InpInv(PollUart(inp)) /\ inp.uart # <<>>
          BY <2>4, <3>2, PollUartKeeps DEF __am_input_keybrd_soc
        <4>2. inp' = Settle(PollUart(inp), "uart", UartAtRest(PollUart(inp)))
          BY <2>4, <3>2 DEF __am_input_keybrd_soc
        <4> QED
          BY <4>1, <4>2, SettleKeeps
      <3> QED
        BY <3>1, <3>2
    <2>5. CASE UNCHANGED inp
      BY <2>5
    <2> QED
      BY <2>1, <2>2, <2>3, <2>4, <2>5 DEF inpNext
  <1>3. InpAsTyped => KeysReported
    BY InpInvReports DEF InpAsTyped
  <1> QED
    BY <1>1, <1>2, <1>3, PTL DEF inpSpec
=============================================================================

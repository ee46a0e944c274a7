--------------------------- MODULE NpcSim_proofs ---------------------------
(***************************************************************************)
(* Proofs about NpcSim.                                                    *)
(***************************************************************************)
EXTENDS NpcSim, TLAPS

\* Where in a frame a tick of the receiver is: bit k, tick t.
LEMMA Position ==
    ASSUME NEW n \in Nat \ {0}, NEW k \in Nat, NEW t \in 0..n - 1
    PROVE  (k * n + t) \div n = k /\ (k * n + t) % n = t
  <1> DEFINE a == k * n + t  q == a \div n  r == a % n
  <1>1. k * n \in Nat /\ a \in Nat
    OBVIOUS
  <1>2. q \in Int /\ r \in 0..n - 1 /\ a = n * q + r
    BY <1>1
  <1> HIDE DEF q, r
  <1>3. CASE q < k
    <2>1. n * q + n <= n * k
      BY <1>2, <1>3
    <2> QED
      BY <2>1, <1>2
  <1>4. CASE q > k
    <2>1. n * k + n <= n * q
      BY <1>2, <1>4
    <2> QED
      BY <2>1, <1>2
  <1>5. q = k
    BY <1>2, <1>3, <1>4
  <1>6. r = t
    BY <1>2, <1>5
  <1> QED
    BY <1>5, <1>6 DEF q, r

\* The low bits of a number, with the next one.
LEMMA NextBit ==
    ASSUME NEW n \in Nat \ {0}, NEW ch \in Nat
    PROVE  (ch % n) + (((ch \div n) % 2) * n) = ch % (2 * n)
  <1> DEFINE q == ch \div n  r == ch % n  p == q \div 2  b == q % 2  m == 2 * n
  <1>1. q \in Nat /\ r \in 0..n - 1 /\ ch = n * q + r
    OBVIOUS
  <1>2. p \in Nat /\ b \in 0..1 /\ q = 2 * p + b
    BY <1>1
  <1>3. m \in Nat \ {0} /\ m = 2 * n
    OBVIOUS
  <1> HIDE DEF m, q, r, p, b
  <1>4. n * q = p * m + n * b
    BY <1>2, <1>1, <1>3
  <1>5. n * b \in Nat /\ n * b = b * n /\ (n * b + r) \in 0..m - 1
    BY <1>1, <1>2, <1>3
  <1> DEFINE s == n * b + r
  <1>6. s \in 0..m - 1 /\ ch = p * m + s /\ s = r + b * n
    BY <1>1, <1>2, <1>3, <1>4, <1>5
  <1> HIDE DEF s
  <1>7. (p * m + s) % m = s
    BY <1>6, <1>2, <1>3, Position
  <1>8. ch % m = r + b * n
    BY <1>6, <1>7
  <1> QED
    BY <1>8 DEF q, r, b, m

\* The weights of the bits of a byte.
LEMMA Weights ==
    /\ Weight[1] = 1 /\ Weight[2] = 2 /\ Weight[3] = 4 /\ Weight[4] = 8
    /\ Weight[5] = 16 /\ Weight[6] = 32 /\ Weight[7] = 64 /\ Weight[8] = 128
  BY DEF Weight

\* What a shift makes of the frame.
Shifted(f) == 512 + (f \div 2)

\* A shift of the frame, as drive_uart_rx does it, brings the next bit out.
LEMMA Shifts ==
    ASSUME NEW ch \in 0..255
    PROVE  \A k \in 0..8 : Shifted(FrameAt(k, ch)) = FrameAt(k + 1, ch)
  <1>1. /\ FrameAt(0, ch) = 512 + 2 * ch /\ FrameAt(1, ch) = 768 + ch
        /\ FrameAt(2, ch) = 896 + (ch \div 2) /\ FrameAt(3, ch) = 960 + (ch \div 4)
        /\ FrameAt(4, ch) = 992 + (ch \div 8) /\ FrameAt(5, ch) = 1008 + (ch \div 16)
        /\ FrameAt(6, ch) = 1016 + (ch \div 32) /\ FrameAt(7, ch) = 1020 + (ch \div 64)
        /\ FrameAt(8, ch) = 1022 + (ch \div 128) /\ FrameAt(9, ch) = 1023
    BY DEF FrameAt
  <1>3. 512 + (FrameAt(0, ch) \div 2) = FrameAt(1, ch)
    BY <1>1
  <1>4. 512 + (FrameAt(1, ch) \div 2) = FrameAt(2, ch)
    BY <1>1
  <1>5. 512 + (FrameAt(2, ch) \div 2) = FrameAt(3, ch)
    BY <1>1
  <1>6. 512 + (FrameAt(3, ch) \div 2) = FrameAt(4, ch)
    BY <1>1
  <1>7. 512 + (FrameAt(4, ch) \div 2) = FrameAt(5, ch)
    BY <1>1
  <1>8. 512 + (FrameAt(5, ch) \div 2) = FrameAt(6, ch)
    BY <1>1
  <1>9. 512 + (FrameAt(6, ch) \div 2) = FrameAt(7, ch)
    BY <1>1
  <1>10. 512 + (FrameAt(7, ch) \div 2) = FrameAt(8, ch)
    BY <1>1
  <1>11. 512 + (FrameAt(8, ch) \div 2) = FrameAt(9, ch)
    BY <1>1
  <1>12. \A k \in 0..8 : 512 + (FrameAt(k, ch) \div 2) = FrameAt(k + 1, ch)
    <2> TAKE k \in 0..8
    <2>1. k = 0 \/ k = 1 \/ k = 2 \/ k = 3 \/ k = 4 \/ k = 5 \/ k = 6 \/ k = 7 \/ k = 8
      OBVIOUS
    <2> QED
      BY <2>1, <1>3, <1>4, <1>5, <1>6, <1>7, <1>8, <1>9, <1>10, <1>11
  <1> QED
    BY <1>12 DEF Shifted

\* Adding the bit on the line completes the bits received so far.
LEMMA BitSampled ==
    ASSUME NEW ch \in 0..255
    PROVE  /\ \A k \in 1..8 : LowBits(k - 1, ch) + (FrameAt(k, ch) % 2) * Weight[k] = LowBits(k, ch)
           /\ \A k \in 0..8 : LowBits(k, ch) \in 0..255
           /\ LowBits(0, ch) = 0 /\ LowBits(8, ch) = ch
  <1>1. /\ FrameAt(1, ch) = 768 + ch
        /\ FrameAt(2, ch) = 896 + (ch \div 2) /\ FrameAt(3, ch) = 960 + (ch \div 4)
        /\ FrameAt(4, ch) = 992 + (ch \div 8) /\ FrameAt(5, ch) = 1008 + (ch \div 16)
        /\ FrameAt(6, ch) = 1016 + (ch \div 32) /\ FrameAt(7, ch) = 1020 + (ch \div 64)
        /\ FrameAt(8, ch) = 1022 + (ch \div 128)
    BY DEF FrameAt
  <1>2. /\ LowBits(0, ch) = 0 /\ LowBits(1, ch) = ch % 2 /\ LowBits(2, ch) = ch % 4
        /\ LowBits(3, ch) = ch % 8 /\ LowBits(4, ch) = ch % 16 /\ LowBits(5, ch) = ch % 32
        /\ LowBits(6, ch) = ch % 64 /\ LowBits(7, ch) = ch % 128 /\ LowBits(8, ch) = ch
    BY Weights DEF LowBits
  <1>3. /\ FrameAt(1, ch) % 2 = ch % 2 /\ FrameAt(2, ch) % 2 = (ch \div 2) % 2
        /\ FrameAt(3, ch) % 2 = (ch \div 4) % 2 /\ FrameAt(4, ch) % 2 = (ch \div 8) % 2
    BY <1>1
  <1>4. /\ FrameAt(5, ch) % 2 = (ch \div 16) % 2 /\ FrameAt(6, ch) % 2 = (ch \div 32) % 2
        /\ FrameAt(7, ch) % 2 = (ch \div 64) % 2 /\ FrameAt(8, ch) % 2 = (ch \div 128) % 2
    BY <1>1
  <1>5. /\ (ch % 2) + (((ch \div 2) % 2) * 2) = ch % 4 /\ (ch % 4) + (((ch \div 4) % 2) * 4) = ch % 8
        /\ (ch % 8) + (((ch \div 8) % 2) * 8) = ch % 16 /\ (ch % 16) + (((ch \div 16) % 2) * 16) = ch % 32
        /\ (ch % 32) + (((ch \div 32) % 2) * 32) = ch % 64 /\ (ch % 64) + (((ch \div 64) % 2) * 64) = ch % 128
        /\ (ch % 128) + (((ch \div 128) % 2) * 128) = ch % 256
    <2>1. \A n \in Nat \ {0} : (ch % n) + (((ch \div n) % 2) * n) = ch % (2 * n)
      <3> TAKE n \in Nat \ {0}
      <3>1. ch \in Nat
        OBVIOUS
      <3> QED
        BY <3>1, NextBit, Zenon
    <2>2. (ch % 2) + (((ch \div 2) % 2) * 2) = ch % 4 /\ (ch % 4) + (((ch \div 4) % 2) * 4) = ch % 8
      BY <2>1, 2 * 2 = 4, 2 * 4 = 8
    <2>3. (ch % 8) + (((ch \div 8) % 2) * 8) = ch % 16 /\ (ch % 16) + (((ch \div 16) % 2) * 16) = ch % 32
      BY <2>1, 2 * 8 = 16, 2 * 16 = 32
    <2>4. (ch % 32) + (((ch \div 32) % 2) * 32) = ch % 64 /\ (ch % 64) + (((ch \div 64) % 2) * 64) = ch % 128
      BY <2>1, 2 * 32 = 64, 2 * 64 = 128
    <2>5. (ch % 128) + (((ch \div 128) % 2) * 128) = ch % 256
      BY <2>1, 2 * 128 = 256
    <2> QED
      BY <2>2, <2>3, <2>4, <2>5
  <1>6. ch % 256 = ch /\ \A n \in {2, 4, 8, 16, 32, 64, 128} : ch % n \in 0..255
    OBVIOUS
  <1>11. \A k \in 1..8 : LowBits(k - 1, ch) + (FrameAt(k, ch) % 2) * Weight[k] = LowBits(k, ch)
    <2> TAKE k \in 1..8
    <2>1. k = 1 \/ k = 2 \/ k = 3 \/ k = 4 \/ k = 5 \/ k = 6 \/ k = 7 \/ k = 8
      OBVIOUS
    <2> QED
      BY <2>1, Weights, <1>2, <1>3, <1>4, <1>5, <1>6
  <1>12. \A k \in 0..8 : LowBits(k, ch) \in 0..255
    <2> TAKE k \in 0..8
    <2>1. k = 0 \/ k = 1 \/ k = 2 \/ k = 3 \/ k = 4 \/ k = 5 \/ k = 6 \/ k = 7 \/ k = 8
      OBVIOUS
    <2> QED
      BY <2>1, <1>2, <1>6
  <1> QED
    BY <1>2, <1>11, <1>12

\* The tick the receiver samples at is within a bit.
LEMMA HalfRange == Half \in 0..UART_BIT_TICKS - 1 /\ UART_BIT_TICKS \in Nat \ {0}
  BY SimAssumption DEF Half

\* The states of the line, and of the simulator below, as sets.
UartType == [requested : {TRUE}, enabled : BOOLEAN, stdin : Seq(Byte), typed : Seq(Byte), frame : Shifter, bits : BitCount,
             ticks : TickCount, line : Line, cnt : Int, byte : Byte, got : Seq(Int)]

\* A frame in the shifter, and a byte without its lowest bit.
LEMMA ShifterTypes ==
    /\ \A f \in Shifter : f % 2 \in Line /\ 512 + (f \div 2) \in Shifter
    /\ \A b \in BitCount \ {0} : b - 1 \in BitCount
    /\ \A t \in TickCount \ {0} : t - 1 \in TickCount
    /\ UART_BIT_TICKS \in TickCount /\ 0 \in Line /\ 1 \in Line /\ 10 \in BitCount /\ 0 \in Byte
    /\ \A h \in Byte : 512 + 2 * h \in Shifter
  BY SimAssumption DEF Shifter, Line, BitCount, TickCount, Byte

\* A cycle of the line, on a state of the line.
LEMMA ShiftOutFields ==
    ASSUME NEW u \in UartType, u.bits # 0, u.ticks # 0, NEW v, v = ShiftOut(u), NEW shift \in BOOLEAN, shift <=> u.ticks = 1
    PROVE  /\ v \in UartType
           /\ v.requested = u.requested /\ v.enabled = u.enabled /\ v.stdin = u.stdin /\ v.typed = u.typed
           /\ v.cnt = u.cnt /\ v.byte = u.byte /\ v.got = u.got
           /\ v.line = u.frame % 2
           /\ v.frame = (IF shift THEN 512 + (u.frame \div 2) ELSE u.frame)
           /\ v.bits = (IF shift THEN u.bits - 1 ELSE u.bits)
           /\ v.ticks = (IF shift THEN UART_BIT_TICKS ELSE u.ticks - 1)
  <1> DEFINE l == u.frame % 2
             f == IF shift THEN 512 + (u.frame \div 2) ELSE u.frame
             b == IF shift THEN u.bits - 1 ELSE u.bits
             t == IF shift THEN UART_BIT_TICKS ELSE u.ticks - 1
  <1>1. l \in Line /\ f \in Shifter /\ b \in BitCount /\ t \in TickCount
    BY ShifterTypes DEF UartType
  <1>2. v = [u EXCEPT !.line = l, !.ticks = t, !.frame = f, !.bits = b]
    BY DEF ShiftOut, UartType
  <1> HIDE DEF l, f, b, t
  <1>3. v \in UartType
    BY <1>1, <1>2 DEF UartType
  <1>4. /\ v.requested = u.requested /\ v.enabled = u.enabled /\ v.stdin = u.stdin /\ v.typed = u.typed
        /\ v.cnt = u.cnt /\ v.byte = u.byte /\ v.got = u.got
        /\ v.line = l /\ v.frame = f /\ v.bits = b /\ v.ticks = t
    BY <1>2 DEF UartType
  <1> QED
    BY <1>3, <1>4 DEF l, f, b, t

\* A cycle in which nothing is sent.
LEMMA IdleCycle ==
    ASSUME uartTypeOK, UartInv, uart' = Receive(drive_uart_rx(uart)),
           ~uart.enabled \/ (uart.bits = 0 /\ uart.stdin = <<>>)
    PROVE  uartTypeOK' /\ UartInv'
  <1>1. uart.bits = 0 /\ uart.cnt = -1
    BY DEF UartInv, Sending, uartTypeOK
  <1>2. drive_uart_rx(uart) = [uart EXCEPT !.line = 1]
    BY DEF drive_uart_rx
  <1>3. uart' = [uart EXCEPT !.line = 1]
    BY <1>1, <1>2 DEF Receive, uartTypeOK
  <1>4. uartTypeOK'
    <2>1. PICK l \in Line : l = 1
      BY ShifterTypes
    <2>2. uart \in UartType /\ uart' = [uart EXCEPT !.line = l]
      BY <1>3, <2>1 DEF uartTypeOK, UartType
    <2>3. uart' \in UartType
      BY ONLY <2>1, <2>2 DEF UartType
    <2> QED
      BY <2>3 DEF uartTypeOK, UartType
  <1>5. /\ uart'.typed = uart.typed /\ uart'.got = uart.got /\ uart'.stdin = uart.stdin /\ uart'.cnt = uart.cnt
        /\ uart'.bits = 0
    BY <1>1, <1>3 DEF uartTypeOK
  <1>6. Accounted'
    <2>1. Flying' = Flying
      BY <1>5 DEF Flying
    <2> QED
      BY <1>5, <2>1, Zenon DEF UartInv, Accounted
  <1>7. Sending'
    BY <1>1, <1>5 DEF Sending
  <1> QED
    BY <1>1, <1>4, <1>5, <1>6, <1>7 DEF UartInv

\* The first cycle of a frame: the receiver sees the 0 that starts it.
LEMMA FrameStarts ==
    ASSUME uartTypeOK, UartInv, uart' = Receive(drive_uart_rx(uart)),
           uart.enabled, uart.bits = 0, uart.stdin # <<>>
    PROVE  uartTypeOK' /\ UartInv'
  <1> DEFINE T == UART_BIT_TICKS  shift == T = 1
  <1>0. T \in Nat \ {0} /\ Half \in 0..T - 1
    BY HalfRange
  <1>1. uart \in UartType /\ uart.stdin \in Seq(Byte) /\ uart.cnt = -1
    BY DEF uartTypeOK, UartType, UartInv, Sending
  <1>h. PICK h \in Byte : h = Head(uart.stdin) /\ h = uart.stdin[1]
    BY <1>1
  <1>l. Len(uart.stdin) \in Nat \ {0}
    BY <1>1
  <1> DEFINE n == NewFrame(uart)  v == ShiftOut(n)  tl == Tail(uart.stdin)
  <1>2. /\ n \in UartType
        /\ n.enabled = uart.enabled /\ n.stdin = tl /\ n.typed = uart.typed
        /\ n.cnt = -1 /\ n.byte = uart.byte /\ n.got = uart.got
        /\ n.frame = 512 + 2 * h /\ n.bits = 10 /\ n.ticks = T
    <2> DEFINE f == 512 + 2 * h  c == 10
    <2>1. tl \in Seq(Byte) /\ f \in Shifter /\ c \in BitCount /\ T \in TickCount
      BY <1>1, <1>h, ShifterTypes
    <2>2. n = [uart EXCEPT !.stdin = tl, !.frame = f, !.bits = c, !.ticks = T]
      BY <1>1, <1>h DEF NewFrame, UartType
    <2> HIDE DEF f, tl, T, n, c
    <2>3. /\ n \in UartType
          /\ n.enabled = uart.enabled /\ n.stdin = tl /\ n.typed = uart.typed
          /\ n.cnt = uart.cnt /\ n.byte = uart.byte /\ n.got = uart.got
          /\ n.frame = f /\ n.bits = c /\ n.ticks = T
      BY ONLY <1>1, <2>1, <2>2 DEF UartType
    <2> QED
      BY <1>1, <2>3, Zenon DEF f, c
  <1>3. drive_uart_rx(uart) = v
    BY DEF drive_uart_rx
  <1> HIDE DEF n
  <1>4. /\ v \in UartType
        /\ v.enabled = uart.enabled /\ v.stdin = Tail(uart.stdin) /\ v.typed = uart.typed
        /\ v.cnt = -1 /\ v.got = uart.got /\ v.line = 0
        /\ v.frame = (IF shift THEN 768 + h ELSE 512 + 2 * h)
        /\ v.bits = (IF shift THEN 9 ELSE 10) /\ v.ticks = (IF shift THEN T ELSE T - 1)
    <2>1. (512 + 2 * h) % 2 = 0 /\ 512 + ((512 + 2 * h) \div 2) = 768 + h
      BY <1>h DEF Byte
    <2>2. n.bits # 0 /\ n.ticks # 0
      BY <1>0, <1>2
    <2>0. shift \in BOOLEAN /\ (shift <=> n.ticks = 1)
      BY <1>2
    <2>v. v = ShiftOut(n) /\ n \in UartType
      BY <1>2
    <2> HIDE DEF v, shift
    <2>3. /\ v \in UartType
          /\ v.enabled = n.enabled /\ v.stdin = n.stdin /\ v.typed = n.typed
          /\ v.cnt = n.cnt /\ v.got = n.got /\ v.line = n.frame % 2
          /\ v.frame = (IF shift THEN 512 + (n.frame \div 2) ELSE n.frame)
          /\ v.bits = (IF shift THEN n.bits - 1 ELSE n.bits)
          /\ v.ticks = (IF shift THEN UART_BIT_TICKS ELSE n.ticks - 1)
      BY ONLY <2>0, <2>2, <2>v, ShiftOutFields
    <2>4. CASE shift
      BY <1>2, <2>1, <2>3, <2>4
    <2>5. CASE ~shift
      BY <1>2, <2>1, <2>3, <2>5
    <2> QED
      BY <2>4, <2>5
  <1> HIDE DEF v
  <1>5. uart' = [v EXCEPT !.cnt = 0, !.byte = 0]
    BY <1>3, <1>4 DEF Receive
  <1>6. /\ uart' \in UartType /\ uart'.typed = v.typed /\ uart'.got = v.got /\ uart'.stdin = v.stdin /\ uart'.cnt = 0
        /\ uart'.byte = 0 /\ uart'.enabled = v.enabled /\ uart'.frame = v.frame /\ uart'.bits = v.bits /\ uart'.ticks = v.ticks
    <2> DEFINE z == 0
    <2>1. z \in Int /\ z \in Byte /\ v \in UartType
      BY <1>4, ShifterTypes
    <2> HIDE DEF z
    <2>2. uart' = [v EXCEPT !.cnt = z, !.byte = z]
      BY <1>5 DEF z
    <2>3. /\ uart' \in UartType /\ uart'.typed = v.typed /\ uart'.got = v.got /\ uart'.stdin = v.stdin /\ uart'.cnt = z
          /\ uart'.byte = z /\ uart'.enabled = v.enabled /\ uart'.frame = v.frame /\ uart'.bits = v.bits /\ uart'.ticks = v.ticks
      BY ONLY <2>1, <2>2 DEF UartType
    <2> QED
      BY <2>3 DEF z
  <1>7. /\ uart'.typed = uart.typed /\ uart'.got = uart.got /\ uart'.stdin = Tail(uart.stdin) /\ uart'.cnt = 0
        /\ uart'.byte = 0 /\ uart'.enabled
        /\ uart'.frame = (IF shift THEN 768 + h ELSE 512 + 2 * h)
        /\ uart'.bits = (IF shift THEN 9 ELSE 10) /\ uart'.ticks = (IF shift THEN T ELSE T - 1)
    BY <1>4, <1>6
  <1>8. /\ Len(uart'.stdin) = Len(uart.stdin) - 1
        /\ \A i \in 1..Len(uart'.stdin) : uart'.stdin[i] = uart.stdin[i + 1]
    BY <1>1, <1>l, <1>7
  <1> DEFINE done == Len(uart.got)
  <1>9. done \in Nat /\ Len(uart.typed) = done + Len(uart.stdin) /\ \A i \in 1..Len(uart.stdin) : uart.stdin[i] = uart.typed[done + i]
    <2>1. Flying = 0 /\ uart.got \in Seq(Int)
      BY <1>1 DEF Flying, uartTypeOK
    <2>2. done + 0 = done /\ done \in Nat
      BY <2>1
    <2> QED
      BY <2>1, <2>2, Zenon DEF UartInv, Accounted
  <1>10. uart.typed[done + 1] = h
    BY <1>l, <1>h, <1>9
  <1> HIDE DEF done
  <1>11. \A i \in 1..Len(uart'.stdin) : uart'.stdin[i] = uart.typed[done + 1 + i]
    <2> TAKE i \in 1..Len(uart'.stdin)
    <2>1. i + 1 \in 1..Len(uart.stdin) /\ done + (i + 1) = done + 1 + i
      BY <1>l, <1>8, <1>9
    <2> QED
      BY <2>1, <1>8, <1>9
  <1>12. Accounted'
    <2>1. Flying' = 1
      BY <1>7 DEF Flying
    <2>2. \A i \in 1..Len(uart.got) : uart.got[i] = uart.typed[i]
      BY DEF UartInv, Accounted
    <2>3. Len(uart.typed) = done + 1 + Len(uart'.stdin)
      <3>1. Len(uart.typed) = done + Len(uart.stdin) /\ done \in Nat
        BY <1>9
      <3> DEFINE a == Len(uart.stdin)  b == Len(uart'.stdin)  c == Len(uart.typed)
      <3>2. a \in Nat \ {0} /\ b = a - 1 /\ c = done + a
        BY <3>1, <1>l, <1>8
      <3> HIDE DEF a, b, c
      <3>3. c = done + 1 + b
        BY ONLY <3>1, <3>2
      <3> QED
        BY <3>3 DEF b, c
    <2>4. Len(uart'.typed) = Len(uart'.got) + Flying' + Len(uart'.stdin)
      BY <1>7, <2>1, <2>3 DEF done
    <2>5. \A i \in 1..Len(uart'.got) : uart'.got[i] = uart'.typed[i]
      BY <1>7, <2>2
    <2>6. \A i \in 1..Len(uart'.stdin) : uart'.stdin[i] = uart'.typed[Len(uart'.got) + Flying' + i]
      BY <1>7, <2>1, <1>11 DEF done
    <2> QED
      BY <2>4, <2>5, <2>6 DEF Accounted
  <1>13. Sending'
    BY <1>0, <1>7 DEF Sending
  <1>14. Sent' = (IF shift THEN 1 ELSE 0) /\ Elapsed' = (IF shift THEN 0 ELSE 1)
    BY <1>0, <1>7 DEF Sent, Elapsed
  <1>15. FrameAt(0, h) = 512 + 2 * h /\ FrameAt(1, h) = 768 + h /\ LowBits(0, h) = 0
    BY DEF FrameAt, LowBits
  <1>16. Sampled' = 0
    <2>1. CASE shift
      BY <1>0, <1>14, <2>1 DEF Sampled
    <2>2. CASE ~shift
      BY <1>0, <1>14, <2>2 DEF Sampled
    <2> QED
      BY <2>1, <2>2
  <1>17. uart'.cnt # -1 /\ uart'.cnt = Sent' * T + Elapsed' - 1 /\ uart'.cnt >= 0 /\ Sent' # 9
    <2>1. CASE shift
      BY <1>0, <1>7, <1>14, <2>1
    <2>2. CASE ~shift
      BY <1>0, <1>7, <1>14, <2>2
    <2> QED
      BY <2>1, <2>2
  <1>18. uart'.frame = FrameAt(Sent', h) /\ uart'.byte = LowBits(Sampled', h)
    BY <1>7, <1>14, <1>15, <1>16
  <1>19. Receiving(h)'
    BY <1>17, <1>18 DEF Receiving
  <1> QED
    BY <1>6, <1>7, <1>10, <1>12, <1>13, <1>19 DEF UartInv, uartTypeOK, UartType, done

\* What a cycle makes of the line while a frame is sent.
LEMMA Driven ==
    ASSUME uartTypeOK, UartInv, uart.bits # 0, NEW v, v = drive_uart_rx(uart), NEW shift \in BOOLEAN, shift <=> uart.ticks = 1
    PROVE  /\ v \in UartType /\ uart.enabled /\ uart.ticks \in 1..UART_BIT_TICKS
           /\ v.enabled = uart.enabled /\ v.stdin = uart.stdin /\ v.typed = uart.typed
           /\ v.cnt = uart.cnt /\ v.byte = uart.byte /\ v.got = uart.got
           /\ v.line = uart.frame % 2
           /\ v.frame = (IF shift THEN 512 + (uart.frame \div 2) ELSE uart.frame)
           /\ v.bits = (IF shift THEN uart.bits - 1 ELSE uart.bits)
           /\ v.ticks = (IF shift THEN UART_BIT_TICKS ELSE uart.ticks - 1)
  <1>1. uart \in UartType /\ uart.ticks \in TickCount
    BY DEF uartTypeOK, UartType
  <1>2. uart.enabled /\ uart.ticks # 0
    BY DEF UartInv, Sending
  <1>3. v = ShiftOut(uart)
    BY <1>2 DEF drive_uart_rx
  <1>4. uart.ticks \in 1..UART_BIT_TICKS
    BY <1>1, <1>2, HalfRange DEF TickCount
  <1>5. uart.bits # 0 /\ shift \in BOOLEAN /\ (shift <=> uart.ticks = 1)
    OBVIOUS
  <1>6. /\ v \in UartType
        /\ v.enabled = uart.enabled /\ v.stdin = uart.stdin /\ v.typed = uart.typed
        /\ v.cnt = uart.cnt /\ v.byte = uart.byte /\ v.got = uart.got
        /\ v.line = uart.frame % 2
        /\ v.frame = (IF shift THEN 512 + (uart.frame \div 2) ELSE uart.frame)
        /\ v.bits = (IF shift THEN uart.bits - 1 ELSE uart.bits)
        /\ v.ticks = (IF shift THEN UART_BIT_TICKS ELSE uart.ticks - 1)
    <2>1. PICK u : u = uart
      OBVIOUS
    <2>2. u \in UartType /\ u.bits # 0 /\ u.ticks # 0 /\ v = ShiftOut(u) /\ shift \in BOOLEAN /\ (shift <=> u.ticks = 1)
      BY <1>1, <1>2, <1>3, <1>5, <2>1
    <2>3. /\ v \in UartType
          /\ v.enabled = u.enabled /\ v.stdin = u.stdin /\ v.typed = u.typed
          /\ v.cnt = u.cnt /\ v.byte = u.byte /\ v.got = u.got
          /\ v.line = u.frame % 2
          /\ v.frame = (IF shift THEN 512 + (u.frame \div 2) ELSE u.frame)
          /\ v.bits = (IF shift THEN u.bits - 1 ELSE u.bits)
          /\ v.ticks = (IF shift THEN UART_BIT_TICKS ELSE u.ticks - 1)
      BY ONLY <2>2, ShiftOutFields
    <2> QED
      BY <2>1, <2>3
  <1> QED
    BY <1>2, <1>4, <1>6

\* The rest of the last bit, once the receiver has the byte.
LEMMA FrameEnds ==
    ASSUME uartTypeOK, UartInv, uart' = Receive(drive_uart_rx(uart)), uart.bits # 0, uart.cnt = -1
    PROVE  uartTypeOK' /\ UartInv'
  <1> DEFINE T == UART_BIT_TICKS  shift == uart.ticks = 1  v == drive_uart_rx(uart)
  <1>0. T \in Nat \ {0} /\ Half \in 0..T - 1
    BY HalfRange
  <1>1. uart.bits = 1 /\ T - uart.ticks > Half /\ uart.frame = 1023
    BY DEF UartInv, Sending, Elapsed
  <1>2. 1023 % 2 = 1 /\ 512 + (1023 \div 2) = 1023 /\ 1 - 1 = 0
    OBVIOUS
  <1>3. v = drive_uart_rx(uart) /\ shift \in BOOLEAN /\ (shift <=> uart.ticks = 1)
    OBVIOUS
  <1> HIDE DEF v, shift
  <1>4. /\ v \in UartType /\ uart.enabled /\ uart.ticks \in 1..T
        /\ v.enabled = uart.enabled /\ v.stdin = uart.stdin /\ v.typed = uart.typed
        /\ v.cnt = uart.cnt /\ v.got = uart.got
        /\ v.line = uart.frame % 2
        /\ v.frame = (IF shift THEN 512 + (uart.frame \div 2) ELSE uart.frame)
        /\ v.bits = (IF shift THEN uart.bits - 1 ELSE uart.bits)
        /\ v.ticks = (IF shift THEN T ELSE uart.ticks - 1)
    BY <1>3, Driven
  <1>5. v.line = 1 /\ v.frame = 1023 /\ v.bits = (IF shift THEN 0 ELSE 1)
    BY <1>1, <1>2, <1>4
  <1>6. uart' = v
    BY <1>4, <1>5 DEF Receive, v
  <1>7. uartTypeOK'
    BY <1>4, <1>6 DEF uartTypeOK, UartType
  <1>f. /\ uart'.enabled /\ uart'.stdin = uart.stdin /\ uart'.typed = uart.typed /\ uart'.got = uart.got
        /\ uart'.cnt = -1 /\ uart'.frame = 1023
    <2>1. uart'.enabled
      BY <1>4, <1>6, Zenon
    <2>2. /\ uart'.stdin = uart.stdin /\ uart'.typed = uart.typed /\ uart'.got = uart.got
          /\ uart'.cnt = uart.cnt
      BY <1>4, <1>6, Zenon
    <2>3. uart'.frame = 1023
      BY <1>5, <1>6
    <2> QED
      BY <2>1, <2>2, <2>3
  <1>8. Accounted'
    <2>1. Flying' = Flying
      BY <1>4, <1>6 DEF Flying
    <2> QED
      BY <1>f, <2>1 DEF UartInv, Accounted
  <1>9. Sending'
    <2>1. CASE shift
      BY <1>0, <1>4, <1>5, <1>6, <2>1 DEF Sending
    <2>2. CASE ~shift
      <3>1. Elapsed' > Half
        BY <1>0, <1>1, <1>4, <1>6, <2>2 DEF Elapsed
      <3>2. uart'.ticks # 0
        BY <1>3, <1>4, <1>6, <2>2
      <3>3. uart'.bits = 1
        BY <1>5, <1>6, <2>2
      <3> QED
        BY <1>f, <3>1, <3>2, <3>3 DEF Sending
    <2> QED
      BY <2>1, <2>2
  <1> QED
    BY <1>4, <1>6, <1>7, <1>8, <1>9 DEF UartInv

\* A cycle within a frame: at the middle of a bit the receiver adds what is
\* on the line, which is that bit, and at the middle of the last one it has
\* the byte.
LEMMA InFrame ==
    ASSUME uartTypeOK, UartInv, uart' = Receive(drive_uart_rx(uart)), uart.cnt # -1
    PROVE  uartTypeOK' /\ UartInv'
  <1> DEFINE T == UART_BIT_TICKS  v == drive_uart_rx(uart)  done == Len(uart.got)
  <1>0. T \in Nat \ {0} /\ Half \in 0..T - 1
    BY HalfRange
  <1>1. uart \in UartType /\ uart.bits # 0 /\ uart.bits \in BitCount /\ uart.cnt \in Int
    BY DEF uartTypeOK, UartType, UartInv, Sending
  <1>s. PICK shift \in BOOLEAN : shift <=> uart.ticks = 1
    OBVIOUS
  <1>2. /\ v \in UartType /\ uart.enabled /\ uart.ticks \in 1..T
        /\ v.enabled = uart.enabled /\ v.stdin = uart.stdin /\ v.typed = uart.typed
        /\ v.cnt = uart.cnt /\ v.byte = uart.byte /\ v.got = uart.got
        /\ v.line = uart.frame % 2
        /\ v.frame = (IF shift THEN 512 + (uart.frame \div 2) ELSE uart.frame)
        /\ v.bits = (IF shift THEN uart.bits - 1 ELSE uart.bits)
        /\ v.ticks = (IF shift THEN T ELSE uart.ticks - 1)
    BY <1>1, <1>s, Driven
  <1> HIDE DEF v
  <1>k. PICK k \in 0..9 : k = 10 - uart.bits
    BY <1>1 DEF BitCount
  <1>t. PICK t \in 0..T - 1 : t = T - uart.ticks
    BY <1>0, <1>2
  <1>3. Sent = k /\ Elapsed = t /\ Sampled = (IF t > Half \/ k = 0 THEN k ELSE k - 1)
    BY <1>k, <1>t DEF Sent, Elapsed, Sampled
  <1>4. done \in Nat /\ Len(uart.typed) = done + 1 + Len(uart.stdin) /\ Len(uart.stdin) \in Nat
    <2>1. Flying = 1 /\ uart.got \in Seq(Int) /\ uart.stdin \in Seq(Byte)
      BY <1>1 DEF Flying, UartType
    <2> QED
      BY <2>1 DEF UartInv, Accounted
  <1>c. PICK ch \in 0..255 : ch = uart.typed[done + 1]
    <2>1. uart.typed \in Seq(Byte) /\ done + 1 \in 1..Len(uart.typed)
      BY <1>1, <1>4 DEF UartType
    <2>2. uart.typed[done + 1] \in Byte
      BY <2>1
    <2> QED
      BY <2>2 DEF Byte
  <1>S. /\ \A j \in 0..8 : Shifted(FrameAt(j, ch)) = FrameAt(j + 1, ch)
        /\ FrameAt(9, ch) = 1023
        /\ \A j \in 1..8 : LowBits(j - 1, ch) + (FrameAt(j, ch) % 2) * Weight[j] = LowBits(j, ch) /\ LowBits(j, ch) \in 0..255
        /\ LowBits(8, ch) = ch
    <2>1. /\ \A j \in 0..8 : Shifted(FrameAt(j, ch)) = FrameAt(j + 1, ch)
          /\ FrameAt(9, ch) = 1023
      <3>1. FrameAt(9, ch) = 1023
        BY DEF FrameAt
      <3>2. \A j \in 0..8 : Shifted(FrameAt(j, ch)) = FrameAt(j + 1, ch)
        BY <1>c, Shifts, Zenon
      <3> QED
        BY <3>1, <3>2
    <2>2. /\ \A j \in 1..8 : LowBits(j - 1, ch) + (FrameAt(j, ch) % 2) * Weight[j] = LowBits(j, ch)
          /\ \A j \in 0..8 : LowBits(j, ch) \in 0..255
          /\ LowBits(8, ch) = ch
      BY <1>c, BitSampled, Zenon
    <2> QED
      BY <2>1, <2>2
  <1>5. /\ uart.cnt = k * T + t - 1 /\ uart.cnt >= 0
        /\ k = 9 => t <= Half
        /\ uart.frame = FrameAt(k, ch) /\ uart.byte = LowBits(Sampled, ch)
    BY <1>3, <1>c DEF UartInv, Receiving
  <1>6. k * T \in Nat /\ (k + 1) * T = k * T + T
    BY <1>0
  <1>7. uart.cnt + 1 = k * T + t /\ (uart.cnt + 1) \div T = k /\ (uart.cnt + 1) % T = t
    <2>1. uart.cnt + 1 = k * T + t
      BY <1>5, <1>6, <1>1
    <2>2. (k * T + t) \div T = k /\ (k * T + t) % T = t
      <3>1. k \in Nat /\ T \in Nat \ {0} /\ t \in 0..T - 1
        BY <1>0
      <3> HIDE DEF T
      <3> QED
        BY ONLY <3>1, Position
    <2> QED
      BY <2>1, <2>2
  \* The line after the cycle, whatever the receiver does.
  <1>8. /\ shift <=> t = T - 1
        /\ v.bits = (IF shift THEN 9 - k ELSE 10 - k)
        /\ T - v.ticks = IF shift THEN 0 ELSE t + 1
        /\ v.ticks \in 1..T
    BY <1>0, <1>1, <1>2, <1>k, <1>s, <1>t DEF BitCount
  <1>9. v.frame = FrameAt(IF shift /\ k < 9 THEN k + 1 ELSE k, ch)
    <2>1. CASE ~shift
      BY <1>2, <1>5, <2>1
    <2>2. CASE shift /\ k < 9
      <3>1. 512 + (FrameAt(k, ch) \div 2) = FrameAt(k + 1, ch)
        BY <2>2, <1>S DEF Shifted
      <3> QED
        BY <1>2, <1>5, <2>2, <3>1
    <2>3. CASE shift /\ k = 9
      <3>1. uart.frame = 1023 /\ 512 + (1023 \div 2) = 1023 /\ FrameAt(9, ch) = 1023
        BY <1>5, <2>3, <1>S
      <3> QED
        BY <1>2, <2>3, <3>1
    <2> QED
      BY <2>1, <2>2, <2>3
  <1>10. CASE ~(t = Half /\ k = 9)
    <2> DEFINE c == uart.cnt + 1
               b == IF t = Half /\ k # 0 THEN uart.byte + v.line * Weight[k] ELSE uart.byte
               k2 == IF shift THEN k + 1 ELSE k
               t2 == IF shift THEN 0 ELSE t + 1
               s2 == IF t2 > Half \/ k2 = 0 THEN k2 ELSE k2 - 1
    <2>1. k2 \in 0..9 /\ t2 \in 0..T - 1 /\ (k2 = 9 => t2 <= Half) /\ (k = 9 => ~shift)
      BY <1>0, <1>5, <1>8, <1>10
    <2>2. b = LowBits(s2, ch) /\ b \in Byte
      <3>1. CASE t = Half /\ k # 0
        <4>1. k \in 1..8 /\ s2 = k /\ Sampled = k - 1
          BY <1>0, <1>3, <1>8, <1>10, <3>1
        <4>2. LowBits(k - 1, ch) + (FrameAt(k, ch) % 2) * Weight[k] = LowBits(k, ch) /\ LowBits(k, ch) \in 0..255
          BY <4>1, <1>S
        <4> QED
          BY <1>2, <1>5, <3>1, <4>1, <4>2 DEF Byte
      <3>2. CASE ~(t = Half /\ k # 0)
        <4>1. s2 = Sampled
          BY <1>0, <1>3, <1>8, <1>10, <3>2
        <4>2. uart.byte \in Byte
          BY <1>1 DEF UartType
        <4> QED
          BY <1>5, <3>2, <4>1, <4>2
      <3> QED
        BY <3>1, <3>2
    <2>3. uart' = [v EXCEPT !.cnt = c, !.byte = b]
      <3>1. v.cnt = uart.cnt /\ v.byte = uart.byte /\ v.cnt # -1
        BY <1>2
      <3>2. CASE t = Half /\ k # 0
        <4>1. k < 9 /\ k # 0
          BY <1>10, <3>2
        <4>2. T \div 2 = Half
          BY DEF Half
        <4> QED
          BY <1>7, <3>1, <3>2, <4>1, <4>2 DEF Receive, v
      <3>3. CASE ~(t = Half /\ k # 0)
        <4>1. uart' = [v EXCEPT !.cnt = c]
          BY <1>7, <3>1, <3>3 DEF Receive, v, Half
        <4>2. v = [v EXCEPT !.byte = v.byte]
          BY <1>2 DEF UartType
        <4> QED
          BY <3>1, <3>3, <4>1, <4>2
      <3> QED
        BY <3>2, <3>3
    <2>4. /\ c \in Int /\ c = k2 * T + t2 - 1 /\ c >= 0
      BY <1>0, <1>6, <1>7, <1>8
    <2> HIDE DEF c, b
    <2>5. /\ uart' \in UartType
          /\ uart'.enabled = v.enabled /\ uart'.stdin = v.stdin /\ uart'.typed = v.typed /\ uart'.got = v.got
          /\ uart'.cnt = c /\ uart'.byte = b /\ uart'.frame = v.frame /\ uart'.bits = v.bits /\ uart'.ticks = v.ticks
      <3>1. v \in UartType /\ c \in Int /\ b \in Byte
        BY <1>2, <2>2, <2>4
      <3> QED
        BY ONLY <2>3, <3>1 DEF UartType
    <2>6. uartTypeOK'
      BY <2>5 DEF uartTypeOK, UartType
    <2>7. /\ uart'.enabled /\ uart'.stdin = uart.stdin /\ uart'.typed = uart.typed /\ uart'.got = uart.got /\ uart'.cnt # -1
      <3>1. uart'.enabled
        BY <1>2, <2>5, Zenon
      <3>2. uart'.stdin = uart.stdin /\ uart'.typed = uart.typed /\ uart'.got = uart.got
        BY <1>2, <2>5, Zenon
      <3>3. uart'.cnt # -1
        BY <2>4, <2>5
      <3> QED
        BY <3>1, <3>2, <3>3
    <2>8. Accounted'
      <3>1. Flying' = Flying
        BY <2>7 DEF Flying
      <3> QED
        BY <2>7, <3>1 DEF UartInv, Accounted
    <2>9. uart'.bits = 10 - k2 /\ uart'.ticks = T - t2 /\ uart'.bits # 0
      BY <1>0, <1>8, <2>1, <2>5
    <2>10. Sending'
      BY <1>8, <2>5, <2>7, <2>9 DEF Sending
    <2>11. Sent' = k2 /\ Elapsed' = t2 /\ Sampled' = s2
      <3>1. Sent' = k2 /\ Elapsed' = t2
        BY <1>0, <2>1, <2>9 DEF Sent, Elapsed
      <3> QED
        BY <3>1 DEF Sampled
    <2>12. uart'.frame = FrameAt(k2, ch)
      BY <1>9, <2>1, <2>5
    <2> HIDE DEF k2, t2, s2
    <2>13. Receiving(ch)'
      BY <2>1, <2>2, <2>4, <2>5, <2>11, <2>12 DEF Receiving
    <2> QED
      BY <1>c, <2>6, <2>7, <2>8, <2>10, <2>13 DEF UartInv
  <1>11. CASE t = Half /\ k = 9
    <2> DEFINE g == Append(uart.got, ch)  m == -1
    <2>1. uart.byte = ch
      <3>1. Sampled = 8
        BY <1>0, <1>3, <1>11
      <3> QED
        BY <1>5, <1>S, <3>1
    <2>2. v.line = 1
      <3>1. 1023 % 2 = 1
        OBVIOUS
      <3> QED
        BY <1>2, <1>5, <1>11, <1>S, <3>1
    <2>3. uart' = [v EXCEPT !.cnt = m, !.got = g]
      <3>1. v.cnt = uart.cnt /\ v.byte = uart.byte /\ v.cnt # -1 /\ v.got = uart.got
        BY <1>2
      <3>2. T \div 2 = Half
        BY DEF Half
      <3> QED
        BY <1>7, <1>11, <2>1, <2>2, <3>1, <3>2 DEF Receive, v
    <2>4. g \in Seq(Int) /\ m \in Int /\ v \in UartType
      <3>1. uart.got \in Seq(Int) /\ ch \in Int
        BY <1>1, <1>c DEF UartType
      <3>2. g \in Seq(Int)
        BY ONLY <3>1
      <3> QED
        BY <1>2, <3>2
    <2>g. /\ Len(g) = done + 1 /\ g[done + 1] = ch
          /\ \A i \in 1..done : g[i] = uart.got[i]
      BY <1>1, <1>c DEF UartType
    <2>m. m = -1
      OBVIOUS
    <2> HIDE DEF g, m
    <2>5. /\ uart' \in UartType
          /\ uart'.enabled = v.enabled /\ uart'.stdin = v.stdin /\ uart'.typed = v.typed /\ uart'.got = g
          /\ uart'.cnt = m /\ uart'.frame = v.frame /\ uart'.bits = v.bits /\ uart'.ticks = v.ticks
      BY ONLY <2>3, <2>4 DEF UartType
    <2>6. uartTypeOK'
      BY <2>5 DEF uartTypeOK, UartType
    <2>7. uart'.enabled /\ uart'.stdin = uart.stdin /\ uart'.typed = uart.typed /\ uart'.got = g /\ uart'.cnt = -1
      <3>1. uart'.enabled
        BY <1>2, <2>5, Zenon
      <3>2. uart'.stdin = uart.stdin /\ uart'.typed = uart.typed
        BY <1>2, <2>5, Zenon
      <3> QED
        BY <2>5, <2>m, <3>1, <3>2
    <2>8. Accounted'
      <3>1. Flying' = 0 /\ Flying = 1
        BY <2>7 DEF Flying
      <3>2. /\ \A i \in 1..done : uart.got[i] = uart.typed[i]
            /\ \A i \in 1..Len(uart.stdin) : uart.stdin[i] = uart.typed[done + 1 + i]
        BY <3>1 DEF UartInv, Accounted
      <3>3. \A i \in 1..done + 1 : g[i] = uart.typed[i]
        BY <1>4, <1>c, <2>g, <3>2
      <3>4. Len(uart'.typed) = Len(uart'.got) + Flying' + Len(uart'.stdin)
        <4> DEFINE a == Len(uart.typed)  n == Len(uart.stdin)
        <4>1. done \in Nat /\ n \in Nat /\ a = done + 1 + n
          BY <1>4
        <4>2. Len(uart'.typed) = a /\ Len(uart'.got) = done + 1 /\ Len(uart'.stdin) = n
          BY <2>7, <2>g
        <4> HIDE DEF a, n, done
        <4>3. a = (done + 1) + 0 + n
          BY ONLY <4>1
        <4> QED
          BY <3>1, <4>2, <4>3, Zenon
      <3>5. \A i \in 1..Len(uart'.got) : uart'.got[i] = uart'.typed[i]
        BY <2>7, <2>g, <3>3
      <3>6. \A i \in 1..Len(uart'.stdin) : uart'.stdin[i] = uart'.typed[Len(uart'.got) + Flying' + i]
        <4>1. Len(uart'.got) + Flying' = done + 1
          BY <1>4, <2>7, <2>g, <3>1
        <4> QED
          BY <2>7, <3>2, <4>1
      <3> QED
        BY <3>4, <3>5, <3>6 DEF Accounted
    <2>9. Sending'
      <3>1. uart'.bits = (IF shift THEN 0 ELSE 1) /\ uart'.ticks \in 1..T /\ T - uart'.ticks = (IF shift THEN 0 ELSE t + 1)
        BY <1>8, <1>11, <2>5
      <3>2. uart'.frame = 1023
        BY <1>9, <1>11, <1>S, <2>5
      <3>3. ~shift => Elapsed' > Half
        BY <1>0, <1>11, <3>1 DEF Elapsed
      <3> QED
        BY <2>7, <3>1, <3>2, <3>3 DEF Sending
    <2> QED
      BY <2>6, <2>7, <2>8, <2>9 DEF UartInv
  <1> QED
    BY <1>10, <1>11

\* A character is typed.
LEMMA TypedChar ==
    ASSUME uartTypeOK, UartInv, NEW ch \in Chars, TypeChar(ch)
    PROVE  uartTypeOK' /\ UartInv'
  <1> DEFINE a == Append(uart.typed, ch)  b == Append(uart.stdin, ch)
  <1>1. uart \in UartType /\ ch \in Byte
    BY SimAssumption DEF uartTypeOK, UartType, Byte
  <1>2. uart.typed \in Seq(Byte) /\ uart.stdin \in Seq(Byte) /\ uart.got \in Seq(Int)
    BY <1>1 DEF UartType
  <1>3. /\ a \in Seq(Byte) /\ Len(a) = Len(uart.typed) + 1 /\ a[Len(uart.typed) + 1] = ch
        /\ \A i \in 1..Len(uart.typed) : a[i] = uart.typed[i]
    BY <1>1, <1>2
  <1>4. /\ b \in Seq(Byte) /\ Len(b) = Len(uart.stdin) + 1 /\ b[Len(uart.stdin) + 1] = ch
        /\ \A i \in 1..Len(uart.stdin) : b[i] = uart.stdin[i]
    BY <1>1, <1>2
  <1>5. uart' = [uart EXCEPT !.typed = a, !.stdin = b]
    BY DEF TypeChar
  <1> HIDE DEF a, b
  <1>6. /\ uart' \in UartType
        /\ uart'.typed = a /\ uart'.stdin = b /\ uart'.enabled = uart.enabled /\ uart'.got = uart.got /\ uart'.cnt = uart.cnt
        /\ uart'.byte = uart.byte /\ uart'.frame = uart.frame /\ uart'.bits = uart.bits /\ uart'.ticks = uart.ticks
    <2>1. uart \in UartType /\ a \in Seq(Byte) /\ b \in Seq(Byte)
      BY <1>1, <1>3, <1>4
    <2> QED
      BY ONLY <1>5, <2>1 DEF UartType
  <1>7. uartTypeOK'
    BY <1>6 DEF uartTypeOK, UartType
  <1>8. Flying' = Flying /\ Sent' = Sent /\ Elapsed' = Elapsed
    BY <1>6 DEF Flying, Sent, Elapsed
  <1> DEFINE done == Len(uart.got)  m == Len(uart.typed)  n == Len(uart.stdin)
  <1>9. /\ Flying \in {0, 1} /\ done \in Nat /\ m \in Nat /\ n \in Nat /\ m = done + Flying + n
        /\ \A i \in 1..done : uart.got[i] = uart.typed[i]
        /\ \A i \in 1..n : uart.stdin[i] = uart.typed[done + Flying + i]
    <2>1. Flying \in {0, 1}
      BY DEF Flying
    <2>2. done \in Nat /\ m \in Nat /\ n \in Nat
      BY <1>2
    <2> QED
      BY <2>1, <2>2, Zenon DEF UartInv, Accounted
  <1>e. /\ Len(a) = m + 1 /\ a[m + 1] = ch /\ \A i \in 1..m : a[i] = uart.typed[i]
        /\ Len(b) = n + 1 /\ b[n + 1] = ch /\ \A i \in 1..n : b[i] = uart.stdin[i]
    BY <1>3, <1>4
  <1>f. PICK y \in Nat : y = Flying
    BY <1>9
  <1> HIDE DEF m, n, done
  <1>10. Accounted'
    <2>1. Len(uart'.typed) = Len(uart'.got) + Flying' + Len(uart'.stdin)
      <3>1. m + 1 = done + y + (n + 1)
        BY <1>9, <1>f
      <3> QED
        BY <1>e, <1>f, <1>6, <1>8, <3>1 DEF done
    <2>2. \A i \in 1..Len(uart'.got) : uart'.got[i] = uart'.typed[i]
      <3>1. \A i \in 1..done : i \in 1..m
        BY <1>9, <1>f
      <3>2. \A i \in 1..done : uart.got[i] = a[i]
        BY <1>9, <1>e, <3>1
      <3> QED
        BY <1>6, <3>2 DEF done
    <2>3. \A i \in 1..n + 1 : b[i] = a[done + Flying + i]
      <3> TAKE i \in 1..n + 1
      <3>1. CASE i = n + 1
        <4>1. done + y + i = m + 1
          BY <1>9, <1>f, <3>1
        <4> QED
          BY <1>e, <1>f, <3>1, <4>1
      <3>2. CASE i # n + 1
        <4>1. i \in 1..n /\ done + y + i \in 1..m
          BY <1>9, <1>f, <3>2
        <4>2. b[i] = uart.stdin[i] /\ a[done + y + i] = uart.typed[done + y + i]
          BY <1>e, <4>1
        <4> QED
          BY <1>9, <1>f, <4>1, <4>2
      <3> QED
        BY <3>1, <3>2
    <2> QED
      BY <1>e, <1>6, <1>8, <2>1, <2>2, <2>3 DEF Accounted, done
  <1>11. Sending'
    BY <1>6, <1>8 DEF UartInv, Sending
  <1>12. uart.cnt # -1 => Receiving(uart.typed[done + 1])'
    <2> SUFFICES ASSUME uart.cnt # -1 PROVE Receiving(uart.typed[done + 1])'
      OBVIOUS
    <2>1. a[done + 1] = uart.typed[done + 1]
      <3>1. Flying = 1
        BY DEF Flying
      <3>2. done + 1 \in 1..m
        BY <1>9, <3>1
      <3> QED
        BY <1>e, <3>2
    <2>2. Sampled' = Sampled
      BY <1>8 DEF Sampled
    <2>3. Receiving(uart.typed[done + 1])
      BY DEF UartInv, done
    <2> QED
      BY <1>6, <1>8, <2>1, <2>2, <2>3 DEF Receiving, done
  <1> QED
    BY <1>6, <1>7, <1>10, <1>11, <1>12 DEF UartInv, done

(***************************************************************************)
(* DiffTest.                                                               *)
(***************************************************************************)
SimType == [pc : Stage, flash_boot : BOOLEAN, img : Nat, diff : BOOLEAN, batch : BOOLEAN, mrom : Mrom, flash : FlashArray,
            sram : [Words(SRAM_SIZE) -> {0}], dut : Machine, ref : {simInit.ref} \cup Reference, is_skip_ref : BOOLEAN,
            n : Int, cmds : Nat, finish : BOOLEAN, mistake : Mistake, scanned : BOOLEAN]
RefType == {simInit.ref} \cup Reference
ZeroSram == [Words(SRAM_SIZE) -> {0}]

\* A step that changes where the simulator is, the counts and nothing that
\* DiffTest looks at.
SameMachines ==
    /\ sim'.flash_boot = sim.flash_boot /\ sim'.img = sim.img /\ sim'.mrom = sim.mrom /\ sim'.flash = sim.flash
    /\ sim'.sram = sim.sram /\ sim'.dut = sim.dut /\ sim'.ref = sim.ref
    /\ sim'.finish = sim.finish /\ sim'.mistake = sim.mistake

\* Such a step between the stages of a running simulator keeps the invariant.
LEMMA StageStep ==
    ASSUME simTypeOK, SimInv, SameMachines, (sim'.is_skip_ref = sim.is_skip_ref /\ sim'.scanned = sim.scanned) \/ sim'.scanned \/ ~sim.ref.on,
           sim.pc \in {"sdb", "exec", "after"}, sim'.pc \in {"sdb", "exec", "after", "end"}
    PROVE  SimInv'
  <1>1. Code' = Code
    BY Zenon DEF SameMachines, Code
  <1>2. Loaded' /\ InProgram'
    <2>1. Loaded /\ InProgram
      BY DEF SimInv
    <2>2. Loaded'
      BY <1>1, <2>1, Zenon DEF SameMachines, Loaded
    <2>3. InProgram'
      BY <1>1, <2>1, Zenon DEF SameMachines, InProgram
    <2> QED
      BY <2>2, <2>3
  <1>3. sim'.ref.on => \A k \in 0..sim'.img - 1 :
            IF sim'.flash_boot THEN sim'.ref.flash[k] = sim'.flash[k] ELSE sim'.ref.mrom[k] = sim'.mrom[k]
    BY Zenon DEF SimInv, SameMachines
  <1>4. DiffTestExact'
    <2>1. DiffTestExact
      BY DEF SimInv
    <2> SUFFICES ASSUME sim'.ref.on, ~sim'.scanned
                 PROVE  /\ sim'.pc = "failed" <=> sim'.mistake = "compared"
                        /\ sim'.pc # "failed" => checkregs(sim'.dut, sim'.ref) /\ sim'.dut.sram = sim'.ref.sram /\ ~sim'.is_skip_ref
      BY DEF DiffTestExact
    <2>2. sim.ref.on /\ ~sim.scanned /\ sim'.is_skip_ref = sim.is_skip_ref
      BY Zenon DEF SameMachines
    <2>3. sim.pc # "failed" /\ sim'.pc # "failed"
      OBVIOUS
    <2>4. sim.mistake # "compared" /\ checkregs(sim.dut, sim.ref) /\ sim.dut.sram = sim.ref.sram /\ ~sim.is_skip_ref
      BY <2>1, <2>2, <2>3, Zenon DEF DiffTestExact
    <2> QED
      BY <2>2, <2>3, <2>4, Zenon DEF SameMachines
  <1> QED
    BY <1>2, <1>3, <1>4 DEF SimInv

\* The end of a run of instructions.
LEMMA ExecDoneStep == ASSUME simTypeOK, SimInv, ExecDone PROVE simTypeOK' /\ SimInv'
  <1>1. sim \in SimType
    BY DEF simTypeOK, SimType
  <1>2. PICK p \in Stage : p \in {"after", "end"} /\ sim' = [sim EXCEPT !.pc = p]
    BY DEF ExecDone, Stage
  <1>3. sim' \in SimType /\ sim'.pc = p /\ SameMachines /\ sim'.is_skip_ref = sim.is_skip_ref /\ sim'.scanned = sim.scanned
    BY ONLY <1>1, <1>2 DEF SimType, SameMachines
  <1>4. sim.pc = "exec"
    BY DEF ExecDone
  <1> QED
    BY <1>2, <1>3, <1>4, StageStep DEF simTypeOK, SimType

\* Back to the prompt.
LEMMA AfterCommandStep == ASSUME simTypeOK, SimInv, AfterCommand PROVE simTypeOK' /\ SimInv'
  <1>1. sim \in SimType
    BY DEF simTypeOK, SimType
  <1>2. PICK p \in Stage : p \in {"sdb", "end"} /\ sim' = [sim EXCEPT !.pc = p]
    BY DEF AfterCommand, Stage
  <1>3. sim' \in SimType /\ sim'.pc = p /\ SameMachines /\ sim'.is_skip_ref = sim.is_skip_ref /\ sim'.scanned = sim.scanned
    BY ONLY <1>1, <1>2 DEF SimType, SameMachines
  <1>4. sim.pc = "after"
    BY DEF AfterCommand
  <1> QED
    BY <1>2, <1>3, <1>4, StageStep DEF simTypeOK, SimType

\* A command of the debugger: reading outside the memories makes the next
\* comparison a copy, and is noted.
LEMMA CommandStep == ASSUME simTypeOK, SimInv, NEW c \in Commands, sdb_mainloop(c) PROVE simTypeOK' /\ SimInv'
  <1> DEFINE s == [sim EXCEPT !.cmds = @ + 1]
  <1>1. sim \in SimType /\ sim.pc = "sdb"
    BY DEF simTypeOK, SimType, sdb_mainloop
  <1>2. /\ s \in SimType /\ s.flash_boot = sim.flash_boot /\ s.img = sim.img /\ s.mrom = sim.mrom /\ s.flash = sim.flash
        /\ s.sram = sim.sram /\ s.dut = sim.dut /\ s.ref = sim.ref /\ s.finish = sim.finish /\ s.mistake = sim.mistake
        /\ s.is_skip_ref = sim.is_skip_ref /\ s.scanned = sim.scanned
    <2>1. PICK d \in Nat : d = sim.cmds + 1
      BY <1>1 DEF SimType
    <2>2. s = [sim EXCEPT !.cmds = d]
      BY <2>1
    <2> HIDE DEF s
    <2> QED
      BY ONLY <1>1, <2>1, <2>2 DEF SimType
  <1>3. sim' = CASE c[1] = "c" -> [s EXCEPT !.pc = "exec", !.n = -1]
                 [] c[1] = "si" -> [s EXCEPT !.pc = "exec", !.n = c[2]]
                 [] c[1] = "x" -> [scan_memory(s, c[2], c[3]) EXCEPT !.pc = "after"]
                 [] c[1] = "info" -> [s EXCEPT !.pc = "after"]
                 [] c[1] \in {"q", "eof"} -> [s EXCEPT !.pc = "end"]
    BY DEF sdb_mainloop
  <1>4. c[1] \in {"c", "si", "x", "info", "q", "eof"} /\ (c[1] = "si" => c[2] \in Nat)
    BY SimAssumption
  <1> HIDE DEF s
  <1>5. CASE c[1] \in {"c", "si"}
    <2>1. PICK m \in Int, p \in Stage : p = "exec" /\ sim' = [s EXCEPT !.pc = p, !.n = m]
      <3>1. "exec" \in Stage /\ -1 \in Int /\ Nat \subseteq Int
        BY DEF Stage
      <3>2. CASE c[1] = "c"
        <4>1. sim' = [s EXCEPT !.pc = "exec", !.n = -1]
          BY <1>3, <3>2
        <4> QED
          BY <3>1, <4>1
      <3>3. CASE c[1] = "si"
        <4>1. sim' = [s EXCEPT !.pc = "exec", !.n = c[2]]
          BY <1>3, <3>3
        <4> QED
          BY <1>4, <3>1, <3>3, <4>1
      <3> QED
        BY <1>5, <3>2, <3>3
    <2>2. /\ sim' \in SimType /\ sim'.pc = p /\ sim'.is_skip_ref = s.is_skip_ref /\ sim'.scanned = s.scanned
          /\ sim'.flash_boot = s.flash_boot /\ sim'.img = s.img /\ sim'.mrom = s.mrom /\ sim'.flash = s.flash
          /\ sim'.sram = s.sram /\ sim'.dut = s.dut /\ sim'.ref = s.ref /\ sim'.finish = s.finish /\ sim'.mistake = s.mistake
      <3>1. s \in SimType
        BY <1>2
      <3> QED
        BY ONLY <2>1, <3>1 DEF SimType
    <2>3. SameMachines /\ sim'.is_skip_ref = sim.is_skip_ref /\ sim'.scanned = sim.scanned
      BY <1>2, <2>2, Zenon DEF SameMachines
    <2> QED
      BY <1>1, <2>1, <2>2, <2>3, StageStep DEF simTypeOK, SimType
  <1>6. CASE c[1] \in {"info", "q", "eof"}
    <2>1. PICK p \in Stage : p \in {"after", "end"} /\ sim' = [s EXCEPT !.pc = p]
      <3>1. CASE c[1] = "info"
        BY <1>3, <3>1 DEF Stage
      <3>2. CASE c[1] \in {"q", "eof"}
        BY <1>3, <3>2 DEF Stage
      <3> QED
        BY <1>6, <3>1, <3>2
    <2>2. /\ sim' \in SimType /\ sim'.pc = p /\ sim'.is_skip_ref = s.is_skip_ref /\ sim'.scanned = s.scanned
          /\ sim'.flash_boot = s.flash_boot /\ sim'.img = s.img /\ sim'.mrom = s.mrom /\ sim'.flash = s.flash
          /\ sim'.sram = s.sram /\ sim'.dut = s.dut /\ sim'.ref = s.ref /\ sim'.finish = s.finish /\ sim'.mistake = s.mistake
      <3>1. s \in SimType
        BY <1>2
      <3> QED
        BY ONLY <2>1, <3>1 DEF SimType
    <2>3. SameMachines /\ sim'.is_skip_ref = sim.is_skip_ref /\ sim'.scanned = sim.scanned
      BY <1>2, <2>2, Zenon DEF SameMachines
    <2> QED
      BY <1>1, <2>1, <2>2, <2>3, StageStep DEF simTypeOK, SimType
  <1>7. CASE c[1] = "x"
    <2> DEFINE q == scan_memory(s, c[2], c[3])
    <2>1. sim' = [q EXCEPT !.pc = "after"]
      BY <1>3, <1>7
    <2>2. q = s \/ q = Skips(s)
      BY DEF scan_memory
    <2>3. PICK i \in BOOLEAN, d \in BOOLEAN : /\ Skips(s) = [s EXCEPT !.is_skip_ref = i, !.scanned = d]
                                              /\ s.ref.on => d
      <3>1. PICK d \in BOOLEAN : d = (s.scanned \/ s.ref.on)
        OBVIOUS
      <3>2. Skips(s) = [s EXCEPT !.is_skip_ref = TRUE, !.scanned = d]
        BY <3>1 DEF Skips
      <3> QED
        BY <3>1, <3>2
    <2> HIDE DEF q
    <2>4. /\ q \in SimType
          /\ q.flash_boot = s.flash_boot /\ q.img = s.img /\ q.mrom = s.mrom /\ q.flash = s.flash
          /\ q.sram = s.sram /\ q.dut = s.dut /\ q.ref = s.ref /\ q.finish = s.finish /\ q.mistake = s.mistake
          /\ (q.is_skip_ref = s.is_skip_ref /\ q.scanned = s.scanned) \/ (q.scanned = d)
      <3>1. s \in SimType
        BY <1>2
      <3>2. CASE q = s
        BY <3>1, <3>2
      <3>3. CASE q = [s EXCEPT !.is_skip_ref = i, !.scanned = d]
        BY ONLY <2>3, <3>1, <3>3 DEF SimType
      <3> QED
        BY <2>2, <2>3, <3>2, <3>3
    <2>5. PICK p \in Stage : p = "after" /\ sim' = [q EXCEPT !.pc = p]
      BY <2>1 DEF Stage
    <2>6. /\ sim' \in SimType /\ sim'.pc = p /\ sim'.is_skip_ref = q.is_skip_ref /\ sim'.scanned = q.scanned
          /\ sim'.flash_boot = q.flash_boot /\ sim'.img = q.img /\ sim'.mrom = q.mrom /\ sim'.flash = q.flash
          /\ sim'.sram = q.sram /\ sim'.dut = q.dut /\ sim'.ref = q.ref /\ sim'.finish = q.finish /\ sim'.mistake = q.mistake
      <3>1. q \in SimType
        BY <2>4
      <3> QED
        BY ONLY <2>5, <3>1 DEF SimType
    <2>7. SameMachines
      BY <1>2, <2>4, <2>6, Zenon DEF SameMachines
    <2>8. (sim'.is_skip_ref = sim.is_skip_ref /\ sim'.scanned = sim.scanned) \/ sim'.scanned = d
      BY <1>2, <2>4, <2>6, Zenon
    <2>9. (sim'.is_skip_ref = sim.is_skip_ref /\ sim'.scanned = sim.scanned) \/ sim'.scanned \/ ~sim.ref.on
      BY <1>2, <2>3, <2>8, Zenon
    <2> QED
      BY <1>1, <2>5, <2>6, <2>7, <2>9, StageStep DEF simTypeOK, SimType
  <1> QED
    BY <1>4, <1>5, <1>6, <1>7

\* An array with an image burnt into it.
LEMMA Burnt ==
    ASSUME NEW N \in Nat \ {0}, NEW array \in [Words(N) -> Cell], NEW image \in Seq(Inst), Len(image) <= N
    PROVE  /\ Burn(array, image) \in [Words(N) -> Cell]
           /\ \A k \in 0..Len(image) - 1 : Burn(array, image)[k] = image[k + 1]
  <1>1. DOMAIN array = 0..N - 1
    BY DEF Words
  <1>2. Burn(array, image) = [k \in 0..N - 1 |-> IF k < Len(image) THEN image[k + 1] ELSE array[k]]
    BY <1>1 DEF Burn
  <1>3. Len(image) \in Nat
    OBVIOUS
  <1>4. ASSUME NEW k \in 0..N - 1 PROVE (IF k < Len(image) THEN image[k + 1] ELSE array[k]) \in Cell
    <2>1. CASE k < Len(image)
      <3>1. k + 1 \in 1..Len(image)
        BY <1>3, <2>1
      <3>2. image[k + 1] \in Inst
        BY <3>1
      <3> QED
        BY <2>1, <3>2 DEF Cell
    <2>2. CASE ~(k < Len(image))
      <3>1. array[k] \in Cell
        BY DEF Words
      <3> QED
        BY <2>2, <3>1
    <2> QED
      BY <2>1, <2>2
  <1>5. Burn(array, image) \in [Words(N) -> Cell]
    BY <1>2, <1>4 DEF Words
  <1>6. ASSUME NEW k \in 0..Len(image) - 1 PROVE Burn(array, image)[k] = image[k + 1]
    <2>1. k \in 0..N - 1 /\ k < Len(image)
      BY <1>3
    <2> QED
      BY <1>2, <2>1
  <1> QED
    BY <1>5, <1>6

\* The image loaded ends in an instruction that stops.
LEMMA LoadStep ==
    ASSUME simTypeOK, SimInv, NEW image \in Images, NEW has_file \in BOOLEAN, NEW flash_boot \in BOOLEAN,
           NEW diff \in BOOLEAN, NEW batch \in BOOLEAN, load_img(image, has_file, flash_boot, diff, batch)
    PROVE  simTypeOK' /\ SimInv'
  <1> DEFINE used == IF has_file THEN image ELSE BuiltIn
             capacity == IF flash_boot THEN FLASH_SIZE ELSE MROM_SIZE
  <1>1. sim \in SimType /\ sim.pc = "main"
    BY DEF simTypeOK, SimType, load_img
  <1>2. /\ ~sim.ref.on /\ sim.mistake = "none" /\ ~sim.is_skip_ref /\ ~sim.scanned /\ ~sim.finish
        /\ sim.dut.pc[2] = 0 /\ sim.dut.sram = sim.sram
    BY <1>1 DEF SimInv
  <1>3. CASE has_file /\ Len(image) \notin 1..capacity
    <2>1. PICK p \in Stage : p = "abort" /\ sim' = [sim EXCEPT !.pc = p]
      BY <1>3 DEF load_img, Stage
    <2>2. /\ sim' \in SimType /\ sim'.pc = p /\ SameMachines /\ sim'.is_skip_ref = sim.is_skip_ref /\ sim'.scanned = sim.scanned
      BY ONLY <1>1, <2>1 DEF SimType, SameMachines
    <2>3. /\ ~sim'.ref.on /\ sim'.mistake = "none" /\ ~sim'.is_skip_ref /\ ~sim'.scanned /\ ~sim'.finish
          /\ sim'.dut.pc[2] = 0 /\ sim'.dut.sram = sim'.sram
      BY <1>2, <2>2, Zenon DEF SameMachines
    <2>4. sim'.pc = "abort"
      BY <2>1, <2>2
    <2>5. SimInv'
      BY <2>3, <2>4 DEF SimInv, DiffTestExact
    <2> QED
      BY <2>2, <2>5 DEF simTypeOK, SimType
  <1>4. CASE ~(has_file /\ Len(image) \notin 1..capacity)
    <2>1. used \in Seq(Inst) /\ Len(used) \in 1..capacity /\ \E k \in 1..Len(used) : used[k] \in Stops
      <3>1. CASE has_file
        <4>1. image \in Seq(Inst) /\ Len(image) \in 1..capacity
          BY <1>4, <3>1, SimAssumption
        <4>2. image # <<>>
          BY <4>1
        <4>3. PICK k \in DOMAIN image : image[k] \in Stops
          BY <4>2, SimAssumption
        <4>4. k \in 1..Len(image)
          BY <4>1, <4>3
        <4> QED
          BY <3>1, <4>1, <4>3, <4>4
      <3>2. CASE ~has_file
        <4>1. BuiltIn \in Seq(Inst) /\ Len(BuiltIn) = 1 /\ BuiltIn[1] = <<"j">>
          BY DEF BuiltIn, Inst
        <4>2. capacity \in Nat \ {0}
          BY SimAssumption
        <4>3. BuiltIn[1] \in Stops /\ 1 \in 1..1
          BY <4>1 DEF Stops
        <4>4. used = BuiltIn
          BY <3>2
        <4>5. \E k \in 1..Len(BuiltIn) : BuiltIn[k] \in Stops
          BY <4>1, <4>3
        <4>6. Len(BuiltIn) \in 1..capacity
          BY <4>1, <4>2
        <4> QED
          BY <4>1, <4>4, <4>5, <4>6
      <3> QED
        BY <3>1, <3>2
    <2> DEFINE m == Len(used)
               fl == IF flash_boot THEN Burn(sim.flash, used) ELSE sim.flash
               mr == IF flash_boot THEN sim.mrom ELSE Burn(sim.mrom, used)
               code == IF flash_boot THEN fl ELSE mr
    <2>2. sim' = [sim EXCEPT !.pc = "reset", !.flash_boot = flash_boot, !.diff = diff, !.batch = batch, !.img = m,
                             !.flash = fl, !.mrom = mr]
      BY <1>4 DEF load_img
    <2>3. sim.flash \in FlashArray /\ sim.mrom \in Mrom
      BY <1>1 DEF SimType
    <2>4. m \in Nat /\ fl \in FlashArray /\ mr \in Mrom /\ \A k \in 0..m - 1 : code[k] = used[k + 1]
      <3>0. m \in Nat
        BY <2>1
      <3>1. CASE flash_boot
        <4>1. FLASH_SIZE \in Nat \ {0} /\ sim.flash \in [Words(FLASH_SIZE) -> Cell] /\ used \in Seq(Inst) /\ Len(used) <= FLASH_SIZE
          BY <2>1, <2>3, <3>1, SimAssumption DEF FlashArray
        <4> HIDE DEF used
        <4>2. /\ Burn(sim.flash, used) \in [Words(FLASH_SIZE) -> Cell]
              /\ \A k \in 0..Len(used) - 1 : Burn(sim.flash, used)[k] = used[k + 1]
          BY ONLY <4>1, Burnt
        <4> QED
          BY <2>3, <3>0, <3>1, <4>2 DEF FlashArray
      <3>2. CASE ~flash_boot
        <4>1. MROM_SIZE \in Nat \ {0} /\ sim.mrom \in [Words(MROM_SIZE) -> Cell] /\ used \in Seq(Inst) /\ Len(used) <= MROM_SIZE
          BY <2>1, <2>3, <3>2, SimAssumption DEF Mrom
        <4> HIDE DEF used
        <4>2. /\ Burn(sim.mrom, used) \in [Words(MROM_SIZE) -> Cell]
              /\ \A k \in 0..Len(used) - 1 : Burn(sim.mrom, used)[k] = used[k + 1]
          BY ONLY <4>1, Burnt
        <4> QED
          BY <2>3, <3>0, <3>2, <4>2 DEF Mrom
      <3> QED
        BY <3>1, <3>2
    <2>5. PICK p \in Stage : p = "reset"
      BY DEF Stage
    <2>6. PICK f2 \in FlashArray, m2 \in Mrom, n2 \in Nat : f2 = fl /\ m2 = mr /\ n2 = m
      BY <2>4
    <2>7. sim' = [sim EXCEPT !.pc = p, !.flash_boot = flash_boot, !.diff = diff, !.batch = batch, !.img = n2, !.flash = f2, !.mrom = m2]
      BY <2>2, <2>5, <2>6
    <2>8. /\ flash_boot \in BOOLEAN /\ diff \in BOOLEAN /\ batch \in BOOLEAN
          /\ p \in Stage /\ f2 \in FlashArray /\ m2 \in Mrom /\ n2 \in Nat
      BY <2>5, <2>6
    <2>9. /\ sim' \in SimType /\ sim'.pc = p /\ sim'.flash_boot = flash_boot /\ sim'.img = n2 /\ sim'.flash = f2 /\ sim'.mrom = m2
          /\ sim'.ref = sim.ref /\ sim'.mistake = sim.mistake /\ sim'.is_skip_ref = sim.is_skip_ref /\ sim'.scanned = sim.scanned
          /\ sim'.finish = sim.finish /\ sim'.dut = sim.dut /\ sim'.sram = sim.sram
      BY ONLY <1>1, <2>7, <2>8 DEF SimType
    <2>10. /\ ~sim'.ref.on /\ sim'.mistake = "none" /\ ~sim'.is_skip_ref /\ ~sim'.scanned /\ ~sim'.finish
           /\ sim'.dut.pc[2] = 0 /\ sim'.dut.sram = sim'.sram
      BY <1>2, <2>9, Zenon
    <2>11. Loaded'
      <3>1. sim'.img <= IF sim'.flash_boot THEN FLASH_SIZE ELSE MROM_SIZE
        BY <2>1, <2>6, <2>9
      <3>2. PICK k \in 1..m : used[k] \in Stops
        BY <2>1
      <3>3. k - 1 \in 0..m - 1 /\ (k - 1) + 1 = k
        BY <2>1, <3>2
      <3>4. code[k - 1] \in Stops
        BY <2>4, <3>2, <3>3
      <3>5. Code' = code
        BY <2>6, <2>9 DEF Code
      <3>6. sim'.img = m
        BY <2>6, <2>9
      <3> QED
        BY <3>1, <3>3, <3>4, <3>5, <3>6 DEF Loaded
    <2>12. SimInv'
      BY <2>5, <2>9, <2>10, <2>11 DEF SimInv, DiffTestExact
    <2> QED
      BY <2>9, <2>12 DEF simTypeOK, SimType
  <1> QED
    BY <1>3, <1>4

\* The core starts at the first instruction.
LEMMA ResetStep == ASSUME simTypeOK, SimInv, reset PROVE simTypeOK' /\ SimInv'
  <1> DEFINE a == IF sim.flash_boot THEN <<"flash", 0>> ELSE <<"mrom", 0>>
             d == [sim.dut EXCEPT !.pc = a]
  <1>1. sim \in SimType /\ sim.pc = "reset"
    BY DEF simTypeOK, SimType, reset
  <1>2. /\ ~sim.ref.on /\ sim.mistake = "none" /\ ~sim.is_skip_ref /\ ~sim.scanned /\ ~sim.finish
        /\ sim.dut.sram = sim.sram /\ Loaded
    BY <1>1 DEF SimInv
  <1>3. sim' = [sim EXCEPT !.pc = "init_difftest", !.dut = d]
    BY DEF reset, npc_reset_pc
  <1>4. a \in Address /\ a[1] = (IF sim.flash_boot THEN "flash" ELSE "mrom") /\ a[2] = 0
    BY DEF Address
  <1>5. sim.dut \in Machine
    BY <1>1 DEF SimType
  <1> HIDE DEF a
  <1>6. d \in Machine /\ d.pc = a /\ d.sram = sim.dut.sram
    BY ONLY <1>4, <1>5 DEF Machine
  <1> HIDE DEF d
  <1>7. PICK p \in Stage : p = "init_difftest" /\ sim' = [sim EXCEPT !.pc = p, !.dut = d]
    BY <1>3 DEF Stage
  <1>8. /\ sim' \in SimType /\ sim'.pc = p /\ sim'.flash_boot = sim.flash_boot /\ sim'.img = sim.img /\ sim'.flash = sim.flash /\ sim'.mrom = sim.mrom
        /\ sim'.ref = sim.ref /\ sim'.mistake = sim.mistake /\ sim'.is_skip_ref = sim.is_skip_ref /\ sim'.scanned = sim.scanned
        /\ sim'.finish = sim.finish /\ sim'.dut = d /\ sim'.sram = sim.sram
    BY ONLY <1>1, <1>6, <1>7 DEF SimType
  <1>9. Loaded'
    <2>1. Code' = Code
      BY <1>8, Zenon DEF Code
    <2> QED
      BY <1>2, <1>8, <2>1, Zenon DEF Loaded
  <1>10. sim'.dut.pc[2] = 0 /\ sim'.dut.sram = sim'.sram
    BY <1>2, <1>4, <1>6, <1>8
  <1>11. InProgram'
    <2>1. sim'.dut.pc[1] = IF sim'.flash_boot THEN "flash" ELSE "mrom"
      BY <1>4, <1>6, <1>8
    <2>2. 0..sim'.dut.pc[2] - 1 = {}
      BY <1>10
    <2> QED
      BY <2>1, <2>2 DEF InProgram
  <1>12. ~sim'.ref.on /\ sim'.mistake = "none" /\ ~sim'.is_skip_ref /\ ~sim'.scanned /\ ~sim'.finish
    BY <1>2, <1>8, Zenon
  <1> QED
    BY <1>7, <1>8, <1>9, <1>10, <1>11, <1>12 DEF SimInv, DiffTestExact, simTypeOK, SimType

\* What init_difftest copies to the reference is the program.
LEMMA DifftestStep == ASSUME simTypeOK, SimInv, init_difftest PROVE simTypeOK' /\ SimInv'
  <1> DEFINE size == IF sim.flash_boot THEN sim.img ELSE 0
             fl == Copied(sim.flash, size)
             sr == [k \in DOMAIN sim.sram |-> 0]
             r == [on |-> TRUE, pc |-> sim.dut.pc, x |-> sim.dut.x, mrom |-> sim.mrom, sram |-> sr, flash |-> fl]
             ref == IF ~sim.diff THEN sim.ref ELSE r
  <1>1. sim \in SimType /\ sim.pc = "init_difftest"
    BY DEF simTypeOK, SimType, init_difftest
  <1>2. /\ ~sim.ref.on /\ sim.mistake = "none" /\ ~sim.is_skip_ref /\ ~sim.scanned /\ ~sim.finish
        /\ sim.dut.sram = sim.sram /\ Loaded /\ InProgram
    BY <1>1 DEF SimInv
  <1>3. PICK p \in Stage, m \in Int : p \in {"exec", "sdb"} /\ sim' = [sim EXCEPT !.pc = p, !.n = m, !.ref = ref]
    <2>1. sim' = [sim EXCEPT !.pc = IF sim.batch THEN "exec" ELSE "sdb", !.n = IF sim.batch THEN -1 ELSE 0, !.ref = ref]
      BY DEF init_difftest
    <2> HIDE DEF ref
    <2>2. -1 \in Int /\ 0 \in Int /\ "exec" \in Stage /\ "sdb" \in Stage
      BY DEF Stage
    <2>3. CASE sim.batch
      <3>1. sim' = [sim EXCEPT !.pc = "exec", !.n = -1, !.ref = ref]
        BY <2>1, <2>3
      <3> QED
        BY <2>2, <3>1
    <2>4. CASE ~sim.batch
      <3>1. sim' = [sim EXCEPT !.pc = "sdb", !.n = 0, !.ref = ref]
        BY <2>1, <2>4
      <3> QED
        BY <2>2, <3>1
    <2> QED
      BY <2>3, <2>4
  <1>4. sim.flash \in FlashArray /\ sim.mrom \in Mrom /\ sim.sram \in ZeroSram /\ sim.img \in Nat
        /\ sim.dut.pc \in Address /\ sim.dut.x \in 0..2 /\ sim.dut.sram \in Sram /\ sim.ref \in RefType
    <2>1. sim.dut \in Machine
      BY <1>1 DEF SimType
    <2>2. sim.dut.pc \in Address /\ sim.dut.x \in 0..2 /\ sim.dut.sram \in Sram
      BY <2>1 DEF Machine
    <2> QED
      BY <1>1, <2>2 DEF SimType, ZeroSram, RefType
  <1>5. sr = sim.sram
    BY <1>4 DEF ZeroSram
  <1>6. fl \in FlashArray /\ (sim.flash_boot => \A k \in 0..sim.img - 1 : fl[k] = sim.flash[k])
    <2>1. DOMAIN sim.flash = 0..FLASH_SIZE - 1
      BY <1>4 DEF FlashArray, Words
    <2>2. fl = [k \in 0..FLASH_SIZE - 1 |-> IF k < size THEN sim.flash[k] ELSE <<"zero", k>>]
      BY <2>1 DEF Copied
    <2>3. ASSUME NEW k \in 0..FLASH_SIZE - 1 PROVE (IF k < size THEN sim.flash[k] ELSE <<"zero", k>>) \in Cell
      <3>1. sim.flash[k] \in Cell
        BY <1>4 DEF FlashArray, Words
      <3>2. <<"zero", k>> \in {"zero", "pattern", "erased"} \X Nat
        OBVIOUS
      <3> QED
        BY <3>1, <3>2 DEF Cell
    <2>4. fl \in FlashArray
      BY <2>2, <2>3 DEF FlashArray, Words
    <2>5. ASSUME sim.flash_boot, NEW k \in 0..sim.img - 1 PROVE fl[k] = sim.flash[k]
      <3>1. sim.img <= FLASH_SIZE
        BY <1>2, <2>5 DEF Loaded
      <3>2. k \in 0..FLASH_SIZE - 1 /\ k < size
        BY <1>4, <2>5, <3>1, SimAssumption
      <3> QED
        BY <2>2, <3>2
    <2> QED
      BY <2>4, <2>5
  <1>7. r \in Reference /\ r.on = TRUE /\ r.pc = sim.dut.pc /\ r.x = sim.dut.x /\ r.mrom = sim.mrom /\ r.flash = fl /\ r.sram = sr
    <2>1. sr \in Sram
      BY <1>2, <1>4, <1>5
    <2> HIDE DEF sr, fl
    <2> QED
      BY <1>4, <1>6, <2>1 DEF Reference
  <1> HIDE DEF r, fl, sr
  <1>8. ref \in RefType
    BY <1>4, <1>7 DEF RefType
  <1> HIDE DEF ref
  <1>9. /\ sim' \in SimType /\ sim'.pc = p /\ sim'.flash_boot = sim.flash_boot /\ sim'.img = sim.img /\ sim'.flash = sim.flash /\ sim'.mrom = sim.mrom
        /\ sim'.ref = ref /\ sim'.mistake = sim.mistake /\ sim'.is_skip_ref = sim.is_skip_ref /\ sim'.scanned = sim.scanned
        /\ sim'.finish = sim.finish /\ sim'.dut = sim.dut /\ sim'.sram = sim.sram
    <2>1. sim \in SimType
      BY <1>1
    <2>2. ref \in {simInit.ref} \cup Reference
      BY <1>8 DEF RefType
    <2> QED
      BY ONLY <2>1, <2>2, <1>3 DEF SimType
  <1>10. Code' = Code
    BY <1>9, Zenon DEF Code
  <1>11. Loaded'
    BY <1>2, <1>9, <1>10, Zenon DEF Loaded
  <1>12. InProgram'
    BY <1>2, <1>9, <1>10, Zenon DEF InProgram
  <1>13. sim'.mistake = "none" /\ ~sim'.is_skip_ref
    BY <1>2, <1>9, Zenon
  <1>14. CASE ~sim.diff
    <2>1. ~sim'.ref.on
      BY <1>2, <1>9, <1>14, Zenon DEF ref
    <2> QED
      BY <1>3, <1>9, <1>11, <1>12, <2>1 DEF SimInv, DiffTestExact, simTypeOK, SimType
  <1>15. CASE sim.diff
    <2>1. sim'.ref = r
      BY <1>9, <1>15, Zenon DEF ref
    <2>2. \A k \in 0..sim'.img - 1 : IF sim'.flash_boot THEN sim'.ref.flash[k] = sim'.flash[k] ELSE sim'.ref.mrom[k] = sim'.mrom[k]
      BY <1>6, <1>7, <1>9, <2>1, Zenon
    <2>3. checkregs(sim'.dut, sim'.ref) /\ sim'.dut.sram = sim'.ref.sram
      BY <1>2, <1>5, <1>7, <1>9, <2>1, Zenon DEF checkregs
    <2>4. DiffTestExact'
      BY <1>3, <1>9, <1>13, <2>3 DEF DiffTestExact
    <2> QED
      BY <1>3, <1>9, <1>11, <1>12, <2>2, <2>4 DEF SimInv, simTypeOK, SimType
  <1> QED
    BY <1>14, <1>15

\* What an instruction makes of the registers and of the SRAM.
NextPc(pc, inst) == IF inst = <<"j">> THEN pc ELSE <<pc[1], pc[2] + 1>>
NextX(x, sram, inst, in) ==
    CASE inst = <<"add">> -> (x + 1) % 3
      [] inst = <<"lw">> -> sram[0]
      [] inst = <<"dev">> -> in
      [] OTHER -> x
NextSram(x, sram, inst) == IF inst = <<"sw">> THEN [sram EXCEPT ![0] = x] ELSE sram

\* They keep their types.
LEMMA NextTypes ==
    ASSUME NEW pc \in Address, NEW x \in 0..2, NEW sram \in Sram, NEW inst, NEW in \in 0..1
    PROVE  /\ NextPc(pc, inst) \in Address /\ NextX(x, sram, inst, in) \in 0..2 /\ NextSram(x, sram, inst) \in Sram
           /\ NextPc(pc, inst)[1] = pc[1]
           /\ NextPc(pc, inst)[2] = IF inst = <<"j">> THEN pc[2] ELSE pc[2] + 1
  <1>1. pc[1] \in {"none", "mrom", "flash"} /\ pc[2] \in Nat
    BY DEF Address
  <1>2. 0 \in Words(SRAM_SIZE) /\ sram[0] \in 0..2
    BY SimAssumption DEF Words, Sram
  <1>3. (x + 1) % 3 \in 0..2
    OBVIOUS
  <1>4. <<pc[1], pc[2] + 1>> \in Address
    BY <1>1 DEF Address
  <1>5. NextX(x, sram, inst, in) \in 0..2
    BY <1>2, <1>3 DEF NextX
  <1>6. NextSram(x, sram, inst) \in Sram
    BY <1>2 DEF NextSram, Sram
  <1> QED
    BY <1>1, <1>4, <1>5, <1>6 DEF NextPc

\* The core executes an instruction.
LEMMA ExecutedCore ==
    ASSUME NEW m \in Machine, NEW inst, NEW in \in 0..1
    PROVE  LET e == Executed(m, inst, in) IN
           /\ e \in Machine /\ e.pc = NextPc(m.pc, inst) /\ e.x = NextX(m.x, m.sram, inst, in) /\ e.sram = NextSram(m.x, m.sram, inst)
  <1> DEFINE a == NextPc(m.pc, inst)  b == NextX(m.x, m.sram, inst, in)  c == NextSram(m.x, m.sram, inst)  e == Executed(m, inst, in)
  <1>1. m.pc \in Address /\ m.x \in 0..2 /\ m.sram \in Sram
    BY DEF Machine
  <1>2. a \in Address /\ b \in 0..2 /\ c \in Sram
    BY <1>1, NextTypes
  <1>3. e = [m EXCEPT !.pc = a, !.x = b, !.sram = c]
    BY DEF Executed, NextPc, NextX, NextSram, Machine
  <1> HIDE DEF a, b, c, e
  <1>4. e \in Machine /\ e.pc = a /\ e.x = b /\ e.sram = c
    BY <1>2, <1>3 DEF Machine
  <1> QED
    BY <1>4 DEF a, b, c, e

\* The reference executes an instruction.
LEMMA ExecutedReference ==
    ASSUME NEW m \in Reference, NEW inst, NEW in \in 0..1
    PROVE  LET e == Executed(m, inst, in) IN
           /\ e \in Reference /\ e.pc = NextPc(m.pc, inst) /\ e.x = NextX(m.x, m.sram, inst, in) /\ e.sram = NextSram(m.x, m.sram, inst)
           /\ e.flash = m.flash /\ e.mrom = m.mrom
  <1> DEFINE a == NextPc(m.pc, inst)  b == NextX(m.x, m.sram, inst, in)  c == NextSram(m.x, m.sram, inst)  e == Executed(m, inst, in)
  <1>1. m.pc \in Address /\ m.x \in 0..2 /\ m.sram \in Sram
    BY DEF Reference
  <1>2. a \in Address /\ b \in 0..2 /\ c \in Sram
    BY <1>1, NextTypes
  <1>3. e = [m EXCEPT !.pc = a, !.x = b, !.sram = c]
    BY DEF Executed, NextPc, NextX, NextSram, Reference
  <1> HIDE DEF a, b, c, e
  <1>4. e \in Reference /\ e.pc = a /\ e.x = b /\ e.sram = c /\ e.flash = m.flash /\ e.mrom = m.mrom
    BY <1>2, <1>3 DEF Reference
  <1> QED
    BY <1>4 DEF a, b, c, e

\* The core with a wrong result differs in x and in nothing else.
LEMMA CoreResult ==
    ASSUME sim.dut \in Machine, NEW inst, NEW in \in 0..1, NEW wrong \in BOOLEAN, NEW d, d = Core(inst, in, wrong)
    PROVE  /\ d \in Machine /\ d.pc = NextPc(sim.dut.pc, inst) /\ d.sram = NextSram(sim.dut.x, sim.dut.sram, inst)
           /\ ~wrong => d.x = NextX(sim.dut.x, sim.dut.sram, inst, in)
           /\ wrong => d.x # NextX(sim.dut.x, sim.dut.sram, inst, in)
  <1> DEFINE e == Executed(sim.dut, inst, in)  y == (e.x + 1) % 3
  <1>1. /\ e \in Machine /\ e.pc = NextPc(sim.dut.pc, inst) /\ e.x = NextX(sim.dut.x, sim.dut.sram, inst, in)
        /\ e.sram = NextSram(sim.dut.x, sim.dut.sram, inst)
    <2>1. PICK m \in Machine : m = sim.dut
      OBVIOUS
    <2>2. LET f == Executed(m, inst, in) IN
          /\ f \in Machine /\ f.pc = NextPc(m.pc, inst) /\ f.x = NextX(m.x, m.sram, inst, in) /\ f.sram = NextSram(m.x, m.sram, inst)
      BY ExecutedCore, Zenon
    <2> QED
      BY <2>1, <2>2, Zenon
  <1>2. d = IF wrong THEN [e EXCEPT !.x = y] ELSE e
    BY DEF Core
  <1> HIDE DEF e
  <1>3. e.x \in 0..2
    BY <1>1 DEF Machine
  <1>4. y \in 0..2 /\ y # e.x
    BY <1>3
  <1> HIDE DEF y
  <1>5. CASE wrong
    <2>1. d = [e EXCEPT !.x = y]
      BY <1>2, <1>5
    <2>2. d \in Machine /\ d.pc = e.pc /\ d.sram = e.sram /\ d.x = y
      BY ONLY <1>1, <1>4, <2>1 DEF Machine
    <2> QED
      BY <1>1, <1>4, <1>5, <2>2
  <1>6. CASE ~wrong
    BY <1>1, <1>2, <1>6
  <1> QED
    BY <1>5, <1>6

\* The core is at an instruction of the program.
LEMMA CoreFetches ==
    ASSUME simTypeOK, SimInv, sim.pc = "exec", ~sim.finish
    PROVE  /\ sim.dut.pc[2] \in 0..sim.img - 1
           /\ Fetch(sim, sim.dut.pc) = Code[sim.dut.pc[2]]
           /\ DOMAIN Code = Words(IF sim.flash_boot THEN FLASH_SIZE ELSE MROM_SIZE)
           /\ sim.dut.pc[2] \in DOMAIN Code
  <1> DEFINE size == IF sim.flash_boot THEN FLASH_SIZE ELSE MROM_SIZE  p == sim.dut.pc[2]
  <1>1. sim \in SimType /\ Loaded /\ InProgram
    BY DEF simTypeOK, SimType, SimInv
  <1>2. sim.dut \in Machine /\ sim.flash \in FlashArray /\ sim.mrom \in Mrom /\ sim.img \in Nat
    BY <1>1 DEF SimType
  <1>3. sim.dut.pc \in Address
    BY <1>2 DEF Machine
  <1>4. p \in Nat
    BY <1>3 DEF Address
  <1>5. PICK k \in 0..sim.img - 1 : Code[k] \in Stops
    BY <1>1 DEF Loaded
  <1>6. \A j \in 0..p - 1 : Code[j] \notin Stops
    BY <1>1 DEF InProgram
  <1>7. p <= k
    BY <1>2, <1>4, <1>5, <1>6
  <1>8. p \in 0..sim.img - 1 /\ sim.img <= size
    BY <1>1, <1>2, <1>4, <1>5, <1>7 DEF Loaded
  <1>9. DOMAIN Code = Words(size)
    BY <1>2 DEF Code, FlashArray, Mrom
  <1>10. p \in Words(size)
    BY <1>2, <1>8, SimAssumption DEF Words
  <1>11. Area(sim, sim.dut.pc[1]) = Code
    BY <1>1 DEF InProgram, Area, Code
  <1> QED
    BY <1>8, <1>9, <1>10, <1>11 DEF Fetch

\* An instruction: the core and the reference execute the same one, so that
\* they differ exactly when the core is wrong; one that is skipped is copied.
LEMMA CommitStep ==
    ASSUME simTypeOK, SimInv, NEW in \in 0..1, NEW wrong \in BOOLEAN, Commit(in, wrong)
    PROVE  simTypeOK' /\ SimInv'
  <1> DEFINE inst == Fetch(sim, sim.dut.pc)
             d == Core(inst, in, wrong)
             skip == npc_check_skip(inst)
             s == [sim EXCEPT !.dut = Core(inst, in, wrong), !.finish = (inst = <<"ebreak">>), !.n = IF @ > 0 THEN @ - 1 ELSE @,
                         !.mistake = IF wrong THEN (IF npc_check_skip(inst) THEN "skipped" ELSE "compared") ELSE @]
  <1>1. sim \in SimType /\ sim.pc = "exec" /\ ~sim.finish /\ (wrong => sim.mistake = "none")
    BY DEF simTypeOK, SimType, Commit
  <1>2. sim' = IF ~s.ref.on THEN s ELSE IF npc_check_skip(inst) \/ s.is_skip_ref THEN Sync(s) ELSE Compare(s)
    BY DEF Commit
  <1>3. Loaded /\ InProgram /\ DiffTestExact
        /\ (sim.ref.on => \A k \in 0..sim.img - 1 : IF sim.flash_boot THEN sim.ref.flash[k] = sim.flash[k] ELSE sim.ref.mrom[k] = sim.mrom[k])
    BY <1>1 DEF SimInv
  <1>4. sim.dut \in Machine /\ sim.flash \in FlashArray /\ sim.mrom \in Mrom /\ sim.img \in Nat /\ sim.n \in Int /\ sim.mistake \in Mistake
        /\ sim.ref \in {simInit.ref} \cup Reference
    BY <1>1 DEF SimType
  <1>5. /\ d \in Machine /\ d.pc = NextPc(sim.dut.pc, inst) /\ d.sram = NextSram(sim.dut.x, sim.dut.sram, inst)
        /\ ~wrong => d.x = NextX(sim.dut.x, sim.dut.sram, inst, in)
        /\ wrong => d.x # NextX(sim.dut.x, sim.dut.sram, inst, in)
    <2>1. PICK i : i = inst
      OBVIOUS
    <2>2. PICK e : e = Core(i, in, wrong)
      OBVIOUS
    <2>3. /\ e \in Machine /\ e.pc = NextPc(sim.dut.pc, i) /\ e.sram = NextSram(sim.dut.x, sim.dut.sram, i)
          /\ ~wrong => e.x = NextX(sim.dut.x, sim.dut.sram, i, in)
          /\ wrong => e.x # NextX(sim.dut.x, sim.dut.sram, i, in)
      BY <1>4, <2>2, CoreResult, Zenon
    <2> HIDE DEF inst
    <2> QED
      BY <2>1, <2>2, <2>3, Zenon
  <1>6. /\ sim.dut.pc[2] \in 0..sim.img - 1 /\ inst = Code[sim.dut.pc[2]]
    BY <1>1, CoreFetches
  <1>7. PICK f \in BOOLEAN, m \in Int, w \in Mistake :
           /\ f <=> inst = <<"ebreak">>
           /\ w = IF wrong THEN (IF skip THEN "skipped" ELSE "compared") ELSE sim.mistake
           /\ s = [sim EXCEPT !.dut = d, !.finish = f, !.n = m, !.mistake = w]
    <2>1. PICK f \in BOOLEAN : f = (inst = <<"ebreak">>)
      OBVIOUS
    <2>2. PICK m \in Int : m = IF sim.n > 0 THEN sim.n - 1 ELSE sim.n
      BY <1>4
    <2>3. PICK w \in Mistake : w = IF wrong THEN (IF skip THEN "skipped" ELSE "compared") ELSE sim.mistake
      BY <1>4 DEF Mistake
    <2>4. s = [sim EXCEPT !.dut = d, !.finish = f, !.n = m, !.mistake = w]
      BY <2>1, <2>2, <2>3
    <2> QED
      BY <2>1, <2>3, <2>4
  <1> HIDE DEF s, d, inst, skip
  <1>8. /\ s \in SimType /\ s.pc = sim.pc /\ s.flash_boot = sim.flash_boot /\ s.img = sim.img /\ s.flash = sim.flash /\ s.mrom = sim.mrom
        /\ s.ref = sim.ref /\ s.mistake = w /\ s.is_skip_ref = sim.is_skip_ref /\ s.scanned = sim.scanned
        /\ s.finish = f /\ s.dut = d /\ s.sram = sim.sram
    <2>1. sim \in SimType /\ d \in Machine /\ f \in BOOLEAN /\ m \in Int /\ w \in Mistake
      BY <1>1, <1>5, <1>7
    <2>2. s = [sim EXCEPT !.dut = d, !.finish = f, !.n = m, !.mistake = w]
      BY <1>7
    <2> QED
      BY ONLY <2>1, <2>2 DEF SimType
  \* What holds of any state that differs in the reference and the stage.
  <1>9. ASSUME sim' \in SimType, sim'.pc \in {"exec", "failed"}, sim'.flash_boot = s.flash_boot, sim'.img = s.img, sim'.flash = s.flash, sim'.mrom = s.mrom,
               sim'.finish = s.finish, sim'.dut = s.dut, DiffTestExact',
               sim'.ref.on => sim'.ref.flash = sim.ref.flash /\ sim'.ref.mrom = sim.ref.mrom /\ sim.ref.on
        PROVE  simTypeOK' /\ SimInv'
    <2>1. Code' = Code
      BY <1>8, <1>9, Zenon DEF Code
    <2>2. Loaded'
      BY <1>3, <1>8, <1>9, <2>1, Zenon DEF Loaded
    <2>3. InProgram'
      <3>1. sim.dut.pc \in Address
        BY <1>4 DEF Machine
      <3>2. sim.dut.pc[1] = (IF sim.flash_boot THEN "flash" ELSE "mrom") /\ \A k \in 0..sim.dut.pc[2] - 1 : Code[k] \notin Stops
        BY <1>1, <1>3 DEF InProgram
      <3>3. sim.dut.pc[2] \in Nat
        BY <3>1 DEF Address
      <3>4. d.pc[1] = sim.dut.pc[1] /\ d.pc[2] = IF inst = <<"j">> THEN sim.dut.pc[2] ELSE sim.dut.pc[2] + 1
        BY <1>5, <3>1, <3>3 DEF NextPc
      <3>5. sim'.dut.pc[1] = IF sim'.flash_boot THEN "flash" ELSE "mrom"
        BY <1>8, <1>9, <3>2, <3>4, Zenon
      <3>6. ASSUME ~sim'.finish PROVE \A k \in 0..sim'.dut.pc[2] - 1 : Code[k] \notin Stops
        <4>1. inst # <<"ebreak">>
          BY <1>7, <1>8, <1>9, <3>6, Zenon
        <4>2. sim'.dut.pc[2] = d.pc[2]
          BY <1>8, <1>9, Zenon
        <4>3. CASE inst = <<"j">>
          BY <3>2, <3>4, <4>2, <4>3
        <4>4. CASE inst # <<"j">>
          <5>1. Code[sim.dut.pc[2]] \notin Stops
            BY <1>6, <4>1, <4>4 DEF Stops
          <5> QED
            BY <3>2, <3>3, <3>4, <4>2, <4>4, <5>1
        <4> QED
          BY <4>3, <4>4
      <3> QED
        BY <2>1, <3>5, <3>6, Zenon DEF InProgram
    <2>4. sim'.ref.on => \A k \in 0..sim'.img - 1 :
            IF sim'.flash_boot THEN sim'.ref.flash[k] = sim'.flash[k] ELSE sim'.ref.mrom[k] = sim'.mrom[k]
      BY <1>3, <1>8, <1>9, Zenon
    <2> QED
      BY <1>9, <2>2, <2>3, <2>4 DEF SimInv, simTypeOK, SimType
  <1>10. CASE ~s.ref.on
    <2>1. sim' = s
      BY <1>2, <1>10
    <2>2. ~sim'.ref.on /\ sim'.pc = "exec"
      BY <1>1, <1>8, <1>10, <2>1, Zenon
    <2>3. DiffTestExact'
      BY <2>2, Zenon DEF DiffTestExact
    <2> QED
      BY <1>8, <1>9, <2>1, <2>2, <2>3
  <1>11. CASE s.ref.on
    <2>1. sim.ref.on /\ sim.ref \in Reference
      <3>1. ~simInit.ref.on
        BY DEF simInit
      <3>2. sim.ref.on
        BY <1>8, <1>11, Zenon
      <3> QED
        BY <1>4, <3>1, <3>2, Zenon
    <2>2. ~sim.scanned => sim.mistake # "compared" /\ sim.dut.pc = sim.ref.pc /\ sim.dut.x = sim.ref.x /\ sim.dut.sram = sim.ref.sram /\ ~sim.is_skip_ref
      BY <1>1, <1>3, <2>1 DEF DiffTestExact, checkregs
    <2>3. CASE skip \/ s.is_skip_ref
      <3> DEFINE r == [s.ref EXCEPT !.pc = d.pc, !.x = d.x]
      <3>1. sim' = [s EXCEPT !.ref = r, !.is_skip_ref = FALSE]
        <4>1. sim' = Sync(s)
          BY <1>2, <1>11, <2>3 DEF skip
        <4> QED
          BY <1>8, <4>1 DEF Sync, SimType
      <3>2. d.pc \in Address /\ d.x \in 0..2 /\ s.ref \in Reference
        BY <1>5, <1>8, <2>1 DEF Machine
      <3>3. r \in Reference /\ r.pc = d.pc /\ r.x = d.x /\ r.sram = s.ref.sram /\ r.flash = s.ref.flash /\ r.mrom = s.ref.mrom
        BY <3>2 DEF Reference
      <3> HIDE DEF r
      <3>4. PICK b \in BOOLEAN : b = FALSE /\ sim' = [s EXCEPT !.ref = r, !.is_skip_ref = b]
        BY <3>1
      <3>5. /\ sim' \in SimType /\ sim'.pc = s.pc /\ sim'.flash_boot = s.flash_boot /\ sim'.img = s.img /\ sim'.flash = s.flash /\ sim'.mrom = s.mrom
            /\ sim'.ref = r /\ sim'.mistake = s.mistake /\ sim'.is_skip_ref = b /\ sim'.scanned = s.scanned
            /\ sim'.finish = s.finish /\ sim'.dut = s.dut
        <4>1. s \in SimType /\ r \in {simInit.ref} \cup Reference
          BY <1>8, <3>3
        <4> QED
          BY ONLY <4>1, <3>4 DEF SimType
      <3>6. sim'.pc = "exec"
        BY <1>1, <1>8, <3>5, Zenon
      <3>7. DiffTestExact'
        <4> SUFFICES ASSUME sim'.ref.on, ~sim'.scanned
                     PROVE  /\ sim'.mistake # "compared" /\ checkregs(sim'.dut, sim'.ref)
                            /\ sim'.dut.sram = sim'.ref.sram /\ ~sim'.is_skip_ref
          BY <3>6 DEF DiffTestExact
        <4>1. ~sim.scanned
          BY <1>8, <3>5, Zenon
        <4>2. skip
          BY <1>8, <2>2, <2>3, <4>1, Zenon
        <4>3. inst = <<"dev">>
          BY <4>2 DEF skip, npc_check_skip
        <4>4. d.sram = sim.dut.sram
          BY <1>5, <4>3 DEF NextSram
        <4>5. w # "compared"
          BY <1>7, <2>2, <4>1, <4>2
        <4>6. checkregs(sim'.dut, sim'.ref)
          BY <1>8, <3>3, <3>5, Zenon DEF checkregs
        <4>7. sim'.dut.sram = sim'.ref.sram
          BY <1>8, <2>2, <3>3, <3>5, <4>1, <4>4, Zenon
        <4>8. sim'.mistake # "compared" /\ ~sim'.is_skip_ref
          BY <1>8, <3>4, <3>5, <4>5, Zenon
        <4> QED
          BY <4>6, <4>7, <4>8
      <3>8. sim'.ref.flash = sim.ref.flash /\ sim'.ref.mrom = sim.ref.mrom
        BY <1>8, <3>3, <3>5, Zenon
      <3> QED
        BY <1>9, <2>1, <3>5, <3>6, <3>7, <3>8
    <2>4. CASE ~(skip \/ s.is_skip_ref)
      <3> DEFINE r == Executed(s.ref, Fetch(s.ref, s.ref.pc), 0)
                 i2 == Fetch(s.ref, s.ref.pc)
      <3>1. PICK p \in Stage : /\ p = IF checkregs(s.dut, r) THEN s.pc ELSE "failed"
                               /\ sim' = [s EXCEPT !.ref = r, !.pc = p]
        <4>1. sim' = Compare(s)
          BY <1>2, <1>11, <2>4 DEF skip
        <4>2. s.pc \in Stage /\ "failed" \in Stage
          BY <1>8 DEF SimType, Stage
        <4> QED
          BY <4>1, <4>2 DEF Compare
      <3>2. s.ref \in Reference
        BY <1>8, <2>1
      <3>3. /\ r \in Reference /\ r.pc = NextPc(s.ref.pc, i2) /\ r.x = NextX(s.ref.x, s.ref.sram, i2, 0) /\ r.sram = NextSram(s.ref.x, s.ref.sram, i2)
            /\ r.flash = s.ref.flash /\ r.mrom = s.ref.mrom
        <4>1. PICK a \in Reference : a = s.ref
          BY <3>2
        <4>2. PICK i : i = i2
          OBVIOUS
        <4>3. PICK z \in 0..1 : z = 0
          OBVIOUS
        <4>4. LET e == Executed(a, i, z) IN
              /\ e \in Reference /\ e.pc = NextPc(a.pc, i) /\ e.x = NextX(a.x, a.sram, i, z) /\ e.sram = NextSram(a.x, a.sram, i)
              /\ e.flash = a.flash /\ e.mrom = a.mrom
          BY ExecutedReference, Zenon
        <4> QED
          BY <4>1, <4>2, <4>3, <4>4, Zenon
      <3> HIDE DEF r, i2
      <3>4. /\ sim' \in SimType /\ sim'.pc = p /\ sim'.flash_boot = s.flash_boot /\ sim'.img = s.img /\ sim'.flash = s.flash /\ sim'.mrom = s.mrom
            /\ sim'.ref = r /\ sim'.mistake = s.mistake /\ sim'.is_skip_ref = s.is_skip_ref /\ sim'.scanned = s.scanned
            /\ sim'.finish = s.finish /\ sim'.dut = s.dut
        <4>1. s \in SimType /\ r \in {simInit.ref} \cup Reference /\ p \in Stage
          BY <1>8, <3>1, <3>3
        <4>2. sim' = [s EXCEPT !.ref = r, !.pc = p]
          BY <3>1
        <4> QED
          BY ONLY <4>1, <4>2 DEF SimType
      <3>5. p \in {"exec", "failed"} /\ (p = "failed" <=> ~checkregs(d, r))
        BY <1>1, <1>8, <3>1
      <3>6. DiffTestExact'
        <4> SUFFICES ASSUME sim'.ref.on, ~sim'.scanned
                     PROVE  /\ p = "failed" <=> sim'.mistake = "compared"
                            /\ p # "failed" => checkregs(sim'.dut, sim'.ref) /\ sim'.dut.sram = sim'.ref.sram /\ ~sim'.is_skip_ref
          BY <3>4 DEF DiffTestExact
        <4>1. ~sim.scanned /\ ~skip
          BY <1>8, <2>4, <3>4, Zenon
        <4>2. sim.mistake # "compared" /\ sim.dut.pc = sim.ref.pc /\ sim.dut.x = sim.ref.x /\ sim.dut.sram = sim.ref.sram /\ ~sim.is_skip_ref
          BY <2>2, <4>1
        <4>3. i2 = inst
          <5> DEFINE a == sim.dut.pc[1]  n == sim.dut.pc[2]
          <5>1. s.ref = sim.ref /\ s.ref.pc = sim.dut.pc
            BY <1>8, <4>2, Zenon
          <5>2. a = IF sim.flash_boot THEN "flash" ELSE "mrom"
            BY <1>3 DEF InProgram
          <5>3. n \in 0..sim.img - 1 /\ n \in DOMAIN Code
            BY <1>1, CoreFetches
          <5>4. CASE sim.flash_boot
            <6>1. Area(sim.ref, a) = sim.ref.flash /\ Code = sim.flash
              BY <5>2, <5>4 DEF Area, Code
            <6>2. sim.ref.flash \in FlashArray
              BY <2>1 DEF Reference
            <6>3. DOMAIN sim.ref.flash = DOMAIN sim.flash
              BY <1>4, <6>2 DEF FlashArray
            <6>4. sim.ref.flash[n] = sim.flash[n]
              BY <1>3, <2>1, <5>3, <5>4
            <6>5. Fetch(sim.ref, sim.dut.pc) = sim.flash[n]
              BY <5>3, <6>1, <6>3, <6>4 DEF Fetch
            <6> QED
              BY <1>6, <5>1, <6>1, <6>5 DEF i2
          <5>5. CASE ~sim.flash_boot
            <6>1. Area(sim.ref, a) = sim.ref.mrom /\ Code = sim.mrom
              BY <5>2, <5>5 DEF Area, Code
            <6>2. sim.ref.mrom \in Mrom
              BY <2>1 DEF Reference
            <6>3. DOMAIN sim.ref.mrom = DOMAIN sim.mrom
              BY <1>4, <6>2 DEF Mrom
            <6>4. sim.ref.mrom[n] = sim.mrom[n]
              BY <1>3, <2>1, <5>3, <5>5
            <6>5. Fetch(sim.ref, sim.dut.pc) = sim.mrom[n]
              BY <5>3, <6>1, <6>3, <6>4 DEF Fetch
            <6> QED
              BY <1>6, <5>1, <6>1, <6>5 DEF i2
          <5> QED
            BY <5>4, <5>5
        <4>4. inst # <<"dev">>
          BY <4>1 DEF skip, npc_check_skip
        <4>5. NextX(sim.dut.x, sim.dut.sram, inst, 0) = NextX(sim.dut.x, sim.dut.sram, inst, in)
          BY <4>4 DEF NextX
        <4>6. s.ref.pc = sim.dut.pc /\ s.ref.x = sim.dut.x /\ s.ref.sram = sim.dut.sram
          BY <1>8, <4>2, Zenon
        <4>7. r.pc = d.pc /\ r.sram = d.sram /\ r.x = NextX(sim.dut.x, sim.dut.sram, inst, in)
          BY <1>5, <3>3, <4>3, <4>5, <4>6, Zenon
        <4>8. checkregs(d, r) <=> ~wrong
          BY <1>5, <4>7 DEF checkregs
        <4>9. w = "compared" <=> wrong
          BY <1>7, <4>1, <4>2
        <4>10. p = "failed" <=> sim'.mistake = "compared"
          BY <1>8, <3>4, <3>5, <4>8, <4>9
        <4>11. checkregs(sim'.dut, sim'.ref) <=> checkregs(d, r)
          BY <1>8, <3>4, Zenon
        <4>12. sim'.dut.sram = sim'.ref.sram /\ ~sim'.is_skip_ref
          BY <1>8, <3>4, <4>2, <4>7, Zenon
        <4> QED
          BY <3>5, <4>10, <4>11, <4>12
      <3>7. sim'.ref.flash = sim.ref.flash /\ sim'.ref.mrom = sim.ref.mrom
        BY <1>8, <3>3, <3>4, Zenon
      <3> QED
        BY <1>9, <2>1, <3>4, <3>5, <3>6, <3>7
    <2> QED
      BY <2>3, <2>4
  <1> QED
    BY <1>10, <1>11

(***************************************************************************)
(* The simulator and the line.                                             *)
(***************************************************************************)
NpcInv == simTypeOK /\ SimInv /\ uartTypeOK /\ UartInv

\* The end of a reset, on the line: stdin is passed on from then.
LEMMA LineEnabled ==
    ASSUME uartTypeOK, UartInv, uart' = [uart EXCEPT !.enabled = uart.requested]
    PROVE  uartTypeOK' /\ UartInv'
  <1>1. uart \in UartType
    BY DEF uartTypeOK, UartType
  <1>2. PICK b \in BOOLEAN : b = uart.requested /\ b
    BY <1>1 DEF UartType
  <1>3. uart' = [uart EXCEPT !.enabled = b]
    BY <1>2
  <1>4. /\ uart' \in UartType
        /\ uart'.typed = uart.typed /\ uart'.stdin = uart.stdin /\ uart'.enabled = b /\ uart'.got = uart.got /\ uart'.cnt = uart.cnt
        /\ uart'.byte = uart.byte /\ uart'.frame = uart.frame /\ uart'.bits = uart.bits /\ uart'.ticks = uart.ticks
    BY ONLY <1>1, <1>2, <1>3 DEF UartType
  <1>5. Flying' = Flying /\ Sent' = Sent /\ Elapsed' = Elapsed
    BY <1>4 DEF Flying, Sent, Elapsed
  <1>6. Sampled' = Sampled
    BY <1>5 DEF Sampled
  <1>7. Accounted'
    BY <1>4, <1>5 DEF UartInv, Accounted
  <1>8. Sending'
    <2>1. Sending
      BY DEF UartInv
    <2>2. uart'.enabled
      BY <1>2, <1>4, Zenon
    <2> QED
      BY <1>4, <1>5, <2>1, <2>2 DEF Sending
  <1>10. uart'.cnt # -1 => Receiving(uart.typed[Len(uart.got) + 1])'
    <2>1. uart.cnt # -1 => Receiving(uart.typed[Len(uart.got) + 1])
      BY DEF UartInv
    <2> QED
      BY <1>4, <1>5, <1>6, <2>1 DEF Receiving
  <1> QED
    BY <1>4, <1>7, <1>8, <1>10 DEF UartInv, uartTypeOK, UartType

\* The simulator before main, and the line idle.
LEMMA NpcInit == ASSUME npcInit PROVE NpcInv
  <1>1. simTypeOK
    <2>1. sim.pc = "main" /\ "main" \in Stage /\ "none" \in Mistake
      BY DEF npcInit, simInit, Stage, Mistake
    <2> DEFINE mr == [k \in Words(MROM_SIZE) |-> <<"zero", k>>]
               sr == [k \in Words(SRAM_SIZE) |-> 0]
               d == [pc |-> <<"none", 0>>, x |-> 0, sram |-> sr]
    <2>2. mr \in Mrom
      <3>1. ASSUME NEW k \in Words(MROM_SIZE) PROVE <<"zero", k>> \in Cell
        BY SimAssumption DEF Words, Cell
      <3> QED
        BY <3>1 DEF Mrom
    <2>3. init_flash \in FlashArray
      <3>1. ASSUME NEW k \in Words(FLASH_SIZE) PROVE (IF k < PatternWords THEN flash_pattern(k) ELSE <<"erased", k>>) \in Cell
        <4>1. k \in Nat
          BY SimAssumption DEF Words
        <4>2. <<"pattern", k>> \in Cell /\ <<"erased", k>> \in Cell
          BY <4>1 DEF Cell
        <4> QED
          BY <4>2 DEF flash_pattern
      <3> QED
        BY <3>1 DEF FlashArray, init_flash
    <2>4. sr \in [Words(SRAM_SIZE) -> {0}] /\ sr \in Sram
      BY DEF Sram
    <2>5. d \in Machine
      <3>1. <<"none", 0>> \in Address
        BY DEF Address
      <3> HIDE DEF sr
      <3> QED
        BY <2>4, <3>1 DEF Machine
    <2>6. sim = [pc |-> "main", flash_boot |-> FALSE, img |-> 0, diff |-> FALSE, batch |-> FALSE, mrom |-> mr, flash |-> init_flash,
                 sram |-> sr, dut |-> d, ref |-> sim.ref, is_skip_ref |-> FALSE, n |-> 0, cmds |-> 0, finish |-> FALSE,
                 mistake |-> "none", scanned |-> FALSE] /\ sim.ref = simInit.ref
      BY DEF npcInit, simInit
    <2> HIDE DEF mr, sr, d
    <2>7. sim.ref \in {simInit.ref} \cup Reference
      BY <2>6
    <2>8. sim \in SimType
      <3>a. PICK z \in Nat : z = 0
        OBVIOUS
      <3>b. PICK i \in Int : i = 0
        OBVIOUS
      <3>c. PICK p \in Stage : p = "main"
        BY <2>1
      <3>d. PICK w \in Mistake : w = "none"
        BY <2>1
      <3>e. PICK b \in BOOLEAN : b = FALSE
        OBVIOUS
      <3>2. PICK r \in {simInit.ref} \cup Reference : r = sim.ref
        BY <2>7
      <3>3. sim = [pc |-> p, flash_boot |-> b, img |-> z, diff |-> b, batch |-> b, mrom |-> mr, flash |-> init_flash,
                   sram |-> sr, dut |-> d, ref |-> r, is_skip_ref |-> b, n |-> i, cmds |-> z, finish |-> b, mistake |-> w, scanned |-> b]
        BY <2>6, <3>2, <3>a, <3>b, <3>c, <3>d, <3>e
      <3>4. z \in Nat /\ i \in Int /\ p \in Stage /\ w \in Mistake /\ b \in BOOLEAN /\ r \in {simInit.ref} \cup Reference
        BY <3>2, <3>a, <3>b, <3>c, <3>d, <3>e
      <3> QED
        BY ONLY <2>2, <2>3, <2>4, <2>5, <3>3, <3>4 DEF SimType
    <2> QED
      BY <2>8 DEF simTypeOK, SimType
  <1>2. SimInv
    BY DEF npcInit, simInit, SimInv, DiffTestExact
  <1>3. uartTypeOK
    <2>1. 1023 \in Shifter /\ 0 \in BitCount /\ 0 \in TickCount /\ 1 \in Line /\ -1 \in Int /\ 0 \in Byte
      BY HalfRange DEF Shifter, BitCount, TickCount, Line, Byte
    <2>2. <<>> \in Seq(Byte) /\ <<>> \in Seq(Int)
      OBVIOUS
    <2>3. uart = [requested |-> TRUE, enabled |-> FALSE, stdin |-> <<>>, typed |-> <<>>, frame |-> 1023, bits |-> 0, ticks |-> 0,
                  line |-> 1, cnt |-> -1, byte |-> 0, got |-> <<>>]
      BY DEF npcInit, uartInit
    <2> QED
      BY <2>1, <2>2, <2>3 DEF uartTypeOK
  <1>4. UartInv
    <2>1. uart.bits = 0 /\ uart.cnt = -1 /\ uart.stdin = <<>> /\ uart.typed = <<>> /\ uart.got = <<>>
      BY DEF npcInit, uartInit
    <2>2. Accounted
      BY <2>1 DEF Accounted, Flying
    <2>3. Sending
      BY <2>1 DEF Sending
    <2> QED
      BY <2>1, <2>2, <2>3 DEF UartInv
  <1> QED
    BY <1>1, <1>2, <1>3, <1>4 DEF NpcInv

\* Every step keeps the invariant: the simulator's leave the line alone but
\* for the end of the reset, and a cycle leaves the simulator.
LEMMA NpcStep == ASSUME NpcInv, [simNext \/ uartNext]_simVars PROVE NpcInv'
  <1> USE DEF NpcInv
  <1>1. ASSUME uart' = uart PROVE uartTypeOK' /\ UartInv'
    <2>1. uartTypeOK'
      BY <1>1 DEF uartTypeOK
    <2>2. Sent' = Sent /\ Elapsed' = Elapsed /\ Flying' = Flying
      BY <1>1 DEF Sent, Elapsed, Flying
    <2>3. Sampled' = Sampled
      BY <2>2 DEF Sampled
    <2>4. Accounted'
      BY <1>1, <2>2 DEF UartInv, Accounted
    <2>5. Sending'
      BY <1>1, <2>2 DEF UartInv, Sending
    <2>6. uart.cnt # -1 => Receiving(uart.typed[Len(uart.got) + 1])'
      BY <1>1, <2>2, <2>3 DEF UartInv, Receiving
    <2> QED
      BY <1>1, <2>1, <2>4, <2>5, <2>6 DEF UartInv
  <1>2. ASSUME sim' = sim PROVE simTypeOK' /\ SimInv'
    BY <1>2 DEF simTypeOK, SimInv, Loaded, InProgram, Code, DiffTestExact
  <1>3. ASSUME NEW i \in Images, NEW f \in BOOLEAN, NEW b \in BOOLEAN, NEW d \in BOOLEAN, NEW m \in BOOLEAN, load_img(i, f, b, d, m)
        PROVE  NpcInv'
    <2>1. uart' = uart
      BY <1>3 DEF load_img
    <2> QED
      BY <1>1, <1>3, <2>1, LoadStep
  <1>4. CASE reset
    BY <1>4, ResetStep, LineEnabled DEF reset
  <1>5. CASE init_difftest
    BY <1>1, <1>5, DifftestStep DEF init_difftest
  <1>6. ASSUME NEW in \in 0..1, NEW wrong \in BOOLEAN, Commit(in, wrong) PROVE NpcInv'
    BY <1>1, <1>6, CommitStep DEF Commit
  <1>7. CASE ExecDone
    BY <1>1, <1>7, ExecDoneStep DEF ExecDone
  <1>8. ASSUME NEW c \in Commands, sdb_mainloop(c) PROVE NpcInv'
    BY <1>1, <1>8, CommandStep DEF sdb_mainloop
  <1>9. CASE AfterCommand
    BY <1>1, <1>9, AfterCommandStep DEF AfterCommand
  <1>10. ASSUME NEW ch \in Chars, TypeChar(ch) PROVE NpcInv'
    BY <1>2, <1>10, TypedChar DEF TypeChar
  <1>11. CASE single_cycle
    <2>1. uart' = Receive(drive_uart_rx(uart)) /\ sim' = sim
      BY <1>11 DEF single_cycle
    <2>2. CASE ~uart.enabled \/ (uart.bits = 0 /\ uart.stdin = <<>>)
      BY <1>2, <2>1, <2>2, IdleCycle
    <2>3. CASE uart.enabled /\ uart.bits = 0 /\ uart.stdin # <<>>
      BY <1>2, <2>1, <2>3, FrameStarts
    <2>4. CASE uart.bits # 0 /\ uart.cnt = -1
      BY <1>2, <2>1, <2>4, FrameEnds
    <2>5. CASE uart.cnt # -1
      BY <1>2, <2>1, <2>5, InFrame
    <2> QED
      BY <2>2, <2>3, <2>4, <2>5
  <1>12. CASE ResetEnds
    BY <1>2, <1>12, LineEnabled DEF ResetEnds
  <1>13. CASE UNCHANGED simVars
    BY <1>1, <1>2, <1>13 DEF simVars
  <1> QED
    BY <1>3, <1>4, <1>5, <1>6, <1>7, <1>8, <1>9, <1>10, <1>11, <1>12, <1>13 DEF simNext, uartNext

\* What the invariant says of the bytes of stdin.
LEMMA Received == ASSUME uartTypeOK, UartInv PROVE StdinReceived
  <1>1. uart.got \in Seq(Int) /\ uart.typed \in Seq(Byte) /\ uart.stdin \in Seq(Byte)
    BY DEF uartTypeOK
  <1>2. Len(uart.got) \in Nat /\ Len(uart.typed) \in Nat /\ Len(uart.stdin) \in Nat
    BY <1>1
  <1>3. Flying \in {0, 1} /\ (uart.bits = 0 => Flying = 0)
    BY DEF Flying, UartInv, Sending
  <1>4. Len(uart.typed) = Len(uart.got) + Flying + Len(uart.stdin) /\ \A i \in 1..Len(uart.got) : uart.got[i] = uart.typed[i]
    BY DEF UartInv, Accounted
  <1>5. Len(uart.got) <= Len(uart.typed)
    <2> DEFINE a == Len(uart.got)  b == Len(uart.typed)  c == Len(uart.stdin)
    <2>1. a \in Nat /\ b \in Nat /\ c \in Nat /\ b = a + Flying + c
      BY <1>2, <1>4
    <2> HIDE DEF a, b, c
    <2>2. a <= b
      BY <1>3, <2>1
    <2> QED
      BY <2>2 DEF a, b
  <1>6. SubSeq(uart.got, 1, Len(uart.got)) = SubSeq(uart.typed, 1, Len(uart.got))
    BY <1>1, <1>2, <1>4, <1>5
  <1>7. IsPrefix(uart.got, uart.typed)
    BY <1>5, <1>6 DEF IsPrefix
  <1>8. ASSUME uart.stdin = <<>>, uart.bits = 0 PROVE uart.got = uart.typed
    <2>1. Len(uart.got) = Len(uart.typed)
      BY <1>2, <1>3, <1>4, <1>8
    <2> DEFINE m == Len(uart.got)
    <2>2. uart.got = [i \in 1..m |-> uart.got[i]]
      <3>1. PICK S : uart.got \in Seq(S)
        BY <1>1
      <3> QED
        BY ONLY <3>1
    <2>3. uart.typed = [i \in 1..m |-> uart.typed[i]]
      BY <1>1, <2>1
    <2> HIDE DEF m
    <2>4. [i \in 1..m |-> uart.got[i]] = [i \in 1..m |-> uart.typed[i]]
      BY <1>4 DEF m
    <2> QED
      BY <2>2, <2>3, <2>4
  <1> QED
    BY <1>7, <1>8 DEF StdinReceived

\* Of the simulator of the NPC, for memories of any size, any images that end
\* in an instruction that stops, any commands of the debugger and any baud
\* rate: DiffTest stops the simulation exactly at the first wrong instruction
\* that it compares, and the UART receives the bytes of stdin in order.
THEOREM SimulatorAlwaysFaithful == npcSpec => []SimFaithful
  <1>1. npcInit => NpcInv
    BY NpcInit
  <1>2. NpcInv /\ [simNext \/ uartNext]_simVars => NpcInv'
    BY NpcStep
  <1>3. NpcInv => SimFaithful
    BY Received DEF NpcInv, SimInv, SimFaithful
  <1> QED
    BY <1>1, <1>2, <1>3, PTL DEF npcSpec
=============================================================================

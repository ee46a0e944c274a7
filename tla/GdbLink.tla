------------------------------- MODULE GdbLink ------------------------------
(***************************************************************************)
(* qemu-diff: QEMU as the reference of DiffTest, behind the remote         *)
(* protocol of GDB.  The client (protocol.c, gdb-host.c, diff-test.c) has  *)
(* one action per packet or acknowledgement it sends or reads; QEMU and    *)
(* its stub are external.  Packets are sequences of ASCII codes, for the   *)
(* checksum, the escapes and the runs are the point; a command is named,   *)
(* and its operands are bytes in hexadecimal.                              *)
(***************************************************************************)
EXTENDS Integers, Sequences, SequencesExt, FiniteSetsExt

CONSTANTS
    Ops,           \* the calls of NEMU: [call, addr, bytes], [call, to, regs], [call, n]
    MaxOps,        \* how many of them
    MaxPackets,    \* how many packets the client sends, with those it sends again
    MaxFaults,     \* bytes the line may change
    Noise,         \* what it may change them to
    Runs,          \* lengths of the run that the stub compresses, 0 for none
    Mtu,           \* 1500: bytes of memory in a packet
    NRegs,         \* registers of union isa_gdb_regs
    DiffRegs,      \* those DIFFTEST_REG_SIZE covers
    QemuMem        \* addresses QEMU has memory at

VARIABLES
    cl,            \* the client
    up, down,      \* the line to QEMU and back: sequences of messages
    stub,          \* QEMU
    faults         \* how many bytes are changed so far, and what kinds of them

gdbVars == <<cl, up, down, stub, faults>>

(***************************************************************************)
(* Characters.                                                             *)
(***************************************************************************)
Dollar == 36
Hash == 35
Brace == 125
Star == 42
Plus == <<43>>
Minus == <<45>>
Ok == <<79, 75>>
Err == <<69, 50>>

hex_encode(d) == IF d > 9 THEN 87 + d ELSE 48 + d
HexUpper(d) == IF d > 9 THEN 55 + d ELSE 48 + d
IsXdigit(c) == c \in 48..57 \cup 65..70 \cup 97..102
hex_nibble(c) == IF c \in 48..57 THEN c - 48 ELSE IF c \in 65..70 THEN c - 55 ELSE c - 87
gdb_decode_hex(msb, lsb) == IF IsXdigit(msb) /\ IsXdigit(lsb) THEN 16 * hex_nibble(msb) + hex_nibble(lsb) ELSE 65535

Hex(b) == <<hex_encode(b \div 16), hex_encode(b % 16)>>
HexBytes(bytes) == FlattenSeq([k \in DOMAIN bytes |-> Hex(bytes[k])])

\* A register of two bytes, the low one first.
HexRegs(r) == FlattenSeq([k \in DOMAIN r |-> Hex(r[k] % 256) \o Hex(r[k] \div 256)])

\* A register ends where there are no more digits.  One that begins after
\* the terminator of an answer of another command is read from memory that
\* was never written: any two values.
gdb_decode_hex_str(s) ==
    LET Pair(k) == Len(s) >= k + 1 /\ IsXdigit(s[k]) /\ IsXdigit(s[k + 1])
    IN IF ~Pair(1) THEN 0 ELSE gdb_decode_hex(s[1], s[2]) + IF Pair(3) THEN 256 * gdb_decode_hex(s[3], s[4]) ELSE 0
UnhexRegs(s) ==
    {[k \in 1..NRegs |-> IF 4 * k - 3 <= Len(s) + 1 THEN gdb_decode_hex_str(SubSeq(s, 4 * k - 3, Min({4 * k, Len(s)}))) ELSE junk]
        : junk \in {0, 255}}

(***************************************************************************)
(* Packets.                                                                *)
(***************************************************************************)
Sum(s) == FoldSeq(LAMBDA c, n : c + n, 0, s) % 256
Packet(body) == <<Dollar>> \o body \o <<Hash, HexUpper(Sum(body) \div 16), HexUpper(Sum(body) % 16)>>

\* recv_packet, one character at a time.
IsCount(c) == c \in 29..126 \ {Dollar, Hash}

AddChar(st, c) == [st EXCEPT !.reply = Append(@, IF st.escape THEN (IF c % 64 >= 32 THEN c - 32 ELSE c + 32) ELSE c), !.escape = FALSE]

Body(st, c) ==
    LET s == [st EXCEPT !.sum = (@ + c) % 256] IN
    CASE c = Dollar -> [s EXCEPT !.reply = <<>>, !.sum = 0, !.escape = FALSE]
      [] c = Hash -> [s EXCEPT !.sum = st.sum, !.at = "msb"]
      [] c = Brace -> [s EXCEPT !.escape = TRUE]
      [] c = Star /\ st.reply # <<>> -> [s EXCEPT !.at = "count"]
      [] OTHER -> AddChar(s, c)

Step(st, c) ==
    CASE st.at = "skip" -> IF c = Dollar THEN [st EXCEPT !.at = "body"] ELSE st
      [] st.at = "body" -> Body(st, c)
      [] st.at = "count" ->
            IF ~IsCount(c) THEN Body([AddChar(st, Star) EXCEPT !.at = "body"], c)
            ELSE [st EXCEPT !.at = "body", !.sum = (@ + c) % 256, !.reply = @ \o [k \in 1..c - 29 |-> Last(@)]]
      [] st.at = "msb" -> [st EXCEPT !.at = "lsb", !.msb = c]
      [] st.at = "lsb" -> [st EXCEPT !.at = "done", !.ok = (st.sum = gdb_decode_hex(st.msb, c))]
      [] st.at = "done" -> st

recv_packet(chars) ==
    LET Read[k \in 0..Len(chars)] ==
            IF k = 0 THEN [at |-> "skip", reply |-> <<>>, sum |-> 0, escape |-> FALSE, msb |-> 0, ok |-> FALSE]
            ELSE LET before == Read[k - 1] IN Step(before, chars[k])
    IN Read[Len(chars)]

(***************************************************************************)
(* A message, [chars, n, hurt]: a packet, or an acknowledgement, of command *)
(* n; hurt when the line has changed a character of it.  The reader sees   *)
(* characters only: it reads an acknowledgement as one character, whatever *)
(* it is part of, and a packet to its end, through as many messages as it  *)
(* takes; it waits where there is no end.                                  *)
(***************************************************************************)
Message(chars, n) == [chars |-> chars, n |-> n, hurt |-> FALSE]

CharsOf(line) == FlattenSeq([k \in DOMAIN line |-> line[k].chars])
\* The packet that is read, and how many messages it takes; none if it has no end.
ReadPacket(line) ==
    LET At(k) == recv_packet(CharsOf(SubSeq(line, 1, k)))
        Reached[k \in 1..Len(line) + 1] ==
            IF k > Len(line) THEN [messages |-> 0]
            ELSE LET r == At(k) IN IF r.at = "done" THEN [messages |-> k, read |-> r] ELSE Reached[k + 1]
    IN Reached[1]

FirstChar(line) == Head(Head(line).chars)
AfterChar(line) ==
    LET m == Head(line)
    IN IF Len(m.chars) = 1 THEN Tail(line) ELSE <<[m EXCEPT !.chars = Tail(@)]>> \o Tail(line)

(***************************************************************************)
(* The stub.  A command is named by its first character; a stub may        *)
(* compress the first run of n equal characters in its answer.             *)
(***************************************************************************)
Compressed(s, n) ==
    LET at == {i \in 1..Len(s) - n : \A j \in 1..n : s[i + j] = s[i]}
        i == Min(at)
    IN IF n = 0 \/ at = {} THEN s ELSE SubSeq(s, 1, i) \o <<Star, 29 + n>> \o SubSeq(s, i + n + 1, Len(s))

\* [command, address, data] of a body; the step of an instruction adds 1 to
\* the first register.
Obey(q, body) ==
    CASE body[1] = 103 -> [q |-> q, answer |-> HexRegs(q.regs)]
      [] body[1] = 71 -> [q |-> [q EXCEPT !.regs = CHOOSE r \in UnhexRegs(Tail(body)) : TRUE], answer |-> Ok]
      [] body[1] = 118 -> [q |-> [q EXCEPT !.regs[1] = @ + 1], answer |-> <<84, 48, 53>>]
      [] body[1] = 77 ->
            LET addr == gdb_decode_hex(body[2], body[3])
                n == (Len(body) - 3) \div 2
                Byte(k) == gdb_decode_hex(body[2 * k + 2], body[2 * k + 3])
            IN IF addr..(addr + n) - 1 \subseteq QemuMem
               THEN [q |-> [q EXCEPT !.mem = [a \in QemuMem |-> IF a - addr \in 0..n - 1 THEN Byte(a - addr + 1) ELSE @[a]]], answer |-> Ok]
               ELSE [q |-> q, answer |-> Err]

\* What is not the start of a packet is skipped; a '-' asks for the last
\* answer again.
StubPacket ==
    /\ up # <<>> /\ FirstChar(up) = Dollar
    /\ LET p == ReadPacket(up)
           n == up[p.messages].n
       IN /\ p.messages # 0
          /\ up' = SubSeq(up, p.messages + 1, Len(up))
          /\ IF p.read.ok
             THEN LET o == Obey(stub.q, p.read.reply)
                      answer == Message(Packet(Compressed(o.answer, stub.run)), n)
                  IN /\ stub' = [stub EXCEPT !.q = o.q, !.last = answer, !.obeyed = Append(@, n)]
                     /\ down' = down \o <<Message(Plus, n), answer>>
             ELSE stub' = stub /\ down' = Append(down, Message(Minus, n))
    /\ UNCHANGED <<cl, faults>>

StubAck ==
    /\ up # <<>> /\ FirstChar(up) # Dollar
    /\ up' = AfterChar(up)
    /\ down' = IF FirstChar(up) = Minus[1] /\ stub.obeyed # <<>> THEN Append(down, stub.last) ELSE down
    /\ UNCHANGED <<cl, stub, faults>>

(***************************************************************************)
(* The line changes one character of the message that is read next (two    *)
(* changes to the body of a packet may leave its sum as it was).  What     *)
(* kind of character it is: an acknowledgement, one of the two that frame  *)
(* a packet, or one of its body or checksum.  One of the first two kinds   *)
(* is the last change: there is no order after it that a second could      *)
(* disturb.                                                                *)
(***************************************************************************)
KindOf(m, k) == IF Len(m.chars) = 1 THEN "ack" ELSE IF m.chars[k] \in {Dollar, Hash} THEN "frame" ELSE "body"
Damage(line, other) ==
    /\ line # <<>> /\ ~Head(line).hurt
    /\ \E k \in DOMAIN Head(line).chars : \E c \in Noise \ {Head(line).chars[k]} :
          /\ line' = [line EXCEPT ![1].chars[k] = c, ![1].hurt = TRUE]
          /\ faults' = [n |-> faults.n + 1, kinds |-> faults.kinds \cup {KindOf(Head(line), k)}]
    /\ other' = other
Garble ==
    /\ faults.n < MaxFaults /\ faults.kinds \subseteq {"body"}
    /\ Damage(up, down) \/ Damage(down, up)
    /\ UNCHANGED <<cl, stub>>

(***************************************************************************)
(* The client.  cl.todo are the commands of the call still to be sent.     *)
(***************************************************************************)
Fresh(q) == [pc |-> "idle", op |-> [call |-> "none"], todo |-> <<>>, ok |-> TRUE, qemu_r |-> q.regs, dut |-> <<>>,
             ops |-> 0, n |-> 1, sent |-> 0, want |-> q]

gdbInit ==
    LET q == [regs |-> [k \in 1..NRegs |-> 0], mem |-> [a \in QemuMem |-> 0]] IN
    /\ cl = Fresh(q)
    /\ \E run \in Runs : stub = [q |-> q, last |-> Message(<<>>, 0), run |-> run, obeyed |-> <<>>]
    /\ up = <<Message(Plus, 0)>>          \* gdb_begin
    /\ down = <<>>
    /\ faults = [n |-> 0, kinds |-> {}]

\* The chunks of a gdb_memcpy_to_qemu.
Chunks(addr, bytes) ==
    LET full == (Len(bytes) - 1) \div Mtu
    IN [k \in 1..full + 1 |-> [cmd |-> "M", addr |-> addr + Mtu * (k - 1),
                               bytes |-> SubSeq(bytes, Mtu * (k - 1) + 1, Min({Mtu * k, Len(bytes)}))]]

Getregs == [cmd |-> "g"]
Setregs == [cmd |-> "G"]
gdb_si == [cmd |-> "vCont;s:1"]

\* What the call is to leave in the reference.
Expected(w, op) ==
    CASE op.call = "difftest_memcpy" -> [w EXCEPT !.mem = [a \in QemuMem |-> IF a - op.addr \in 0..Len(op.bytes) - 1 THEN op.bytes[a - op.addr + 1] ELSE @[a]]]
      [] op.call = "difftest_regcpy" -> IF op.to = "ref" THEN [w EXCEPT !.regs = op.regs \o SubSeq(@, DiffRegs + 1, NRegs)] ELSE w
      [] op.call = "difftest_exec" -> [w EXCEPT !.regs[1] = @ + op.n]

Call(op, todo) ==
    /\ cl.pc = "idle" /\ cl.ops < MaxOps
    /\ cl' = [cl EXCEPT !.pc = "send", !.op = op, !.todo = todo, !.ok = TRUE, !.ops = @ + 1, !.want = Expected(@, op)]
    /\ UNCHANGED <<up, down, stub, faults>>

difftest_memcpy(op) == op.call = "difftest_memcpy" /\ Call(op, Chunks(op.addr, op.bytes))
difftest_regcpy(op) == op.call = "difftest_regcpy" /\ Call(op, IF op.to = "ref" THEN <<Getregs, Setregs>> ELSE <<Getregs>>)
difftest_exec(op) == op.call = "difftest_exec" /\ Call(op, [k \in 1..op.n |-> gdb_si])

\* gdb_memcpy_to_qemu_small, gdb_getregs, gdb_setregs, gdb_si.
Command(c) ==
    CASE c.cmd = "M" -> <<77>> \o Hex(c.addr) \o HexBytes(c.bytes)
      [] c.cmd = "g" -> <<103>>
      [] c.cmd = "G" -> <<71>> \o HexRegs(cl.qemu_r)
      [] c.cmd = "vCont;s:1" -> <<118, 115>>

send_packet ==
    /\ cl.pc = "send" /\ cl.sent < MaxPackets
    /\ cl.todo # <<>>
    /\ up' = Append(up, Message(Packet(Command(Head(cl.todo))), cl.n))
    /\ cl' = [cl EXCEPT !.pc = "ack", !.sent = @ + 1]
    /\ UNCHANGED <<down, stub, faults>>

\* gdb_send: anything but a '+' sends the packet again.
gdb_send ==
    /\ cl.pc = "ack" /\ down # <<>>
    /\ cl' = [cl EXCEPT !.pc = IF FirstChar(down) = Plus[1] THEN "recv" ELSE "send"]
    /\ down' = AfterChar(down)
    /\ UNCHANGED <<up, stub, faults>>

\* What the client does with the answer r of its registers to its command.
Use(reply, r) ==
    LET c == Head(cl.todo)
        rest == [cl EXCEPT !.pc = "send", !.todo = Tail(@), !.n = @ + 1]
    IN CASE c.cmd = "M" -> [rest EXCEPT !.ok = @ /\ reply = Ok]
         [] c.cmd = "g" -> IF cl.op.to = "ref"
                           THEN [rest EXCEPT !.qemu_r = cl.op.regs \o SubSeq(r, DiffRegs + 1, NRegs)]
                           ELSE [rest EXCEPT !.dut = SubSeq(r, 1, DiffRegs)]
         [] OTHER -> rest

gdb_recv ==
    /\ cl.pc = "recv"
    /\ LET p == ReadPacket(down) IN
       /\ p.messages # 0
       /\ down' = SubSeq(down, p.messages + 1, Len(down))
       /\ IF p.read.ok
          THEN up' = Append(up, Message(Plus, cl.n)) /\ \E r \in UnhexRegs(p.read.reply) : cl' = Use(p.read.reply, r)
          ELSE cl' = cl /\ up' = Append(up, Message(Minus, cl.n))
    /\ UNCHANGED <<stub, faults>>

\* The call returns; difftest_memcpy asserts that every chunk was written.
Return ==
    /\ cl.pc = "send" /\ cl.todo = <<>>
    /\ cl' = [cl EXCEPT !.pc = IF cl.op.call = "difftest_memcpy" /\ ~cl.ok THEN "abort" ELSE "idle"]
    /\ UNCHANGED <<up, down, stub, faults>>

gdbNext ==
    \/ \E op \in Ops : difftest_memcpy(op) \/ difftest_regcpy(op) \/ difftest_exec(op)
    \/ send_packet
    \/ gdb_send
    \/ gdb_recv
    \/ Return
    \/ StubPacket
    \/ StubAck
    \/ Garble

\* As long as what the line changes is the body or the checksum of packets, a
\* call that returns has had its effect on QEMU exactly once, on nothing
\* else, and has read what QEMU holds; the line is then quiet; and client and
\* QEMU never both wait for the other.
ExactlyOnce ==
    /\ cl.pc = "idle" => /\ stub.q = cl.want
                         /\ down = <<>>
                         /\ cl.dut # <<>> /\ cl.op.call = "difftest_regcpy" /\ cl.op.to = "dut" => cl.dut = SubSeq(stub.q.regs, 1, DiffRegs)
    /\ cl.pc \in {"ack", "recv"} => up # <<>> \/ down # <<>>
    /\ cl.pc = "abort" => ~(cl.op.addr..(cl.op.addr + Len(cl.op.bytes)) - 1 \subseteq QemuMem)

\* An acknowledgement that is changed makes the client send the packet again,
\* which is then obeyed twice, and so are later ones: what answers the first
\* is read for acknowledgements of the second.  Then too QEMU obeys the
\* commands in the order of the client's calls and passes over none, unless a
\* character that frames a packet was changed.
CallsExact ==
    /\ faults.kinds \subseteq {"body"} => ExactlyOnce
    /\ \A i, j \in DOMAIN stub.obeyed : i < j => stub.obeyed[i] <= stub.obeyed[j]
    /\ "frame" \notin faults.kinds => \A j \in DOMAIN stub.obeyed : 1..stub.obeyed[j] \subseteq {stub.obeyed[i] : i \in 1..j}
=============================================================================

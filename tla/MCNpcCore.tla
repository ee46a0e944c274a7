----------------------------- MODULE MCNpcCore -----------------------------
(***************************************************************************)
(* Small instances of the NPC core.  Twenty word addresses, lines of two   *)
(* words, two lines:                                                       *)
(*    0 ..  3   boot memory, not cacheable; 3 is a data word               *)
(*    4 .. 11   SDRAM, cacheable: 4..7 and 8..11 share the two lines       *)
(*   12 .. 15   CLINT                                                      *)
(*   16 .. 19   more memory, not cacheable                                 *)
(***************************************************************************)
EXTENDS NpcCore, Sequences

I(op, rd, rs1, rs2, imm, c) ==
    [op |-> op, rd |-> rd, rs1 |-> rs1, rs2 |-> rs2, imm |-> imm, csr |-> c]

Table ==
    << I("alu", 0, 0, 0, 0, "none"),          \*  0  nop
       I("alu", 1, 1, 0, 1, "none"),          \*  1  addi x1, x1, 1
       I("load", 1, 0, 0, 3, "none"),         \*  2  lw x1, 3
       I("store", 0, 0, 1, 3, "none"),        \*  3  sw x1, 3
       I("jalr", 0, 0, 0, 4, "none"),         \*  4  jr 4
       I("jal", 1, 0, 0, 4, "none"),          \*  5  jal x1, pc + 4
       I("branch", 0, 1, 0, 16, "none"),      \*  6  beq x1, x0, pc - 4
       I("csrrw", 0, 1, 0, 0, "mtvec"),       \*  7  csrw mtvec, x1
       I("ecall", 0, 0, 0, 0, "none"),        \*  8
       I("mret", 0, 0, 0, 0, "none"),         \*  9
       I("ebreak", 0, 0, 0, 0, "none"),       \* 10
       I("load", 1, 0, 0, 12, "none"),        \* 11  lw x1, mtime
       I("store", 0, 0, 1, 12, "none"),       \* 12  sw x1, mtime
       I("csrrs", 1, 0, 0, 0, "mcause"),      \* 13  csrr x1, mcause
       I("csrrs", 0, 1, 0, 0, "mepc"),        \* 14  csrs mepc, x1
       I("jalr", 1, 0, 0, 8, "none"),         \* 15  jalr x1, 8
       I("store", 0, 0, 1, 6, "none"),        \* 16  sw x1, 6
       I("load", 1, 0, 0, 6, "none"),         \* 17  lw x1, 6
       I("csrrw", 1, 1, 0, 0, "mcause"),      \* 18  csrrw x1, mcause, x1
       I("csrrs", 1, 0, 0, 0, "none") >>      \* 19  csrr x1, an unknown CSR

MCDecode == [v \in Val |-> Table[v + 1]]

\* Bitwise or of two values below 32.
Bit(v, b) == (v \div b) % 2
MCBitOr(a, b) ==
    LET or(k) == IF Bit(a, k) + Bit(b, k) > 0 THEN k ELSE 0
    IN (or(1) + or(2) + or(4) + or(8) + or(16)) % ValNum

Image(s) == [v \in Val |-> IF v + 1 \in DOMAIN s THEN s[v + 1] ELSE 0]

\* Boot code of three instructions, a data word, and code in SDRAM that goes
\* back and forth between the two halves of it (they compete for the lines).
Programs1 ==
    {Image(<<1, x, 4, 0,   y, 5, 0, 10,   0, z, n, 10>>) :
        x \in {2, 3, 11, 12}, y \in {2, 3, 7, 8, 13, 14, 16, 17, 18},
        z \in {3, 6, 9}, n \in {4, 10, 15}}

\* Loads and stores that may fail, and the trap handler at mtvec = 0 that
\* runs the program again; code and data addresses are disjoint.
Programs3 ==
    {Image(<<0, x, 4, 0,   y, 5, 0, 10,   0, z, 10, 10>>) :
        x \in {2, 3}, y \in {16, 17, 13}, z \in {3, 9, 17}}

\* Few programs: a loop over all of it, with every kind of memory access.
Programs2 ==
    {Image(<<1, 11, 4, 0,   y, 5, 0, 10,   12, z, 4, 10>>) : y \in {3, 8}, z \in {2, 12}}

ProgramsFault == Programs2 \cup Programs3

=============================================================================

------------------------------- MODULE MiniRv -------------------------------
(***************************************************************************)
(* minirv (abstract-machine/tools/minirv): a processor with only add,      *)
(* addi, lui, lw, lbu, sw, sb and jalr runs compiled RISC-V programs,      *)
(* because inst-replace.h makes a macro of every other instruction.  Here  *)
(* each macro is the sequence of base instructions it expands to, and is   *)
(* executed; what RV32I says of the instruction is the reference.          *)
(*                                                                         *)
(* A word is a pair of 16-bit halves <<high, low>>.  An instruction is     *)
(* <<op, rd, rs1, rs2 or imm>>; a load is <<op, rd, base, offset>> and a   *)
(* store <<op, rs, base, offset>>.  "la" is lui followed by addi.          *)
(***************************************************************************)
EXTENDS Integers, Sequences, Bitwise, TLC

HALF == 65536
Word(n) == IF n < 0 THEN <<(n \div HALF) + HALF, n % HALF>> ELSE <<n \div HALF, n % HALF>>
Nat_(w) == w[1] * HALF + w[2]          \* of a small word, as an address
Add(a, b) == LET lo == a[2] + b[2]
             IN <<(a[1] + b[1] + lo \div HALF) % HALF, lo % HALF>>
Byte(w, i) == (IF i < 2 THEN w[2] ELSE w[1]) \div (IF i % 2 = 0 THEN 1 ELSE 256) % 256
Bytes(b0, b1, b2, b3) == <<b3 * 256 + b2, b1 * 256 + b0>>

-----------------------------------------------------------------------------
(* Memory: the stack below sp, the array of seq, and the tables.           *)

SP == 4096
DATA == 8192                          \* what the program loads and stores
_check_same_array == 8448
_same_result_table == 1024
_check_8bit_0_table == 1280
_slt1_table == 1536
_sltu1_table == 1544
_or1_table == 1552
_and8_table == 65536
_or8_table == _and8_table + 65536
_xor8_table == _or8_table + 65536
_sll8_table == _xor8_table + 65536
_srl8_table == _sll8_table + 32 * 1024
_sra8_table == _srl8_table + 32 * 1024
Target == 500                         \* where jumps and branches go
Next_ == 400                          \* the instruction after the macro

\* Bit i of a word of which the bits come from f, and a word made of them.
Bit(w, i) == (IF i < 16 THEN w[2] ELSE w[1]) \div 2 ^ (i % 16) % 2
Powers == [i \in 0..15 |-> 2 ^ i]
HalfOf(f(_), from) ==
    LET n[i \in 0..15] == (IF f(from + i) = 1 THEN Powers[i] ELSE 0) + (IF i = 0 THEN 0 ELSE n[i - 1])
    IN n[15]
FromBits(f(_)) == <<HalfOf(f, 16), HalfOf(f, 0)>>

Shl(w, s) == LET f(i) == IF i < s THEN 0 ELSE Bit(w, i - s) IN FromBits(f)
Shr(w, s, fill) == LET f(i) == IF i + s > 31 THEN fill ELSE Bit(w, i + s) IN FromBits(f)
Sign(w) == w[1] \div 32768

\* gen-lut.c: entry i of row j.
gen_table(a) ==
    LET bit(base) == [j |-> (a - base) \div 256, i |-> (a - base) % 256]
        sh(base) == [j |-> (a - base) \div 1024, w |-> Bytes(0, 0, 0, ((a - base) % 1024) \div 4), b |-> a % 4]
        low(base) == Word(((a - base) % 1024) \div 4)
    IN CASE a < _or8_table -> bit(_and8_table).j & bit(_and8_table).i
         [] a \in _or8_table.._xor8_table - 1 -> bit(_or8_table).j | bit(_or8_table).i
         [] a \in _xor8_table.._sll8_table - 1 -> bit(_xor8_table).j ^^ bit(_xor8_table).i
         [] a \in _sll8_table.._srl8_table - 1 -> Byte(Shl(low(_sll8_table), sh(_sll8_table).j), a % 4)
         [] a \in _srl8_table.._sra8_table - 1 -> Byte(Shr(sh(_srl8_table).w, sh(_srl8_table).j, 0), a % 4)
         [] a >= _sra8_table ->
              LET s == sh(_sra8_table) IN Byte(Shr(s.w, s.j, Sign(s.w)), a % 4)

Rom(a) ==
    CASE a \in _same_result_table.._same_result_table + 7 -> IF a = _same_result_table THEN 1 ELSE 0
      [] a \in _check_8bit_0_table.._check_8bit_0_table + 255 -> IF a = _check_8bit_0_table THEN 0 ELSE 1
      [] a \in _slt1_table.._slt1_table + 7 -> <<0, 1, 0, 0, 1, 1, 0, 1>>[a - _slt1_table + 1]
      [] a \in _sltu1_table.._sltu1_table + 7 -> <<0, 1, 1, 1, 0, 0, 0, 1>>[a - _sltu1_table + 1]
      [] a \in _or1_table.._or1_table + 3 -> <<0, 1, 1, 1>>[a - _or1_table + 1]
      [] a >= _and8_table -> gen_table(a)
      [] OTHER -> 165                 \* memory nobody has written

\* m holds the bytes written so far.
lbu_(m, a) == IF a \in DOMAIN m THEN m[a] ELSE Rom(a)
lw_(m, a) == Bytes(lbu_(m, a), lbu_(m, a + 1), lbu_(m, a + 2), lbu_(m, a + 3))
sb_(m, a, w) == (a :> Byte(w, 0)) @@ m
sw_(m, a, w) == (a :> Byte(w, 0)) @@ (a + 1 :> Byte(w, 1)) @@ (a + 2 :> Byte(w, 2)) @@ (a + 3 :> Byte(w, 3)) @@ m

\* One base instruction of the processor; st is [r, m, pc].
Step(st, i) ==
    LET addr == Nat_(Add(st.r[i[3]], Word(i[4])))
        set(w) == IF i[2] = "x0" THEN st ELSE [st EXCEPT !.r[i[2]] = w]
    IN IF st.pc # Next_ THEN st
       ELSE CASE i[1] = "add" -> set(Add(st.r[i[3]], st.r[i[4]]))
              [] i[1] = "addi" -> set(Add(st.r[i[3]], Word(i[4])))
              [] i[1] = "la" -> set(Word(i[3]))
              [] i[1] = "lbu" -> set(Word(lbu_(st.m, addr)))
              [] i[1] = "lw" -> set(lw_(st.m, addr))
              [] i[1] = "sb" -> [st EXCEPT !.m = sb_(@, addr, st.r[i[2]])]
              [] i[1] = "sw" -> [st EXCEPT !.m = sw_(@, addr, st.r[i[2]])]
              [] i[1] = "jalr" -> [set(Word(Next_)) EXCEPT !.pc = Nat_(st.r[i[3]])]

\* The state after the first n instructions; a jump ends the macro.
Execute(st, code) ==
    LET run[n \in 0..Len(code)] == IF n = 0 THEN st ELSE Step(run[n - 1], code[n])
    IN run[Len(code)]

-----------------------------------------------------------------------------
(* The macros *)

SP_VAR_BYTE(n, b) == b - 4 * n
VAR_A == 4
VAR_B == 5
VAR_C == 6
VAR_D == 7
PUSH(r, n) == <<"sw", r, "sp", SP_VAR_BYTE(n, 0)>>
POP(r, n) == <<"lw", r, "sp", SP_VAR_BYTE(n, 0)>>
LB(r, n, b) == <<"lbu", r, "sp", SP_VAR_BYTE(n, b)>>
SB(r, n, b) == <<"sb", r, "sp", SP_VAR_BYTE(n, b)>>
mv(rd, rs) == <<"addi", rd, rs, 0>>
la(rd, a) == <<"la", rd, a>>
jr(rs) == <<"jalr", "x0", rs>>

call_template(r, a) == <<la(r, a), <<"jalr", r, r>>>>
j(a) == <<la("tp", a), <<"jalr", "x0", "tp">>>>
jal(rd, a) == IF rd = "x0" THEN j(a) ELSE call_template(rd, a)
tail(a) == <<la("tp", a), jr("tp")>> \o call_template("ra", a)

getbyte(rd, rs1, byte) == <<PUSH(rs1, VAR_C), LB(rd, VAR_C, byte)>>

sh(rs, base, off) == <<<<"sb", rs, base, off>>>> \o getbyte("tp", rs, 1) \o <<<<"sb", "tp", base, off + 1>>>>

\* n doublings; for n = 0 a copy unless the registers are the same
Doubled(rd, rs1, n) ==
    IF n = 0 THEN IF rd = rs1 THEN <<>> ELSE <<mv(rd, rs1)>>
    ELSE <<<<"add", rd, rs1, rs1>>>> \o [k \in 1..n - 1 |-> <<"add", rd, rd, rd>>]
slli(rd, rs1, imm) ==
    CASE imm >= 24 -> <<PUSH("x0", VAR_A), SB(rs1, VAR_A, 3), POP(rd, VAR_A)>> \o Doubled(rd, rd, imm - 24)
      [] imm \in 16..23 -> <<PUSH("x0", VAR_A)>> \o sh(rs1, "sp", SP_VAR_BYTE(VAR_A, 2)) \o <<POP(rd, VAR_A)>>
                           \o Doubled(rd, rd, imm - 16)
      [] OTHER -> Doubled(rd, rs1, imm)

msb(rd, rs1) == getbyte(rd, rs1, 3) \o slli(rd, rd, 1) \o getbyte(rd, rd, 1)

NotByte(b) == <<LB("gp", VAR_C, b), <<"add", "gp", "gp", "tp">>, <<"lbu", "gp", "gp", 0>>, SB("gp", VAR_D, b)>>
not(rd, rs1) == <<PUSH("gp", 3), PUSH(rs1, VAR_C), la("tp", _xor8_table + 255 * 256)>>
                \o NotByte(3) \o NotByte(2) \o NotByte(1) \o NotByte(0) \o <<POP("gp", 3), POP(rd, VAR_D)>>

sub(rd, rs1, rs2) == not("tp", rs2) \o <<<<"add", rd, rs1, "tp">>, <<"addi", rd, rd, 1>>>>
neg(rd, rs) == sub(rd, "x0", rs)

\* Mutation: the second operand is read after s0 has been overwritten.
slt_templateLate(lut, rd, rs1, rs2) ==
    <<PUSH("s0", 1), PUSH("s1", 2), mv("s0", rs1), mv("s1", rs2)>>
    \o msb("gp", "s0") \o slli("gp", "gp", 1)
    \o msb("tp", "s1") \o <<<<"add", "gp", "gp", "tp">>>> \o slli("gp", "gp", 1)
    \o sub("tp", "s0", "s1") \o msb("tp", "tp") \o <<<<"add", "gp", "gp", "tp">>>>
    \o <<la("tp", lut), <<"add", "tp", "tp", "gp">>, POP("s1", 2), POP("s0", 1), <<"lbu", rd, "tp", 0>>>>

slt_template(lut, rd, rs1, rs2) ==
    <<PUSH("s0", 1), PUSH("s1", 2), PUSH(rs2, VAR_A), mv("s0", rs1), POP("s1", VAR_A)>>
    \o msb("gp", "s0") \o slli("gp", "gp", 1)
    \o msb("tp", "s1") \o <<<<"add", "gp", "gp", "tp">>>> \o slli("gp", "gp", 1)
    \o sub("tp", "s0", "s1") \o msb("tp", "tp") \o <<<<"add", "gp", "gp", "tp">>>>
    \o <<la("tp", lut), <<"add", "tp", "tp", "gp">>, POP("s1", 2), POP("s0", 1), <<"lbu", rd, "tp", 0>>>>
slt(rd, rs1, rs2) == slt_template(_slt1_table, rd, rs1, rs2)
sltu(rd, rs1, rs2) == slt_template(_sltu1_table, rd, rs1, rs2)
snez(rd, rs) == sltu(rd, "x0", rs)
sgt(rd, rs1, rs2) == slt(rd, rs2, rs1)
sgtu(rd, rs1, rs2) == sltu(rd, rs2, rs1)
sgtz(rd, rs) == slt(rd, "x0", rs)

logic8_byte_internal(lut_reg, b) ==
    <<LB("tp", VAR_A, b), SB("tp", VAR_D, 1), LB("tp", VAR_B, b), SB("tp", VAR_D, 0), POP("tp", VAR_D),
      <<"add", "tp", lut_reg, "tp">>, <<"lbu", "tp", "tp", 0>>, SB("tp", VAR_C, b)>>
\* (it refuses to be assembled with sp, gp or tp but for tp as rs2)
logic(lut, rd, rs1, rs2) ==
    IF rd = "x0" THEN <<>>
    ELSE <<PUSH(rs1, VAR_A), PUSH(rs2, VAR_B), la(rd, lut), PUSH("x0", VAR_D)>>
         \o logic8_byte_internal(rd, 3) \o logic8_byte_internal(rd, 2)
         \o logic8_byte_internal(rd, 1) \o logic8_byte_internal(rd, 0) \o <<POP(rd, VAR_C)>>

check_8bit_same(table, rd, b) ==
    <<LB(rd, VAR_A, b), <<"add", "tp", table, rd>>, <<"addi", rd, "x0", 1>>, <<"sb", rd, "tp", 0>>,
      LB(rd, VAR_B, b), <<"add", rd, table, rd>>, <<"sb", "x0", rd, 0>>, <<"lbu", rd, "tp", 0>>>>
seq(rd, rs1, rs2) ==
    <<PUSH(rs1, VAR_A), PUSH(rs2, VAR_B), PUSH("s0", 1), PUSH("s1", 2), la("s0", _check_same_array)>>
    \o check_8bit_same("s0", "gp", 0)
    \o check_8bit_same("s0", "s1", 1) \o <<<<"add", "gp", "gp", "s1">>>>
    \o check_8bit_same("s0", "s1", 2) \o <<<<"add", "gp", "gp", "s1">>>>
    \o check_8bit_same("s0", "s1", 3) \o <<<<"add", "gp", "gp", "s1">>>>
    \o <<la("tp", _same_result_table), <<"add", "tp", "tp", "gp">>, <<"lbu", rd, "tp", 0>>, POP("s1", 2), POP("s0", 1)>>

check_8bit_0(table, rd, b) == <<LB(rd, VAR_A, b), <<"add", rd, table, rd>>, <<"lbu", rd, rd, 0>>>>
seqz(rd, rs1) ==
    <<PUSH(rs1, VAR_A), PUSH("s0", 1), la("s0", _check_8bit_0_table)>>
    \o check_8bit_0("s0", "gp", 0)
    \o check_8bit_0("s0", "tp", 1) \o <<<<"add", "gp", "gp", "tp">>>>
    \o check_8bit_0("s0", "tp", 2) \o <<<<"add", "gp", "gp", "tp">>>>
    \o check_8bit_0("s0", "tp", 3) \o <<<<"add", "gp", "gp", "tp">>>>
    \o <<la("tp", _same_result_table), <<"add", "tp", "tp", "gp">>, <<"lbu", rd, "tp", 0>>, POP("s0", 1)>>

-----------------------------------------------------------------------------
(* Branches: tp selects one of two addresses on the stack. *)

branch_resolve(target, high) ==
    slli("tp", "tp", 2) \o <<<<"add", "tp", "sp", "tp">>>>
    \o <<la("gp", IF high = 1 THEN target ELSE Next_), PUSH("gp", VAR_A),
         la("gp", IF high = 1 THEN Next_ ELSE target), PUSH("gp", VAR_B),
         <<"lw", "tp", "tp", SP_VAR_BYTE(VAR_B, 0)>>, jr("tp")>>

Equal(rs1, rs2) == CASE rs2 = "x0" -> seqz("tp", rs1)
                     [] rs1 = "x0" /\ rs2 # "x0" -> seqz("tp", rs2)
                     [] OTHER -> seq("tp", rs1, rs2)
beq(rs1, rs2, t) == Equal(rs1, rs2) \o branch_resolve(t, 1)
bne(rs1, rs2, t) == Equal(rs1, rs2) \o branch_resolve(t, 0)

\* tp = (rs <= 0)
NotPositive(rs) ==
    msb("gp", rs) \o <<<<"addi", "tp", rs, -1>>>> \o msb("tp", "tp") \o <<<<"add", "gp", "gp", "tp">>>>
    \o <<la("tp", _or1_table), <<"add", "tp", "gp", "tp">>, <<"lbu", "tp", "tp", 0>>>>
blt(rs1, rs2, t) ==
    CASE rs2 = "x0" -> msb("tp", rs1) \o branch_resolve(t, 1)
      [] rs1 = "x0" /\ rs2 # "x0" -> NotPositive(rs2) \o branch_resolve(t, 0)
      [] OTHER -> slt("tp", rs1, rs2) \o branch_resolve(t, 1)
bge(rs1, rs2, t) ==
    IF rs1 = "x0" THEN NotPositive(rs2) \o branch_resolve(t, 1)
    ELSE slt("tp", rs1, rs2) \o branch_resolve(t, 0)
bltu(rs1, rs2, t) == sltu("tp", rs1, rs2) \o branch_resolve(t, 1)
bgeu(rs1, rs2, t) == sltu("tp", rs1, rs2) \o branch_resolve(t, 0)

-----------------------------------------------------------------------------
(* Shifts *)

getshamt(rd, rs1) ==
    <<SB(rs1, VAR_B, 0), LB(rd, VAR_B, 0), la("tp", _and8_table + 31 * 256), <<"add", rd, rd, "tp">>, <<"lbu", rd, rd, 0>>>>
get_shift_byte_in_tp(base, b) ==
    <<LB("tp", VAR_A, b)>> \o slli("tp", "tp", 2) \o <<<<"add", "tp", base, "tp">>, <<"lw", "tp", "tp", 0>>>>
\* s0 = the row of the table for the shift amount in rs2
Row(rs2, table) ==
    getshamt("s0", rs2) \o <<PUSH("x0", VAR_B), SB("s0", VAR_B, 1), POP("s0", VAR_B)>> \o slli("s0", "s0", 2)
    \o <<la("tp", table), <<"add", "s0", "s0", "tp">>>>

sll(rd, rs1, rs2) ==
    <<PUSH("s0", 1), PUSH(rs1, VAR_A)>> \o Row(rs2, _sll8_table) \o <<PUSH("x0", VAR_B)>>
    \o get_shift_byte_in_tp("s0", 3) \o <<SB("tp", VAR_B, 3), POP("gp", VAR_B)>>
    \o get_shift_byte_in_tp("s0", 2) \o sh("tp", "sp", SP_VAR_BYTE(VAR_B, 2)) \o <<POP("tp", VAR_B), <<"add", "gp", "gp", "tp">>>>
    \o get_shift_byte_in_tp("s0", 1) \o slli("tp", "tp", 8) \o <<<<"add", "gp", "gp", "tp">>>>
    \o get_shift_byte_in_tp("s0", 0) \o <<POP("s0", 1), <<"add", rd, "gp", "tp">>>>

\* rs2 is a register, or with imm a number
shift_right_template(rd, rs1, rs2, arith, imm) ==
    IF imm /\ rs2 = 24
    THEN IF arith
         THEN <<PUSH(rs1, VAR_A), la("tp", _sra8_table + rs2 * 1024), LB(rd, VAR_A, 3)>> \o slli(rd, rd, 2)
              \o <<<<"add", "tp", "tp", rd>>, <<"lw", rd, "tp", 0>>>>
         ELSE getbyte(rd, rs1, 3)
    ELSE <<PUSH("s0", 1), PUSH(rs1, VAR_A)>>
         \o (IF imm THEN <<la("s0", _srl8_table + rs2 * 1024)>> ELSE Row(rs2, _srl8_table))
         \o get_shift_byte_in_tp("s0", 2) \o <<PUSH("tp", VAR_B)>>
         \o get_shift_byte_in_tp("s0", 1) \o <<PUSH("tp", VAR_C)>>
         \o get_shift_byte_in_tp("s0", 0) \o <<PUSH("tp", VAR_D)>>
         \o <<LB("gp", VAR_B, 1), LB("tp", VAR_C, 2), <<"add", "gp", "gp", "tp">>, LB("tp", VAR_D, 3),
              <<"add", "gp", "gp", "tp">>, PUSH("gp", VAR_D),
              LB("gp", VAR_B, 2), LB("tp", VAR_C, 3), <<"add", "gp", "gp", "tp">>, SB("gp", VAR_D, 1),
              LB("gp", VAR_B, 3), SB("gp", VAR_D, 2), POP("gp", VAR_D)>>
         \o (IF arith THEN <<la("tp", _sra8_table - _srl8_table), <<"add", "s0", "s0", "tp">>>> ELSE <<>>)
         \o get_shift_byte_in_tp("s0", 3) \o <<POP("s0", 1), <<"add", rd, "gp", "tp">>>>

srai(rd, rs1, imm) == shift_right_template(rd, rs1, imm, TRUE, TRUE)

-----------------------------------------------------------------------------
(* Loads *)

lb(rd, base, off) == <<PUSH("x0", VAR_A), <<"lbu", rd, base, off>>, SB(rd, VAR_A, 3), POP(rd, VAR_A)>> \o srai(rd, rd, 24)
lhu(rd, base, off) ==
    <<PUSH("x0", VAR_A), <<"lbu", "tp", base, off + 1>>, SB("tp", VAR_A, 1), POP("tp", VAR_A),
      <<"lbu", rd, base, off>>, <<"add", rd, rd, "tp">>>>
lh(rd, base, off) ==
    <<PUSH("x0", VAR_A), <<"lbu", "gp", base, off + 1>>, SB("gp", VAR_A, 3), POP("gp", VAR_A)>> \o srai("gp", "gp", 16)
    \o <<<<"lbu", rd, base, off>>, <<"add", rd, rd, "gp">>>>

\* def_itype: the immediate goes through tp
Itype(imm, code) == <<<<"addi", "tp", "x0", imm>>>> \o code

-----------------------------------------------------------------------------
(* The expansion of an instruction [op, rd, rs1, rs2, imm] ... *)

Expand(i) ==
    LET rd == i.rd
        a == i.rs1
        b == i.rs2
        n == i.imm
    IN CASE i.op = "sub" -> sub(rd, a, b) [] i.op = "slt" -> slt(rd, a, b) [] i.op = "sltu" -> sltu(rd, a, b)
         [] i.op = "and" -> logic(_and8_table, rd, a, b) [] i.op = "or" -> logic(_or8_table, rd, a, b)
         [] i.op = "xor" -> logic(_xor8_table, rd, a, b) [] i.op = "sll" -> sll(rd, a, b)
         [] i.op = "srl" -> shift_right_template(rd, a, b, FALSE, FALSE)
         [] i.op = "sra" -> shift_right_template(rd, a, b, TRUE, FALSE)
         [] i.op = "sgt" -> sgt(rd, a, b) [] i.op = "sgtu" -> sgtu(rd, a, b)
         [] i.op = "not" -> not(rd, a) [] i.op = "neg" -> neg(rd, a) [] i.op = "snez" -> snez(rd, a)
         [] i.op = "sltz" -> msb(rd, a) [] i.op = "sgtz" -> sgtz(rd, a) [] i.op = "seqz" -> seqz(rd, a)
         [] i.op = "slli" -> slli(rd, a, n) [] i.op = "srai" -> srai(rd, a, n)
         [] i.op = "srli" -> shift_right_template(rd, a, n, FALSE, TRUE)
         [] i.op = "slti" -> Itype(n, slt(rd, a, "tp")) [] i.op = "sltiu" -> Itype(n, sltu(rd, a, "tp"))
         [] i.op = "andi" -> Itype(n, logic(_and8_table, rd, a, "tp"))
         [] i.op = "ori" -> Itype(n, logic(_or8_table, rd, a, "tp"))
         [] i.op = "xori" -> Itype(n, logic(_xor8_table, rd, a, "tp"))
         [] i.op = "lb" -> lb(rd, a, n) [] i.op = "lh" -> lh(rd, a, n) [] i.op = "lhu" -> lhu(rd, a, n)
         [] i.op = "sh" -> sh(b, a, n)
         [] i.op = "beq" -> beq(a, b, Target) [] i.op = "bne" -> bne(a, b, Target)
         [] i.op = "blt" -> blt(a, b, Target) [] i.op = "bge" -> bge(a, b, Target)
         [] i.op = "bltu" -> bltu(a, b, Target) [] i.op = "bgeu" -> bgeu(a, b, Target)
         [] i.op = "bgt" -> blt(b, a, Target) [] i.op = "ble" -> bge(b, a, Target)
         [] i.op = "bgtu" -> bltu(b, a, Target) [] i.op = "bleu" -> bgeu(b, a, Target)
         [] i.op = "beqz" -> beq(a, "x0", Target) [] i.op = "bnez" -> bne(a, "x0", Target)
         [] i.op = "blez" -> bge("x0", a, Target) [] i.op = "bgez" -> bge(a, "x0", Target)
         [] i.op = "bltz" -> blt(a, "x0", Target) [] i.op = "bgtz" -> blt("x0", a, Target)
         [] i.op = "jal" -> jal(rd, Target) [] i.op = "tail" -> tail(Target)

(* ... and what RV32I says of it. *)

Lt(a, b, signed) ==
    LET x(w) == IF signed THEN (w[1] + 32768) % HALF ELSE w[1]
    IN x(a) < x(b) \/ (a[1] = b[1] /\ a[2] < b[2])
Minus(a, b) == LET lo == a[2] - b[2] IN <<(a[1] - b[1] - (IF lo < 0 THEN 1 ELSE 0)) % HALF, lo % HALF>>
One(c) == Word(IF c THEN 1 ELSE 0)
Zero == <<0, 0>>

\* The value of rd, x and y being the operands and m the memory.
Value(i, x, y, m) ==
    LET op == i.op
        s == y[2] % 32
        at(k) == lbu_(m, Nat_(Add(x, Word(i.imm))) + k)
        sext(lo, minus) == IF minus THEN <<HALF - 1, lo>> ELSE <<0, lo>>
    IN CASE op = "sub" -> Minus(x, y) [] op = "neg" -> Minus(Zero, x) [] op = "not" -> Minus(Word(-1), x)
         [] op \in {"slt", "slti"} -> One(Lt(x, y, TRUE)) [] op \in {"sltu", "sltiu"} -> One(Lt(x, y, FALSE))
         [] op = "sgt" -> One(Lt(y, x, TRUE)) [] op = "sgtu" -> One(Lt(y, x, FALSE))
         [] op = "snez" -> One(x # Zero) [] op = "seqz" -> One(x = Zero)
         [] op = "sltz" -> One(Sign(x) = 1) [] op = "sgtz" -> One(Sign(x) = 0 /\ x # Zero)
         [] op \in {"and", "andi"} -> <<x[1] & y[1], x[2] & y[2]>>
         [] op \in {"or", "ori"} -> <<x[1] | y[1], x[2] | y[2]>>
         [] op \in {"xor", "xori"} -> <<x[1] ^^ y[1], x[2] ^^ y[2]>>
         [] op \in {"sll", "slli"} -> Shl(x, s) [] op \in {"srl", "srli"} -> Shr(x, s, 0)
         [] op \in {"sra", "srai"} -> Shr(x, s, Sign(x))
         [] op = "lb" -> sext(at(0) + (IF at(0) > 127 THEN 65280 ELSE 0), at(0) > 127)
         [] op = "lh" -> sext(at(1) * 256 + at(0), at(1) > 127) [] op = "lhu" -> <<0, at(1) * 256 + at(0)>>
         [] op = "jal" -> Word(Next_)

Taken(op, x, y) ==
    CASE op = "beq" -> x = y [] op = "bne" -> x # y
      [] op = "blt" -> Lt(x, y, TRUE) [] op = "bge" -> ~Lt(x, y, TRUE)
      [] op = "bltu" -> Lt(x, y, FALSE) [] op = "bgeu" -> ~Lt(x, y, FALSE)
      [] op = "bgt" -> Lt(y, x, TRUE) [] op = "ble" -> ~Lt(y, x, TRUE)
      [] op = "bgtu" -> Lt(y, x, FALSE) [] op = "bleu" -> ~Lt(y, x, FALSE)
      [] op = "beqz" -> x = Zero [] op = "bnez" -> x # Zero
      [] op = "blez" -> Sign(x) = 1 \/ x = Zero [] op = "bgtz" -> Sign(x) = 0 /\ x # Zero
      [] op = "bltz" -> Sign(x) = 1 [] op = "bgez" -> Sign(x) = 0
      [] OTHER -> op \in {"jal", "tail"}

Immediates == {"slti", "sltiu", "andi", "ori", "xori", "slli", "srli", "srai"}
NoResult == {"beq", "bne", "blt", "bge", "bltu", "bgeu", "bgt", "ble", "bgtu", "bleu",
             "beqz", "bnez", "blez", "bgez", "bltz", "bgtz", "tail", "sh"}
Scratch == {"gp", "tp"}

\* A macro does what the instruction does, from any registers, and leaves alone every
\* register but rd and the two it has for itself, and all memory but the words below sp.
ExpansionCorrect(i, regs, data) ==
    LET st == [r |-> regs, m |-> data, pc |-> Next_]
        end == Execute(st, Expand(i))
        x == regs[i.rs1]
        y == IF i.op \in Immediates THEN Word(i.imm) ELSE regs[i.rs2]
        target == Nat_(Add(x, Word(i.imm)))
        stored == IF i.op = "sh" THEN {target, target + 1} ELSE {}
    IN /\ end.pc = IF Taken(i.op, x, y) THEN Target ELSE Next_
       /\ \A r \in DOMAIN regs \ Scratch :
              end.r[r] = IF r = i.rd /\ r # "x0" /\ i.op \notin NoResult THEN Value(i, x, y, data)
                         ELSE regs[r]
       /\ \A a \in DOMAIN end.m \ stored :
              \/ a \in SP - 28..SP - 1
              \/ a \in _check_same_array.._check_same_array + 255
              \/ end.m[a] = lbu_(data, a)
       /\ i.op = "sh" => end.m[target] = Byte(y, 0) /\ end.m[target + 1] = Byte(y, 1)

=============================================================================

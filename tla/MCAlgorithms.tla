---------------------------- MODULE MCAlgorithms ----------------------------
(***************************************************************************)
(* The algorithms of the repository that are functions of their input,     *)
(* each compared with a reference definition.  A step picks a case of one  *)
(* of the algorithms; the properties, of the step, compare.                *)
(***************************************************************************)
EXTENDS Integers, Sequences, SequencesExt

CONSTANTS
    SeqzResults,   \* the registers seqz may be used to set
    Algorithms     \* the algorithms tried

VARIABLE t   \* the case

Start == [of |-> "start"]

(***************************************************************************)
(* MiniRv: a0 holds x, a1 y; s0 and s1 hold them the other way round.      *)
(***************************************************************************)
Rv == INSTANCE MiniRv
Regs(x, y) == [x0 |-> <<0, 0>>, ra |-> <<1, 2>>, sp |-> Rv!Word(Rv!SP), gp |-> <<3, 4>>, tp |-> <<5, 6>>,
               a0 |-> x, a1 |-> y, s0 |-> y, s1 |-> x]
RvWords == {<<0, 0>>, <<0, 1>>, <<65535, 65535>>, <<32768, 0>>, <<32767, 65535>>, <<4660, 22136>>, <<33023, 287>>, <<0, 255>>}
RvFew == {<<33023, 287>>, <<0, 13>>}
RvData == [k \in Rv!DATA..Rv!DATA + 3 |-> IF k % 2 = 0 THEN 128 ELSE 127]

RType == {"sub", "slt", "sltu", "and", "or", "xor", "sll", "srl", "sra", "sgt", "sgtu"}
Branch == {"beq", "bne", "blt", "bge", "bltu", "bgeu", "bgt", "ble", "bgtu", "bleu"}
BranchZero == {"beqz", "bnez", "blez", "bgez", "bltz", "bgtz"}
OneOperand == {"not", "neg", "snez", "sltz", "sgtz", "seqz"}
RvInst(op, rd, rs1, rs2, imm) == [op |-> op, rd |-> rd, rs1 |-> rs1, rs2 |-> rs2, imm |-> imm]
Sources == {"x0", "a0", "a1", "s0", "s1"}
Results == {"a0", "s0", "s1"}

MinirvAll ==
    {RvInst(op, rd, a, b, 0) : op \in RType, rd \in Results, a \in Sources, b \in Sources}
    \cup {RvInst(op, "x0", a, b, 0) : op \in Branch, a \in Sources \cup {"sp"}, b \in Sources}
    \cup {RvInst(op, "x0", a, "x0", 0) : op \in BranchZero, a \in Sources \ {"x0"}}
    \cup {RvInst(op, rd, a, "x0", 0) : op \in OneOperand, rd \in Results, a \in Sources \ {"x0"}}
    \cup {RvInst(op, rd, a, "x0", n) : op \in {"slli", "srli", "srai"}, rd \in Results, a \in Sources, n \in {1, 8, 15, 16, 23, 24, 31}}
    \cup {RvInst(op, rd, a, "x0", n) : op \in {"slti", "sltiu", "andi", "ori", "xori"}, rd \in Results, a \in Sources, n \in {0, 1, -1, -2048}}
    \cup {RvInst("jal", rd, "x0", "x0", 0) : rd \in {"x0", "ra", "a0"}}
    \cup {RvInst("tail", "x0", "x0", "x0", 0)}
MinirvInsts == {i \in MinirvAll : i.op = "seqz" => i.rd \in SeqzResults}
MinirvMems == {RvInst(op, rd, "a1", "x0", n) : op \in {"lb", "lh", "lhu"}, rd \in {"a0", "a1", "s0"}, n \in 0..2}
              \cup {RvInst("sh", "x0", "a1", b, n) : b \in {"a0", "s1", "x0"}, n \in 0..2}

MinirvCase(i, x, y) == t' = [of |-> "minirv", i |-> i, x |-> x, y |-> y]
MinirvCases ==
    \/ \E i \in MinirvInsts, x \in RvFew, y \in RvFew : MinirvCase(i, x, y)
    \/ \E i \in {j \in MinirvInsts : j.rd # "s0" /\ j.rs1 = "a0" /\ j.rs2 \in {"x0", "a1"}}, x \in RvWords, y \in RvWords :
           MinirvCase(i, x, y)
    \/ \E i \in MinirvMems, x \in RvFew : MinirvCase(i, x, Rv!Word(Rv!DATA))

\* Every macro that inst-replace.h puts in the place of an instruction the
\* minimal processor lacks computes what the instruction does, with every
\* other register as it was, whichever registers it is used with.
MinirvCorrect == [][t'.of = "minirv" => Rv!ExpansionCorrect(t'.i, Regs(t'.x, t'.y), RvData)]_t

(***************************************************************************)
(* Klib: strings of up to two and three characters at 1 and 7, blocks that *)
(* overlap, numbers, formats and allocations; every dividend and divisor   *)
(* of two words of 4 bits.                                                 *)
(***************************************************************************)
Lib == INSTANCE Klib WITH Size <- 10, W <- 4
KlibMem(x, y) == x \o <<0, 0, 0, 0>> \o y \o <<0>>
KlibNumbers == -12..12 \cup {99, 100, 1000, -100, 65535, 2147483647, -2147483647}
KlibArgs == <<[num |-> 0, str |-> <<5>>], [num |-> -10, str |-> <<>>], [num |-> 31, str |-> <<6, 7>>]>>
KlibFormats == [1..3 -> {Lib!Plain(55)} \cup {Lib!Conv(c) : c \in {"%", "d", "s", "c"}}]
               \cup [1..2 -> {Lib!Plain(55)} \cup {Lib!Conv(c) : c \in {"x", "p"}}]
KlibCases ==
    \/ \E x \in [1..2 -> 0..2], y \in [1..3 -> 0..2] : t' = [of |-> "memory", mem |-> KlibMem(x, y)]
    \/ \E n \in KlibNumbers : t' = [of |-> "number", n |-> n]
    \/ \E f \in KlibFormats : t' = [of |-> "format", fmt |-> f]
    \/ \E sizes \in [1..3 -> {0, 1, 8, 9, 17}] : t' = [of |-> "malloc", sizes |-> sizes]
    \/ \E a \in 0..Lib!Dword - 1 : t' = [of |-> "int64", a |-> a]

\* klib does what C asks of it, with two exceptions: the 64-bit division and bit
\* counting put together from 32-bit words give C's results, copies that overlap
\* and strings that end early come out right, numbers are read back from their
\* digits, and the blocks malloc hands out are disjoint.  The exceptions are
\* strncmp of strings with n equal characters, which compares the next one, too,
\* and atoi of a negative number, which is 0.
KlibCorrect ==
    [][/\ t'.of = "int64" => /\ Lib!CountsCorrect(t'.a)
                             /\ \A b \in 1..Lib!Dword - 1 : Lib!DivisionCorrect(t'.a, b)
       /\ t'.of = "memory" => /\ \A a, b \in 1..8, n \in 0..2 : Lib!MemoryCorrect(t'.mem, a, b, n)
                              /\ \A n \in 0..4 : Lib!StringsCorrect(t'.mem, 1, 7, n)
       /\ t'.of = "number" => Lib!NumbersCorrect(t'.n)
       /\ t'.of = "format" => Lib!FormatCorrect(t'.fmt, KlibArgs)
       /\ t'.of = "malloc" => Lib!AllocationsCorrect(8, 40, t'.sizes)]_t

(***************************************************************************)
(* SdbExpr: all expression trees of two levels of operators over a few     *)
(* numbers, and of a third level where one side is a number; chains of up  *)
(* to four factors and divisors, and of up to four unary operators.        *)
(***************************************************************************)
MCMemWord(a) == 3 - a
Sdb == INSTANCE SdbExpr WITH MemWord <- MCMemWord
Leaves == {Sdb!Num(1), Sdb!Num(2), Sdb!Num(3)}
Level1(ops) == {Sdb!Binary(op, a, b) : op \in ops, a \in Leaves, b \in Leaves}
Units == {Sdb!Unary("neg", a) : a \in Leaves} \cup {Sdb!Unary("deref", a) : a \in Leaves}
Level2(ops, inner) ==
    LET subs == inner \cup {Sdb!Unary("paren", u) : u \in inner} \cup {Sdb!Num(1), Sdb!Num(2)}
    IN {Sdb!Binary(op, a, b) : op \in ops, a \in subs, b \in subs}
Trees ==
    LET inner == Level1({"+", "-", "*", "le", "or"})
        few == {Sdb!Binary(op, Sdb!Num(3), Sdb!Num(2)) : op \in {"+", "-", "*", "and", "eq"}}
    IN Level2({"+", "-", "*"}, {Sdb!Binary(op, a, Sdb!Num(3)) : op \in {"+", "-", "*", "le"}, a \in {Sdb!Num(1), Sdb!Num(2)}})
       \cup Level2({"or", "and", "eq", "le"}, few)
       \cup {Sdb!Binary("-", x, Sdb!Binary("-", Sdb!Num(1), u)) : x \in inner, u \in Units}
       \cup {Sdb!Binary("-", Sdb!Binary("-", x, Sdb!Num(1)), u) : x \in inner, u \in Units \cup few}
       \cup {Sdb!Unary("neg", Sdb!Unary("paren", x)) : x \in inner}
Muls == {"*", "/"}
Factors == {Sdb!Num(0), Sdb!Num(2), Sdb!Num(3), Sdb!Unary("neg", Sdb!Num(3))}
Chains ==
    LET two == {Sdb!Binary(op, a, b) : op \in Muls, a \in {Sdb!Num(8), Sdb!Num(3)}, b \in Factors}
        three == {Sdb!Binary(op, a, b) : op \in Muls, a \in two, b \in Factors \cup {Sdb!Unary("paren", x) : x \in two}}
    IN three \cup {Sdb!Binary(op, a, b) : op \in Muls \cup {"-"}, a \in three,
                                                b \in {Sdb!Num(2), Sdb!Binary("*", Sdb!Num(8), Sdb!Num(3)), Sdb!Binary("/", Sdb!Num(8), Sdb!Num(3))}}
Signs(inner) == {Sdb!Unary(op, x) : op \in {"neg", "deref"}, x \in inner}
UnaryChains ==
    LET one == Signs({Sdb!Num(2), Sdb!Unary("paren", Sdb!Binary("-", Sdb!Num(3), Sdb!Unary("neg", Sdb!Num(1))))})
        more == Signs(one) \cup Signs(Signs(one)) \cup Signs(Signs(Signs(one)))
    IN more \cup {Sdb!Binary(op, a, b) : op \in {"-", "*", "/", "le"}, a \in more \cup {Sdb!Num(3)}, b \in Signs(one)}
SdbCases ==
    \E tree \in Trees \cup Level2(Muls \cup {"+"}, Level1(Muls)) \cup Chains \cup UnaryChains :
        t' = [of |-> "expr", tree |-> tree]

\* The debugger's expressions (eval) come out as in C, except for two kinds
\* of chains: of unary operators one after the other only the last is applied,
\* and multiplications and divisions are grouped from the right.
EvalExact == [][t'.of = "expr" => Sdb!test_expr(t'.tree)]_t

(***************************************************************************)
(* KconfDeps: two symbols and a choice of two values, each with up to one  *)
(* mention, the first with up to two; every symbol visited first.          *)
(***************************************************************************)
KSymbols == {"x", "y", "choice", "a", "b"}
Deps == INSTANCE KconfDeps WITH Symbols <- KSymbols, Choice <- "choice", Values <- {"a", "b"}
OneMention == {<<>>} \cup {<<s>> : s \in KSymbols}
TwoMentions == OneMention \cup {<<s, u>> : s \in {"y", "choice"}, u \in {"x", "a"}}
Orders == {<<"x", "y", "choice", "a", "b">>, <<"choice", "x", "y", "b", "a">>, <<"b", "y", "x", "a", "choice">>}
DepsCases ==
    \E x \in TwoMentions, y \in OneMention, c \in OneMention, a \in OneMention, b \in OneMention, o \in Orders :
        t' = [of |-> "deps", refs |-> [x |-> x, y |-> y, choice |-> c, a |-> a, b |-> b], order |-> o]

\* sym_check_deps finds a recursive dependency among the symbols of the
\* Kconfig files where there is one, and only there, and the message it
\* prints shows the way round it.
RecursionFound == [][t'.of = "deps" => Deps!WalkCorrect(t'.refs, t'.order)]_t

(***************************************************************************)
(* Cachesim: traces of five fetches of five blocks, one of them outside    *)
(* the cached memory.                                                      *)
(***************************************************************************)
MCRegion(addr) == IF addr >= 16 THEN "flash" ELSE "sdram"
Sim == INSTANCE Cachesim WITH LineSize <- 4, Region <- MCRegion
CachesimCases ==
    \E trace \in [1..5 -> {0, 5, 8, 12, 20}], sets \in {1, 2}, ways \in {1, 2, 3}, repl \in {"fifo", "lru", "random"}, r \in {"sdram", "all"} :
        /\ repl = "random" => ways = 2
        /\ t' = [of |-> "cachesim", trace |-> trace, opt |-> [sets |-> sets, ways |-> ways, repl |-> repl, region |-> r]]

\* The cache simulator hits exactly where a cache with its replacement policy
\* does, and its counters add up.
CachesimCorrect == [][t'.of = "cachesim" => Sim!OptionsOk(t'.opt) /\ Sim!SimulationCorrect(t'.trace, t'.opt)]_t

(***************************************************************************)
(* Fixdep and KconfPreprocess: what the build watches.                     *)
(***************************************************************************)
Fix == INSTANCE Fixdep
Atoms == {"CONFIG_", "A", "_", "MODULE", " "}
ConfigNames == {<<"A">>, <<"A", "A">>, <<"A", "_", "MODULE">>, <<"A", "MODULE">>, <<"_", "A">>, <<"A", "_">>, <<"A", "_", "A">>, <<"A", "_", "_", "A">>}
DepFiles == {<<"target", "m.c", "autoconf.h", "n.h">>, <<"target", "autoconf.h", "m.c">>, <<"m.c", "n.h">>,
             <<"target", "m.c", "target", "n.h", "m.c">>}
FixdepCases ==
    \E m \in [1..5 -> Atoms], n \in {<<"CONFIG_", "A">>, <<"A", " ">>}, d \in DepFiles :
        t' = [of |-> "fixdep", tokens |-> d, files |-> [f \in {"m.c", "n.h"} |-> IF f = "m.c" THEN m ELSE n]]

\* "ls" prints more than the buffer holds; other commands one line.
MCOutput(cmd) == IF cmd = <<"ls">> THEN <<"o", "\n", "o", "\n", "\n", "o">> ELSE <<"o", "\n">> \o cmd \o <<"\n">>
Pp == INSTANCE KconfPreprocess WITH MaxDepth <- 2, ShellBuf <- 5, Output <- MCOutput
L(a) == Pp!Lit(a)
V(a) == Pp!Ref(<<<<L(a)>>>>)             \* $(a)
Fn(f, text) == Pp!Ref(<<<<L(f)>>, text>>)   \* $(f,text)
PpTexts == {<<L("y")>>, <<V("E")>>, <<V("A"), V("D")>>, <<V("B"), L("z")>>, <<V("1"), V("E")>>, <<Fn("B", <<V("D")>>)>>,
            <<Pp!Ref(<<<<V("A")>>>>)>>, <<Fn("shell", <<V("E")>>)>>, <<Fn("shell", <<L("ls")>>)>>,
            <<Pp!Ref(<<<<L("error-if")>>, <<V("E")>>, <<L("m")>>>>)>>, <<Fn("lineno", <<L("m")>>)>>, <<Pp!Open(<<<<V("E")>>>>)>>}
PpAssigns == [name : {<<"A">>, <<"B">>}, flavor : {"simple", "recursive", "append"}, text : PpTexts]
PpNames == {<<"E">>, <<"D">>}
PpValues == {<<"D">>, <<"y">>}
PpEnvs == Pp!Environments(PpNames, PpValues)
PreprocessCases ==
    \E a \in PpAssigns, b \in PpAssigns, text \in {<<V("A")>>, <<Fn("B", <<V("E")>>)>>}, e \in PpEnvs :
        /\ a.name = <<"A">>
        /\ t' = [of |-> "preprocess", script |-> <<a, b>>, text |-> text, env |-> e]

\* The build does over what depends on something that changed: every CONFIG_
\* word of a source file has its file among those fixdep lists, and what the
\* Kconfig files expand to stays the same until an environment variable that
\* kconfig has remembered changes, or one that it found unset is set.
DepsTracked ==
    [][/\ t'.of = "fixdep" => Fix!DepsWatched(t'.tokens, t'.files, ConfigNames)
       /\ t'.of = "preprocess" => /\ Pp!EnvDepsSufficient(t'.script, t'.text, t'.env, PpNames, PpValues)
                                  /\ Pp!SimpleKeeps(t'.script, t'.env)]_t

\* What env_expand says it does: "We need to remember all referenced environment
\* variables."  Then no change of the environment that goes unnoticed makes a
\* difference to what the Kconfig files expand to.
EnvRemembered ==
    [][t'.of = "preprocess" => Pp!AllRemembered(t'.script, t'.text, t'.env, PpNames, PpValues)]_t

Init == t = Start
Next == /\ t = Start
        /\ \/ "preprocess" \in Algorithms /\ PreprocessCases
           \/ "minirv" \in Algorithms /\ MinirvCases
           \/ "klib" \in Algorithms /\ KlibCases
           \/ "expr" \in Algorithms /\ SdbCases
           \/ "deps" \in Algorithms /\ DepsCases
           \/ "cachesim" \in Algorithms /\ CachesimCases
           \/ "fixdep" \in Algorithms /\ FixdepCases
Spec == Init /\ [][Next]_t
=============================================================================

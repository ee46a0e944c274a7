----------------------------- MODULE NpcParams -----------------------------
(***************************************************************************)
(* Parameters shared by the models of the NPC core (npc/vsrc) and of the   *)
(* NEMU reference machine: the 32-bit values, the bit slices the RTL takes *)
(* of an address, and the decoded form of an instruction.                  *)
(*                                                                         *)
(* A value counts 4-byte words: the two byte-offset bits of an address are *)
(* dropped, so "pc + 4" is the next value and a cache line of              *)
(* WORDS_PER_LINE words starts at a multiple of it.                        *)
(***************************************************************************)
EXTENDS Integers

CONSTANTS
    ValNum,           \* how many values there are: 2^32 (2^30 words) in the RTL
    WORDS_PER_LINE,   \* words of an I-cache line: 4
    LINE_NUM,         \* lines of the I-cache: 16
    CacheableTags,    \* tags of the SDRAM segment, addr[31:29] = 101
    ClintTags,        \* tags of the CLINT segment, addr[31:24] = 02
    Reg,              \* register numbers
    Decode,           \* what the decoder makes of each instruction word
    BitOr(_, _)       \* bitwise or of two values (csrrs)

Val == 0 .. ValNum - 1
LAST_WORD == WORDS_PER_LINE - 1
Word == 0 .. LAST_WORD
Index == 0 .. LINE_NUM - 1

(***************************************************************************)
(* The slices simple_icache takes of cpu_araddr and req_addr.              *)
(***************************************************************************)
LineOf(a) == a \div WORDS_PER_LINE
WordOf(a) == a % WORDS_PER_LINE
IndexOf(a) == LineOf(a) % LINE_NUM
TagOf(a) == LineOf(a) \div LINE_NUM
LineBase(a) == WORDS_PER_LINE * LineOf(a)
Tag == {TagOf(a) : a \in Val}

Cacheable(a) == TagOf(a) \in CacheableTags
InClint(a) == TagOf(a) \in ClintTags

(***************************************************************************)
(* A decoded instruction: its class, its register fields, its immediate    *)
(* and the CSR it names ("none": an address that is not one of the four).  *)
(***************************************************************************)
CsrName == {"mstatus", "mtvec", "mepc", "mcause"}
Op == {"alu", "load", "store", "jal", "jalr", "branch",
       "csrrw", "csrrs", "ecall", "mret", "ebreak", "other"}
Inst == [op : Op, rd : Reg, rs1 : Reg, rs2 : Reg, imm : Val,
         csr : CsrName \cup {"none"}]

ASSUME ParamsAssumption ==
    /\ ValNum \in Nat \ {0}
    /\ WORDS_PER_LINE \in Nat \ {0}
    /\ LINE_NUM \in Nat \ {0}
    \* Val is a whole number of lines, as 2^32 is
    /\ ValNum % WORDS_PER_LINE = 0
    /\ CacheableTags \cap ClintTags = {}
    /\ 0 \in Reg
    /\ Decode \in [Val -> Inst]
    /\ \A a, b \in Val : BitOr(a, b) \in Val
    /\ \A a \in Val : BitOr(a, 0) = a

\* The numbers the core writes to mcause, and the reset value of mstatus, fit.
ASSUME CauseAssumption == ValNum > 11

=============================================================================

-------------------------------- MODULE Klib --------------------------------
(***************************************************************************)
(* klib's string, memory, formatting, allocation and 64-bit division       *)
(* functions (abstract-machine/klib/src/string.c, stdio.c, stdlib.c,       *)
(* int64.c).  Memory is a function from the addresses 1..Size to bytes; a  *)
(* string is an address, its bytes those up to the first 0.                *)
(***************************************************************************)
EXTENDS Integers, Sequences, SequencesExt, FiniteSetsExt

CONSTANTS
    Size,   \* of the memory
    W       \* the bits of a word of the 64-bit division, a power of two, 32 in the source

Addresses == 1..Size
Put(mem, k, a, byte) == [mem EXCEPT ![a + k] = byte]

(***************************************************************************)
(* string.c.  Each copy is a loop over the bytes in the order of the code, *)
(* reading the memory as the loop has left it so far.                      *)
(***************************************************************************)
strlen(mem, s) == Min({n \in 0..Size - s : mem[s + n] = 0})

\* One pass: the steps are the offsets in the order the loop takes them.
CopyLoop(mem, dst, src, steps) == FoldLeft(LAMBDA m, k : Put(m, k, dst, m[src + k]), mem, steps)
Up(n) == [k \in 1..n |-> k - 1]
Down(n) == [k \in 1..n |-> n - k]

memcpy(mem, dst, src, n) == CopyLoop(mem, dst, src, Up(n))

\* Mutation: always from the start.
memmoveUp(mem, dst, src, n) == CopyLoop(mem, dst, src, Up(n))

memmove(mem, dst, src, n) == IF dst < src THEN CopyLoop(mem, dst, src, Up(n)) ELSE CopyLoop(mem, dst, src, Down(n))
memset(mem, s, c, n) == FoldLeft(LAMBDA m, k : Put(m, k, s, c), mem, Up(n))

\* The terminating 0 is written after the loop.
strcpy(mem, dst, src) == Put(CopyLoop(mem, dst, src, Up(strlen(mem, src))), strlen(mem, src), dst, 0)
strncpy(mem, dst, src, n) ==
    LET m == Min({n, strlen(mem, src)})
    IN FoldLeft(LAMBDA x, k : Put(x, k, dst, 0), CopyLoop(mem, dst, src, Up(m)), [k \in 1..n - m |-> m + k - 1])
strcat(mem, dst, src) ==
    LET at == dst + strlen(mem, dst)
    IN Put(CopyLoop(mem, at, src, Up(strlen(mem, src))), strlen(mem, src), at, 0)

\* The comparisons: the difference of the bytes the loop stops at.  strncmp
\* compares those also where it has stopped after n equal bytes.
Stop(mem, s1, s2, ends(_)) == Min({k \in 0..Size - Max({s1, s2}) : ends(k) \/ mem[s1 + k] # mem[s2 + k]})
strcmp(mem, s1, s2) ==
    LET k == Stop(mem, s1, s2, LAMBDA j : mem[s1 + j] = 0) IN mem[s1 + k] - mem[s2 + k]
strncmp(mem, s1, s2, n) ==
    LET k == Stop(mem, s1, s2, LAMBDA j : j = n \/ mem[s1 + j] = 0)
    IN IF n = 0 THEN 0 ELSE mem[s1 + k] - mem[s2 + k]
memcmp(mem, s1, s2, n) ==
    LET k == Stop(mem, s1, s2, LAMBDA j : j = n) IN IF k = n THEN 0 ELSE mem[s1 + k] - mem[s2 + k]

(***************************************************************************)
(* stdio.c.  h2a and i2a collect the digits from the last to the first and *)
(* copy them the other way round.  Characters are numbers: a digit is its  *)
(* value.  A format is a sequence of plain characters and conversions.     *)
(***************************************************************************)
Minus == -1
Blank == -2
Percent == -3
Plain(c) == [conv |-> "", char |-> c]
Conv(c) == [conv |-> c, char |-> Percent]

Digits(num, base) ==
    LET left[k \in 0..32] == IF k = 0 THEN num ELSE left[k - 1] \div base
        tmp == SelectSeq([k \in 1..32 |-> IF left[k - 1] > 0 THEN left[k - 1] % base ELSE -1], LAMBDA d : d >= 0)
    IN Reverse(tmp)
h2a(num) == IF num = 0 THEN <<0>> ELSE Digits(num, 16)

i2a(n) ==
    CASE n = 0 -> <<0>>
      [] n < 0 -> <<Minus>> \o Digits(-(n + 1) + 1, 10)
      [] n > 0 -> Digits(n, 10)

\* The loop vsprintf and sprintf have each: a conversion that is not known
\* writes nothing and takes no argument.  An argument is a number or a string.
Format(fmt, args, known) ==
    LET took(st, chars) == [out |-> st.out \o chars, args |-> Tail(st.args)]
        step(st, f) ==
          CASE f.conv = "" \/ f.conv = "%" -> [st EXCEPT !.out = Append(@, f.char)]
            [] f.conv = "d" -> took(st, i2a(Head(st.args).num))
            [] f.conv \in known /\ f.conv \in {"x", "p"} -> took(st, h2a(Head(st.args).num))
            [] f.conv \in known /\ f.conv = "c" -> took(st, <<Head(st.args).num>>)
            [] f.conv = "s" -> took(st, Head(st.args).str)
            [] OTHER -> st
    IN FoldLeft(step, [out |-> <<>>, args |-> args], fmt).out
vsprintf(fmt, args) == Format(fmt, args, {"d", "s", "%", "x", "p", "c"})
sprintf(fmt, args) == Format(fmt, args, {"d", "s", "%"})

(***************************************************************************)
(* stdlib.c.  malloc never reuses memory; 0 stands for the panic.  atoi    *)
(* stops at the first character that is no digit.                          *)
(***************************************************************************)
malloc(hbrk, size, end) ==
    LET next == hbrk + ((size + 7) \div 8) * 8
    IN IF next > end THEN [ptr |-> 0, hbrk |-> next] ELSE [ptr |-> hbrk, hbrk |-> next]

atoi(chars) ==
    LET blanks == {i \in DOMAIN chars : \A j \in 1..i : chars[j] = Blank}
        from == Cardinality(blanks) + 1
        digits == {i \in from..Len(chars) : \A j \in from..i : chars[j] \in 0..9}
        x[i \in from - 1..from - 1 + Cardinality(digits)] == IF i < from THEN 0 ELSE x[i - 1] * 10 + chars[i]
    IN x[from - 1 + Cardinality(digits)]

(***************************************************************************)
(* The reference: the C standard's account of each function.               *)
(***************************************************************************)
Bytes(mem, a, n) == [k \in 1..n |-> mem[a + k - 1]]
Str(mem, a) == Bytes(mem, a, strlen(mem, a))
Others(mem, after, a, n) == \A k \in Addresses \ (a..a + n - 1) : after[k] = mem[k]
Sgn(x) == IF x < 0 THEN -1 ELSE IF x > 0 THEN 1 ELSE 0
Disjoint(a, n, b, m) == a + n <= b \/ b + m <= a

\* The first difference of two sequences decides, and a proper prefix is less.
Order(u, v) ==
    LET d == {i \in 1..Max({Len(u), Len(v)}) : i > Len(u) \/ i > Len(v) \/ u[i] # v[i]}
    IN IF d = {} THEN 0
       ELSE LET i == Min(d) IN IF i > Len(u) THEN -1 ELSE IF i > Len(v) THEN 1 ELSE Sgn(u[i] - v[i])

MemoryCorrect(mem, a, b, n) ==
    LET moved == memmove(mem, a, b, n)
    IN /\ Bytes(moved, a, n) = Bytes(mem, b, n) /\ Others(mem, moved, a, n)
       /\ Disjoint(a, n, b, n) => memcpy(mem, a, b, n) = moved
       /\ Bytes(memset(mem, a, 7, n), a, n) = [k \in 1..n |-> 7]
       /\ Others(mem, memset(mem, a, 7, n), a, n)
       /\ Sgn(memcmp(mem, a, b, n)) = Order(Bytes(mem, a, n), Bytes(mem, b, n))

\* s and u are strings; room for a longer one is left at s.  strncmp goes one
\* character too far where the first n are equal: it looks at the next one, too.
StringsCorrect(mem, s, u, n) ==
    LET copied == strcpy(mem, s, u)
        padded == strncpy(mem, s, u, n)
        joined == strcat(mem, s, u)
        x == Str(mem, s)
        y == Str(mem, u)
        first(z) == SubSeq(z, 1, Min({n, Len(z)}))
    IN /\ Str(copied, s) = y /\ Others(mem, copied, s, Len(y) + 1)
       /\ Str(joined, s) = x \o y /\ Others(mem, joined, s, Len(x) + Len(y) + 1)
       /\ Bytes(padded, s, n) = first(y) \o [k \in 1..n - Len(first(y)) |-> 0] /\ Others(mem, padded, s, n)
       /\ Sgn(strcmp(mem, s, u)) = Order(x, y)
       /\ Sgn(strncmp(mem, s, u, n)) =
              IF n > 0 /\ first(x) = first(y) /\ Len(x) >= n
              THEN Order(SubSeq(x, 1, Min({n + 1, Len(x)})), SubSeq(y, 1, Min({n + 1, Len(y)})))
              ELSE Order(first(x), first(y))

\* Numbers come back from their digits.  atoi knows no sign: it stops at it,
\* with 0, where C reads the negative number.
NumbersCorrect(n) ==
    LET d == i2a(n)
        shown == IF n < 0 THEN Tail(d) ELSE d
    IN /\ n < 0 <=> d[1] = Minus
       /\ atoi(<<Blank, Blank>> \o d \o <<99>>) = IF n < 0 THEN 0 ELSE n
       /\ Len(shown) > 1 => shown[1] # 0
       /\ \A i \in DOMAIN shown : shown[i] \in 0..9
       /\ FoldLeft(LAMBDA x, c : x * 10 + (IF n < 0 THEN -c ELSE c), 0, shown) = n
       /\ n >= 0 => FoldLeft(LAMBDA x, c : x * 16 + c, 0, h2a(n)) = n

\* What a format with one argument per conversion writes, piece by piece.
\* sprintf does it for %d, %s and %% only.
FormatCorrect(fmt, args) ==
    LET takes == {i \in DOMAIN fmt : fmt[i].conv \notin {"", "%"}}
        arg(i) == args[Cardinality({j \in takes : j <= i})]
        piece(i) == CASE fmt[i].conv \in {"", "%"} -> <<fmt[i].char>>
                      [] fmt[i].conv = "s" -> arg(i).str
                      [] fmt[i].conv = "d" -> i2a(arg(i).num)
                      [] fmt[i].conv \in {"x", "p"} -> h2a(arg(i).num)
                      [] fmt[i].conv = "c" -> <<arg(i).num>>
        expected == FlattenSeq([i \in DOMAIN fmt |-> piece(i)])
    IN /\ vsprintf(fmt, args) = expected
       /\ (\A i \in takes : fmt[i].conv \in {"d", "s"}) => sprintf(fmt, args) = expected

\* The blocks malloc returns are aligned, inside the heap and disjoint.
AllocationsCorrect(start, end, sizes) ==
    LET brk[i \in 0..Len(sizes)] == IF i = 0 THEN start ELSE malloc(brk[i - 1], sizes[i], end).hbrk
        ptr(i) == malloc(brk[i - 1], sizes[i], end).ptr
        got == {i \in DOMAIN sizes : ptr(i) # 0}
    IN /\ \A i \in got : ptr(i) % 8 = 0 /\ ptr(i) >= start /\ ptr(i) + sizes[i] <= end
       /\ \A i, j \in got : i # j => Disjoint(ptr(i), sizes[i], ptr(j), sizes[j])

(***************************************************************************)
(* int64.c: the 64-bit division a 32-bit machine without one links in.     *)
(* W stands for the 32 bits of a word: the algorithm is the same for every *)
(* power of two, and for a small one all operands can be tried.  A double  *)
(* word is a number below 2^(2W); its halves are what the unions dwords    *)
(* and udwords name.                                                       *)
(***************************************************************************)
Word == 2^W
Dword == 2^(2 * W)
high(x) == x \div Word
low(x) == x % Word
Join(h, l) == h * Word + l

\* Shifts and the bitwise operators the code uses on a word.
Shl(x, k) == (x * 2^k) % Word
Shr(x, k) == x \div 2^k
Bit(x, k) == (x \div 2^k) % 2
And(x, y) == SumSet({2^k : k \in {j \in 0..2 * W - 1 : Bit(x, j) = 1 /\ Bit(y, j) = 1}})

(***************************************************************************)
(* __clzsi2 and __ctzsi2: halve the part of the word that holds the first  *)
(* one.  Halves is the sequence of shifts W/2, ..., 2, and the last two    *)
(* bits decide the rest.                                                   *)
(***************************************************************************)
Halves == [i \in 1..(CHOOSE n \in 0..4 : 2^n = W) - 1 |-> W \div 2^i]

clzsi2(a) ==
    LET step[i \in 0..Len(Halves)] ==
          IF i = 0 THEN [x |-> a, r |-> 0]
          ELSE LET s == step[i - 1]
                   t == IF Shr(s.x, Halves[i]) = 0 THEN Halves[i] ELSE 0
               IN [x |-> Shr(s.x, Halves[i] - t), r |-> s.r + t]
        last == step[Len(Halves)]
    IN last.r + IF Bit(last.x, 1) = 0 THEN 2 - last.x ELSE 0

ctzsi2(a) ==
    LET step[i \in 0..Len(Halves)] ==
          IF i = 0 THEN [x |-> a, r |-> 0]
          ELSE LET s == step[i - 1]
                   t == IF s.x % 2^Halves[i] = 0 THEN Halves[i] ELSE 0
               IN [x |-> Shr(s.x, t), r |-> s.r + t]
        last == step[Len(Halves)]
    IN last.r + IF Bit(last.x, 0) = 0 THEN 2 - Bit(last.x, 1) ELSE 0

clzdi2(a) == IF high(a) = 0 THEN clzsi2(low(a)) + W ELSE clzsi2(high(a))
ctzdi2(a) == IF low(a) = 0 THEN ctzsi2(high(a)) + W ELSE ctzsi2(low(a))

(***************************************************************************)
(* __udivmoddi4.  Where the quotient is not at hand, q and r start as n    *)
(* shifted by 2W - sr to the left and by sr to the right, put together     *)
(* from words, and the loop brings in the sr bits that are left.           *)
(***************************************************************************)
Answer(q, r) == [q |-> q, r |-> r]

IsPowerOf2(x) == And(x, x - 1) = 0

\* sr within a word: the shifts of the two branches that have sr < W.
WithinWord(n, sr) ==
    [qh |-> Shl(low(n), W - sr), ql |-> 0,
     rh |-> Shr(high(n), sr), rl |-> (Shl(high(n), W - sr) + Shr(low(n), sr)) % Word]

Start(n, sr) ==
    CASE sr = W -> [qh |-> low(n), ql |-> 0, rh |-> 0, rl |-> high(n)]
      [] sr < W -> WithinWord(n, sr)
      [] sr > W -> [qh |-> (Shl(high(n), 2 * W - sr) + Shr(low(n), sr - W)) % Word, ql |-> Shl(low(n), 2 * W - sr),
                    rh |-> 0, rl |-> Shr(high(n), sr - W)]

\* Whether r >= d: the sign of d - r - 1 as a signed double word.
Borrow(d, r) == Bit((d - r - 1) % Dword, 2 * W - 1)

DivideLoop(n, d, sr) ==
    LET step[i \in 0..sr] ==
          IF i = 0 THEN LET s == Start(n, sr) IN [q |-> Join(s.qh, s.ql), r |-> Join(s.rh, s.rl), carry |-> 0]
          ELSE LET p == step[i - 1]
                   r == (2 * p.r + Bit(p.q, 2 * W - 1)) % Dword
                   q == (2 * p.q + p.carry) % Dword
                   s == Borrow(d, r)
               IN [q |-> q, r |-> IF s = 1 THEN (r - d) % Dword ELSE r, carry |-> s]
        last == step[sr]
    IN Answer((2 * last.q + last.carry) % Dword, last.r)

\* The divisor has a high word: the quotient fits in a word.  "sr large" is
\* a negative difference, an unsigned value above every bound.
HighDivisor(n, d) ==
    LET sr == clzsi2(high(d)) - clzsi2(high(n))
        limit == IF low(d) = 0 THEN W - 2 ELSE W - 1
    IN IF sr < 0 \/ sr > limit THEN Answer(0, n) ELSE DivideLoop(n, d, sr + 1)

\* The divisor is a multiple of 2^W.
RoundDivisor(n, d) ==
    CASE low(n) = 0 -> Answer(high(n) \div high(d), Join(high(n) % high(d), 0))
      [] low(n) # 0 /\ IsPowerOf2(high(d)) ->
             Answer(Shr(high(n), ctzsi2(high(d))), Join(And(high(n), high(d) - 1), low(n)))
      [] OTHER -> HighDivisor(n, d)

\* The divisor fits in a word.
LowDivisor(n, d) ==
    IF IsPowerOf2(low(d))
    THEN IF low(d) = 1 THEN Answer(n, 0)
         ELSE LET sr == ctzsi2(low(d))
              IN Answer(Join(Shr(high(n), sr), (Shl(high(n), W - sr) + Shr(low(n), sr)) % Word), And(low(n), low(d) - 1))
    ELSE DivideLoop(n, d, 1 + W + clzsi2(low(d)) - clzsi2(high(n)))

udivmoddi4(n, d) ==
    CASE high(n) = 0 /\ high(d) = 0 -> Answer(low(n) \div low(d), low(n) % low(d))
      [] high(n) = 0 /\ high(d) # 0 -> Answer(0, low(n))
      [] high(n) # 0 /\ low(d) = 0 -> RoundDivisor(n, d)
      [] high(n) # 0 /\ low(d) # 0 /\ high(d) = 0 -> LowDivisor(n, d)
      [] high(n) # 0 /\ low(d) # 0 /\ high(d) # 0 -> HighDivisor(n, d)

(***************************************************************************)
(* The signed functions: divide the absolute values and give the results   *)
(* their signs, all modulo 2^(2W).                                         *)
(***************************************************************************)
Sign(x) == Bit(x, 2 * W - 1)
NegateIf(s, x) == IF s = 1 THEN (-x) % Dword ELSE x

divdi3(a, b) ==
    NegateIf((Sign(a) + Sign(b)) % 2, udivmoddi4(NegateIf(Sign(a), a), NegateIf(Sign(b), b)).q)
moddi3(a, b) == NegateIf(Sign(a), udivmoddi4(NegateIf(Sign(a), a), NegateIf(Sign(b), b)).r)
divmoddi4(a, b) == Answer(divdi3(a, b), (a - divdi3(a, b) * b) % Dword)

(***************************************************************************)
(* What the functions are for.                                             *)
(***************************************************************************)
Signed(x) == IF Sign(x) = 1 THEN x - Dword ELSE x
Abs(x) == IF x < 0 THEN -x ELSE x

\* C's division truncates; the remainder has the sign of the dividend.
CQuotient(x, y) == LET q == Abs(x) \div Abs(y) IN IF (x < 0) # (y < 0) THEN -q ELSE q

DivisionCorrect(a, b) ==
    LET x == Signed(a) y == Signed(b)
    IN /\ udivmoddi4(a, b) = Answer(a \div b, a % b)
       /\ divdi3(a, b) = CQuotient(x, y) % Dword
       /\ moddi3(a, b) = (x - CQuotient(x, y) * y) % Dword
       /\ divmoddi4(a, b) = Answer(divdi3(a, b), moddi3(a, b))

CountsCorrect(a) ==
    LET ones == {k \in 0..2 * W - 1 : Bit(a, k) = 1}
    IN a # 0 => /\ clzdi2(a) = 2 * W - 1 - Max(ones)
                /\ ctzdi2(a) = Min(ones)
=============================================================================

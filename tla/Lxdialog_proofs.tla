-------------------------- MODULE Lxdialog_proofs ---------------------------
(***************************************************************************)
(* Whatever keys are pressed and however its windows are scrolled piece by *)
(* piece, each dialog of menuconfig shows what it acts on: for every       *)
(* number of items, height of a window, length of an input, and text.      *)
(***************************************************************************)
EXTENDS Lxdialog, FiniteSetTheorems, WellFoundedInduction, TLAPS

(***************************************************************************)
(* Least and greatest elements, and steps that are repeated.               *)
(***************************************************************************)
\* What is least in a set is its minimum.
LEMMA MinIs ==
    ASSUME NEW S, S \subseteq Int, NEW m \in S, \A x \in S : m <= x
    PROVE  Min(S) = m
  <1> DEFINE P(x) == \A y \in S : x <= y
  <1>1. Min(S) = CHOOSE x \in S : P(x)
    BY DEF Min
  <1>2. Min(S) \in S /\ P(Min(S))
    <2> HIDE DEF P
    <2>1. P(m)
      BY DEF P
    <2> QED
      BY <1>1, <2>1
  <1>3. Min(S) \in Int /\ m \in Int /\ Min(S) <= m /\ m <= Min(S)
    BY <1>2
  <1> QED
    BY <1>3

\* What is greatest in a set is its maximum.
LEMMA MaxIs ==
    ASSUME NEW S, S \subseteq Int, NEW m \in S, \A x \in S : x <= m
    PROVE  Max(S) = m
  <1> DEFINE P(x) == \A y \in S : x >= y
  <1>1. Max(S) = CHOOSE x \in S : P(x)
    BY DEF Max
  <1>2. Max(S) \in S /\ P(Max(S))
    <2> HIDE DEF P
    <2>1. P(m)
      BY DEF P
    <2> QED
      BY <1>1, <2>1
  <1>3. Max(S) \in Int /\ m \in Int /\ Max(S) >= m /\ Max(S) <= m
    BY <1>2
  <1> QED
    BY <1>3

\* Of two numbers.
LEMMA MinMaxTwo ==
    ASSUME NEW a \in Int, NEW b \in Int
    PROVE  Min({a, b}) = (IF a <= b THEN a ELSE b) /\ Max({a, b}) = (IF a <= b THEN b ELSE a)
  <1>1. CASE a <= b
    BY <1>1, MinIs, MaxIs
  <1>2. CASE ~(a <= b)
    <2>1. b <= a /\ Min({a, b}) = b /\ Max({a, b}) = a
      BY <1>2, MinIs, MaxIs
    <2> QED
      BY <1>2, <2>1
  <1> QED
    BY <1>1, <1>2

\* A set of naturals that is not empty has a least element.
LEMMA LeastNat ==
    ASSUME NEW T, T \subseteq Nat, T # {}
    PROVE  \E m \in T : \A k \in T : m <= k
  <1> DEFINE R == OpToRel(<, Nat)
  <1>1. IsWellFoundedOn(R, Nat)
    BY NatLessThanWellFounded
  <1>2. PICK m \in T : \A k \in T : ~(<<k, m>> \in R)
    BY <1>1, WFMin
  <1>3. \A k \in T : <<k, m>> \in Nat \X Nat
    OBVIOUS
  <1>4. \A k \in T : ~(k < m)
    BY <1>2, <1>3 DEF OpToRel
  <1>5. \A k \in T : m <= k
    BY <1>4
  <1> QED
    BY <1>5

\* A set of naturals that is not empty has its minimum.
LEMMA MinNat ==
    ASSUME NEW T, T \subseteq Nat, T # {}
    PROVE  Min(T) \in T /\ \A k \in T : Min(T) <= k
  <1>1. PICK m \in T : \A k \in T : m <= k
    BY LeastNat
  <1>2. T \subseteq Int
    OBVIOUS
  <1>3. Min(T) = m
    BY <1>1, <1>2, MinIs
  <1> QED
    BY <1>1, <1>3

\* A set of numbers below a bound has its maximum.
LEMMA MaxNat ==
    ASSUME NEW n \in Nat, NEW T, T \subseteq 0 .. n, T # {}
    PROVE  Max(T) \in T /\ \A k \in T : k <= Max(T)
  <1> DEFINE U == {n - k : k \in T}
  <1>1. U \subseteq Nat /\ U # {}
    <2>1. \A k \in T : n - k \in Nat
      OBVIOUS
    <2>2. PICK k \in T : TRUE
      OBVIOUS
    <2> QED
      BY <2>1, <2>2
  <1>2. PICK u \in U : \A k \in U : u <= k
    <2> HIDE DEF U
    <2> QED
      BY <1>1, LeastNat
  <1>3. PICK m \in T : u = n - m
    BY <1>2
  <1>4. \A k \in T : k <= m
    <2> TAKE k \in T
    <2>1. n - k \in U /\ k \in Int /\ m \in Int
      OBVIOUS
    <2>2. u <= n - k
      BY <1>2, <2>1
    <2> QED
      BY <1>3, <2>1, <2>2
  <1>5. T \subseteq Int /\ m \in T
    OBVIOUS
  <1>6. Max(T) = m
    BY <1>4, <1>5, MaxIs
  <1> QED
    BY <1>4, <1>6

\* What holds of 0, and of the next number when it holds of one, holds of all
\* numbers up to n.
LEMMA UpTo ==
    ASSUME NEW n \in Nat, NEW T, 0 \in T, \A i \in 0 .. n : i \in T /\ i < n => i + 1 \in T
    PROVE  \A i \in 0 .. n : i \in T
  <1> DEFINE U == {i \in 0 .. n : i \notin T}
  <1> SUFFICES ASSUME U # {} PROVE FALSE
    OBVIOUS
  <1>1. U \subseteq Nat
    OBVIOUS
  <1>2. PICK i \in U : \A k \in U : i <= k
    <2> HIDE DEF U
    <2> QED
      BY <1>1, LeastNat
  <1>3. i \in 0 .. n /\ i \notin T /\ i # 0
    OBVIOUS
  <1>4. i - 1 \in 0 .. n /\ i - 1 < n /\ ~(i <= i - 1) /\ (i - 1) + 1 = i
    BY <1>3
  <1>5. i - 1 \notin U
    BY <1>2, <1>4
  <1>6. i - 1 \in T
    BY <1>4, <1>5
  <1> QED
    BY <1>3, <1>4, <1>6

\* The results of applying F again and again, which a loop computes.
Results(g, F, d, n) == g = [i \in 0 .. n |-> IF i = 0 THEN d ELSE F[g[i - 1]]]

\* They exist: each is computed from the one before.
LEMMA ResultsExist ==
    ASSUME NEW S, NEW F \in [S -> S], NEW d \in S, NEW n \in Nat
    PROVE  \E g \in [0 .. n -> S] : Results(g, F, d, n)
  <1> DEFINE T == {m \in 0 .. n : \E g \in [0 .. m -> S] : Results(g, F, d, m)}
  <1>1. 0 \in T
    <2> DEFINE g == [i \in 0 .. 0 |-> d]
    <2>1. g \in [0 .. 0 -> S] /\ Results(g, F, d, 0)
      BY DEF Results
    <2> QED
      BY <2>1
  <1>2. ASSUME NEW m \in 0 .. n, m \in T, m < n PROVE m + 1 \in T
    <2>1. PICK f \in [0 .. m -> S] : Results(f, F, d, m)
      BY <1>2
    <2> DEFINE g == [i \in 0 .. m + 1 |-> IF i = m + 1 THEN F[f[m]] ELSE f[i]]
    <2>2. \A i \in 0 .. m : f[i] = IF i = 0 THEN d ELSE F[f[i - 1]]
      BY <2>1 DEF Results
    <2>3. ASSUME NEW i \in 0 .. m + 1 PROVE g[i] \in S /\ g[i] = IF i = 0 THEN d ELSE F[g[i - 1]]
      <3>1. CASE i = m + 1
        <4>1. m \in 0 .. m + 1 /\ m # m + 1 /\ i - 1 = m /\ i # 0 /\ m \in 0 .. m
          BY <3>1
        <4>2. g[m] = f[m] /\ g[i] = F[f[m]]
          BY <3>1, <4>1
        <4> QED
          BY <4>1, <4>2
      <3>2. CASE i # m + 1
        <4>1. i \in 0 .. m /\ (i # 0 => i - 1 \in 0 .. m + 1 /\ i - 1 # m + 1)
          BY <3>2
        <4>2. g[i] = f[i] /\ (i # 0 => g[i - 1] = f[i - 1])
          BY <3>2, <4>1
        <4> QED
          BY <2>2, <4>1, <4>2
      <3> QED
        BY <3>1, <3>2
    <2>4. g = [i \in 0 .. m + 1 |-> g[i]]
      OBVIOUS
    <2> HIDE DEF g
    <2>5. g \in [0 .. m + 1 -> S] /\ Results(g, F, d, m + 1)
      BY <2>3, <2>4 DEF Results
    <2>6. m + 1 \in 0 .. n
      BY <1>2
    <2> QED
      BY <2>5, <2>6
  <1>3. n \in T
    <2> HIDE DEF T
    <2>1. \A i \in 0 .. n : i \in T
      BY <1>1, <1>2, UpTo
    <2> QED
      BY <2>1
  <1> QED
    BY <1>3

\* They are results in S.
LEMMA ResultsIn ==
    ASSUME NEW S, NEW F \in [S -> S], NEW d \in S, NEW n \in Nat, NEW g, Results(g, F, d, n)
    PROVE  \A i \in 0 .. n : g[i] \in S
  <1> DEFINE T == {m \in 0 .. n : g[m] \in S}
  <1>1. 0 \in T
    BY DEF Results
  <1>2. ASSUME NEW m \in 0 .. n, m \in T, m < n PROVE m + 1 \in T
    BY <1>2 DEF Results
  <1>3. \A i \in 0 .. n : i \in T
    <2> HIDE DEF T
    <2> QED
      BY <1>1, <1>2, UpTo
  <1> QED
    BY <1>3

(***************************************************************************)
(* The window of a list: the items from s on, m of them, with row c        *)
(* highlighted, in h rows.                                                 *)
(***************************************************************************)
\* A row that is drawn over.
Put(rows, r, x) == [rows EXCEPT ![r] = x]

\* Row by row.
LEMMA WindowAt ==
    ASSUME NEW h \in Int, NEW m, NEW s, NEW c
    PROVE  /\ DOMAIN Window(h, m, s, c) = 0 .. h - 1
           /\ \A r \in 0 .. h - 1 : Window(h, m, s, c)[r] = IF r < m THEN <<s + r, IF r = c THEN 1 ELSE 0>> ELSE Blank
BY DEF Window

\* What has these rows is this window.
LEMMA WindowIs ==
    ASSUME NEW h \in Int, NEW m, NEW s, NEW c, NEW rows,
           rows = [r \in 0 .. h - 1 |-> rows[r]],
           \A r \in 0 .. h - 1 : rows[r] = IF r < m THEN <<s + r, IF r = c THEN 1 ELSE 0>> ELSE Blank
    PROVE  rows = Window(h, m, s, c)
BY Zenon DEF Window

\* A row that is drawn without the highlight, and with it.
LEMMA WindowRow ==
    ASSUME NEW h \in Nat, NEW m \in 0 .. h, NEW s \in Int, NEW c \in 0 .. m - 1, NEW e \in {c, -1}, NEW b \in {0, 1}
    PROVE  Put(Window(h, m, s, e), c, <<s + c, b>>) = Window(h, m, s, IF b = 1 THEN c ELSE -1)
  <1> DEFINE p == Put(Window(h, m, s, e), c, <<s + c, b>>)
             lit == IF b = 1 THEN c ELSE -1
  <1>1. c \in 0 .. h - 1 /\ c < m /\ c # -1 /\ h \in Int
    OBVIOUS
  <1>2. p = [r \in 0 .. h - 1 |-> p[r]] /\ \A r \in 0 .. h - 1 : p[r] = IF r = c THEN <<s + c, b>> ELSE Window(h, m, s, e)[r]
    <2> DEFINE w == Window(h, m, s, e)
    <2>1. DOMAIN w = 0 .. h - 1
      BY <1>1, WindowAt
    <2> HIDE DEF w
    <2>2. Put(w, c, <<s + c, b>>) = [r \in 0 .. h - 1 |-> IF r = c THEN <<s + c, b>> ELSE w[r]]
      BY <1>1, <2>1 DEF Put
    <2> QED
      BY <2>2 DEF w
  <1>3. ASSUME NEW r \in 0 .. h - 1
        PROVE  p[r] = IF r < m THEN <<s + r, IF r = lit THEN 1 ELSE 0>> ELSE Blank
    <2>1. CASE r = c
      <3>1. (IF r = lit THEN 1 ELSE 0) = b
        BY <2>1, <1>1
      <3> HIDE DEF lit, p
      <3> QED
        BY <1>1, <1>2, <2>1, <3>1
    <2>2. CASE r # c
      <3>1. r # lit /\ r # e
        BY <2>2
      <3>2. Window(h, m, s, e)[r] = IF r < m THEN <<s + r, IF r = e THEN 1 ELSE 0>> ELSE Blank
        BY <1>1, WindowAt
      <3> HIDE DEF lit, p
      <3> QED
        BY <1>2, <2>2, <3>1, <3>2
    <2> QED
      BY <2>1, <2>2
  <1> HIDE DEF p, lit
  <1>4. p = Window(h, m, s, lit)
    <2>1. p = [r \in 0 .. h - 1 |-> p[r]]
      BY <1>2
    <2>2. h \in Int /\ \A r \in 0 .. h - 1 : p[r] = IF r < m THEN <<s + r, IF r = lit THEN 1 ELSE 0>> ELSE Blank
      BY <1>1, <1>3
    <2> QED BY <2>1, <2>2, Zenon DEF Window
  <1> QED
    BY <1>4 DEF p, lit

\* A window that is scrolled by one row, down or up, with the row that
\* appears drawn.
LEMMA WindowScrolled ==
    ASSUME NEW h \in Nat \ {0}, NEW s \in Int, NEW b \in {0, 1}, NEW k \in {1, -1}
    PROVE  LET row == IF k = 1 THEN h - 1 ELSE 0 IN
           Put(wscrl(Window(h, h, s, -1), k), row, <<(s + k) + row, b>>) = Window(h, h, s + k, IF b = 1 THEN row ELSE -1)
  <1> DEFINE row == IF k = 1 THEN h - 1 ELSE 0
             w == Window(h, h, s, -1)
             p == Put(wscrl(w, k), row, <<(s + k) + row, b>>)
             lit == IF b = 1 THEN row ELSE -1
  <1>0. h \in Int /\ row \in 0 .. h - 1 /\ \A r \in 0 .. h - 1 : r < h /\ r # -1
    OBVIOUS
  <1>1. DOMAIN w = 0 .. h - 1 /\ \A r \in 0 .. h - 1 : w[r] = <<s + r, 0>>
    <2>1. DOMAIN Window(h, h, s, -1) = 0 .. h - 1
      BY <1>0, WindowAt
    <2>2. \A r \in 0 .. h - 1 : Window(h, h, s, -1)[r] = IF r < h THEN <<s + r, IF r = -1 THEN 1 ELSE 0>> ELSE Blank
      BY <1>0, WindowAt
    <2> HIDE DEF row
    <2> QED
      BY <1>0, <2>1, <2>2
  <1>2. \A r \in 0 .. h - 1 : r # row => r + k \in 0 .. h - 1
    OBVIOUS
  <1> HIDE DEF w, row
  <1>3. DOMAIN wscrl(w, k) = 0 .. h - 1 /\ \A r \in 0 .. h - 1 : r # row => wscrl(w, k)[r] = w[r + k]
    BY <1>1, <1>2 DEF wscrl
  <1>4. p = [r \in 0 .. h - 1 |-> p[r]] /\ \A r \in 0 .. h - 1 : p[r] = IF r = row THEN <<(s + k) + row, b>> ELSE wscrl(w, k)[r]
    BY <1>0, <1>3 DEF Put
  <1>5. ASSUME NEW r \in 0 .. h - 1
        PROVE  p[r] = IF r < h THEN <<(s + k) + r, IF r = lit THEN 1 ELSE 0>> ELSE Blank
    <2>1. CASE r = row
      <3>1. (IF r = lit THEN 1 ELSE 0) = b
        BY <2>1, <1>0
      <3> HIDE DEF p, lit
      <3> QED
        BY <1>0, <1>4, <2>1, <3>1
    <2>2. CASE r # row
      <3>1. r # lit /\ r + k \in 0 .. h - 1 /\ s + (r + k) = (s + k) + r
        BY <2>2, <1>0, <1>2
      <3>2. wscrl(w, k)[r] = <<(s + k) + r, 0>>
        BY <1>1, <1>3, <2>2, <3>1
      <3> HIDE DEF p, lit
      <3> QED
        BY <1>0, <1>4, <2>2, <3>1, <3>2
    <2> QED
      BY <2>1, <2>2
  <1> HIDE DEF p, lit
  <1>6. p = Window(h, h, s + k, lit)
    BY <1>0, <1>4, <1>5, WindowIs
  <1> QED
    BY <1>6 DEF p, lit, w, row

(***************************************************************************)
(* Menus and lists: n items, a window, and where it and the choice are.    *)
(***************************************************************************)
IsList(d) == {"rows", "scroll", "choice", "n", "height"} \subseteq DOMAIN d /\ d.n \in Nat \ {0} /\ d.height \in Nat \ {0}
View(d, rows, s, c) == [d EXCEPT !.rows = rows, !.scroll = s, !.choice = c]
Places(d) == (0 .. d.n - MaxChoice(d)) \X (0 .. MaxChoice(d) - 1)
Placed(d, s, c, lit) == View(d, Window(d.height, MaxChoice(d), s, lit), s, c)

\* The rows that hold items.
LEMMA MaxChoiceIs ==
    ASSUME NEW d, IsList(d)
    PROVE  /\ MaxChoice(d) \in 1 .. d.n /\ MaxChoice(d) \in 1 .. d.height
           /\ MaxChoice(d) < d.n => MaxChoice(d) = d.height
  BY MinMaxTwo DEF MaxChoice, IsList

\* What a view changes, and what it does not.
LEMMA ViewFields ==
    ASSUME NEW d, IsList(d), NEW rows, NEW s, NEW c
    PROVE  /\ View(d, rows, s, c).rows = rows /\ View(d, rows, s, c).scroll = s /\ View(d, rows, s, c).choice = c
           /\ View(d, rows, s, c).n = d.n /\ View(d, rows, s, c).height = d.height
           /\ DOMAIN View(d, rows, s, c) = DOMAIN d
           /\ MaxChoice(View(d, rows, s, c)) = MaxChoice(d) /\ IsList(View(d, rows, s, c))
           /\ \A f \in DOMAIN d : f \notin {"rows", "scroll", "choice"} => View(d, rows, s, c)[f] = d[f]
  <1> DEFINE v == View(d, rows, s, c)
  <1>1. v.rows = rows /\ v.scroll = s /\ v.choice = c /\ v.n = d.n /\ v.height = d.height /\ DOMAIN v = DOMAIN d
    BY DEF View, IsList
  <1>2. \A f \in DOMAIN d : f \notin {"rows", "scroll", "choice"} => v[f] = d[f]
    BY DEF View
  <1>3. MaxChoice(v) = MaxChoice(d) /\ IsList(v)
    BY <1>1 DEF MaxChoice, IsList
  <1> QED
    BY <1>1, <1>2, <1>3

\* An item that is drawn, in a view.
LEMMA ViewPrint ==
    ASSUME NEW d, IsList(d), NEW rows, NEW s, NEW c, NEW i, NEW row, NEW b
    PROVE  print_item(View(d, rows, s, c), i, row, b) = View(d, Put(rows, row, <<i, b>>), s, c)
  <1>1. View(d, rows, s, c).rows = rows
    BY ViewFields
  <1>2. \A x : [View(d, rows, s, c) EXCEPT !.rows = x] = View(d, x, s, c)
    BY DEF View, IsList
  <1>3. print_item(View(d, rows, s, c), i, row, b) = [View(d, rows, s, c) EXCEPT !.rows = Put(rows, row, <<i, b>>)]
    BY <1>1 DEF print_item, Put
  <1> QED
    BY <1>2, <1>3, Zenon

\* A view that is scrolled.
LEMMA ViewScroll ==
    ASSUME NEW d, IsList(d), NEW rows, NEW s, NEW c, NEW k
    PROVE  do_scroll(View(d, rows, s, c), k) = View(d, wscrl(rows, k), s + k, c)
  BY ViewFields DEF do_scroll, View, IsList

\* Another choice, and another view, of a view.
Choose(d, c) == [d EXCEPT !.choice = c]
LEMMA ViewTwice ==
    ASSUME NEW d, IsList(d), NEW rows, NEW s, NEW c, NEW r, NEW x, NEW y
    PROVE  /\ Choose(View(d, rows, s, c), y) = View(d, rows, s, y)
           /\ View(View(d, rows, s, c), r, x, y) = View(d, r, x, y)
  BY DEF View, IsList, Choose

\* A row drawn with or without the highlight.
LEMMA PlacedDrawn ==
    ASSUME NEW d, IsList(d), NEW s \in 0 .. d.n - MaxChoice(d), NEW c, NEW row \in 0 .. MaxChoice(d) - 1,
           NEW e \in {row, -1}, NEW b \in {0, 1}
    PROVE  print_item(Placed(d, s, c, e), s + row, row, b) = Placed(d, s, c, IF b = 1 THEN row ELSE -1)
  <1> DEFINE h == d.height  m == MaxChoice(d)  w == Window(h, m, s, e)
  <1>1. h \in Nat /\ m \in 0 .. h /\ s \in Int /\ row \in 0 .. m - 1
    BY MaxChoiceIs DEF IsList
  <1>2. print_item(View(d, w, s, c), s + row, row, b) = View(d, Put(w, row, <<s + row, b>>), s, c)
    BY ViewPrint
  <1>3. Put(w, row, <<s + row, b>>) = Window(h, m, s, IF b = 1 THEN row ELSE -1)
    <2> HIDE DEF h, m
    <2> QED
      BY <1>1, WindowRow DEF w
  <1> QED
    BY <1>2, <1>3 DEF Placed

\* Scrolled by one row up or down, when there are items that way, with the
\* row that appears drawn.
LEMMA PlacedScrolled ==
    ASSUME NEW d, IsList(d), NEW s \in 0 .. d.n - MaxChoice(d), NEW c, NEW k \in {1, -1}, NEW b \in {0, 1},
           s + k \in 0 .. d.n - MaxChoice(d)
    PROVE  LET row == IF k = 1 THEN MaxChoice(d) - 1 ELSE 0
               u == do_scroll(Placed(d, s, c, -1), k)
           IN /\ u.scroll = s + k /\ MaxChoice(u) = MaxChoice(d) /\ u.choice = c
              /\ print_item(u, (s + k) + row, row, b) = Placed(d, s + k, c, IF b = 1 THEN row ELSE -1)
  <1> DEFINE h == d.height  m == MaxChoice(d)  w == Window(h, h, s, -1)
             row == IF k = 1 THEN h - 1 ELSE 0
             u == do_scroll(Placed(d, s, c, -1), k)
             v == wscrl(w, k)
  <1>1. h \in Nat \ {0} /\ m = h /\ s \in Int
    BY MaxChoiceIs DEF IsList
  <1>2. Placed(d, s, c, -1) = View(d, w, s, c) /\ Placed(d, s + k, c, IF b = 1 THEN row ELSE -1)
                                                     = View(d, Window(h, h, s + k, IF b = 1 THEN row ELSE -1), s + k, c)
    BY <1>1 DEF Placed
  <1>3. u = View(d, v, s + k, c)
    BY <1>2, ViewScroll
  <1>4. u.scroll = s + k /\ MaxChoice(u) = MaxChoice(d) /\ u.choice = c
    BY <1>3, ViewFields
  <1>5. print_item(View(d, v, s + k, c), (s + k) + row, row, b) = View(d, Put(v, row, <<(s + k) + row, b>>), s + k, c)
    BY ViewPrint
  <1>6. Put(v, row, <<(s + k) + row, b>>) = Window(h, h, s + k, IF b = 1 THEN row ELSE -1)
    <2> HIDE DEF h
    <2> QED
      BY <1>1, WindowScrolled
  <1>7. print_item(u, (s + k) + row, row, b) = Placed(d, s + k, c, IF b = 1 THEN row ELSE -1)
    BY <1>2, <1>3, <1>5, <1>6
  <1> QED
    BY <1>1, <1>4, <1>7

(***************************************************************************)
(* The keys that move in a menu.                                           *)
(***************************************************************************)
Unlit(d) == {Placed(d, p[1], p[2], -1) : p \in Places(d)}

\* The menu with nothing highlighted, scrolled to s and at row c.
LEMMA UnlitHas ==
    ASSUME NEW d, IsList(d), NEW s \in 0 .. d.n - MaxChoice(d), NEW c \in 0 .. MaxChoice(d) - 1
    PROVE  Placed(d, s, c, -1) \in Unlit(d)
  <1>1. <<s, c>> \in Places(d)
    BY DEF Places
  <1>2. Placed(d, <<s, c>>[1], <<s, c>>[2], -1) \in Unlit(d)
    BY <1>1 DEF Unlit
  <1> QED
    BY <1>2

\* Every menu with nothing highlighted is such.
LEMMA UnlitIs ==
    ASSUME NEW d, IsList(d), NEW e \in Unlit(d)
    PROVE  /\ e.scroll \in 0 .. d.n - MaxChoice(d) /\ e.choice \in 0 .. MaxChoice(d) - 1
           /\ e = Placed(d, e.scroll, e.choice, -1)
           /\ e.n = d.n /\ MaxChoice(e) = MaxChoice(d)
           /\ \A x \in 0 .. MaxChoice(d) - 1 : Choose(e, x) = Placed(d, e.scroll, x, -1) /\ Choose(e, x) \in Unlit(d)
  <1>1. PICK p \in Places(d) : e = Placed(d, p[1], p[2], -1)
    BY DEF Unlit
  <1>2. p[1] \in 0 .. d.n - MaxChoice(d) /\ p[2] \in 0 .. MaxChoice(d) - 1
    BY DEF Places
  <1>3. e.scroll = p[1] /\ e.choice = p[2] /\ e.n = d.n /\ MaxChoice(e) = MaxChoice(d)
    BY <1>1, ViewFields DEF Placed
  <1>4. \A x \in 0 .. MaxChoice(d) - 1 : Choose(e, x) = Placed(d, e.scroll, x, -1) /\ Choose(e, x) \in Unlit(d)
    BY <1>1, <1>2, <1>3, ViewTwice, UnlitHas DEF Placed
  <1> QED
    BY <1>1, <1>2, <1>3, <1>4

\* The line that appears at the top, and at the bottom.
LineUp(e) == LET s == do_scroll(e, -1) IN print_item(s, s.scroll, 0, 0)
LineDown(e) == LET s == do_scroll(e, 1) IN print_item(s, s.scroll + MaxChoice(s) - 1, MaxChoice(s) - 1, 0)

\* They keep the menu what it is.
LEMMA LinesUnlit ==
    ASSUME NEW d, IsList(d), NEW e \in Unlit(d)
    PROVE  /\ e.scroll > 0 => LineUp(e) \in Unlit(d)
           /\ e.scroll + MaxChoice(e) < e.n => LineDown(e) \in Unlit(d)
           /\ LineDown(e) = LET s == do_scroll(e, 1) IN print_item(s, s.scroll + MaxChoice(d) - 1, MaxChoice(d) - 1, 0)
  <1> DEFINE m == MaxChoice(d)  s == e.scroll  c == e.choice
  <1>1. /\ s \in 0 .. d.n - m /\ c \in 0 .. m - 1 /\ e = Placed(d, s, c, -1) /\ e.n = d.n /\ MaxChoice(e) = m
    BY UnlitIs
  <1>2. m \in Nat /\ d.n \in Nat
    BY MaxChoiceIs DEF IsList
  <1> HIDE DEF m, s, c
  <1>3. ASSUME s > 0 PROVE LineUp(e) \in Unlit(d)
    <2>1. -1 \in {1, -1} /\ 0 \in {0, 1} /\ s + -1 \in 0 .. d.n - m /\ (s + -1) + 0 = s + -1
      BY <1>1, <1>2, <1>3
    <2> DEFINE u == do_scroll(Placed(d, s, c, -1), -1)  row == IF -1 = 1 THEN m - 1 ELSE 0  lit == IF 0 = 1 THEN row ELSE -1
    <2>2. u.scroll = s + -1 /\ print_item(u, (s + -1) + row, row, 0) = Placed(d, s + -1, c, lit)
      BY <1>1, <2>1, PlacedScrolled DEF m
    <2>3. row = 0 /\ lit = -1
      OBVIOUS
    <2> HIDE DEF u, row, lit
    <2>4. LineUp(e) = print_item(u, u.scroll, 0, 0)
      BY <1>1 DEF LineUp, u
    <2>5. LineUp(e) = Placed(d, s + -1, c, -1)
      BY <2>1, <2>2, <2>3, <2>4
    <2> QED
      BY <1>1, <2>1, <2>5, UnlitHas DEF m
  <1> DEFINE u == do_scroll(Placed(d, s, c, -1), 1)
  <1>4. LineDown(e) = print_item(u, u.scroll + MaxChoice(u) - 1, MaxChoice(u) - 1, 0)
    BY <1>1 DEF LineDown
  <1>5. MaxChoice(u) = m
    BY ViewScroll, ViewFields DEF Placed, m
  <1>6. ASSUME s + m < d.n PROVE LineDown(e) \in Unlit(d)
    <2>1. 1 \in {1, -1} /\ 0 \in {0, 1} /\ s + 1 \in 0 .. d.n - m /\ (s + 1) + (m - 1) = s + 1 + m - 1
      BY <1>1, <1>2, <1>6
    <2> DEFINE row == IF 1 = 1 THEN m - 1 ELSE 0  lit == IF 0 = 1 THEN row ELSE -1
    <2>2. u.scroll = s + 1 /\ print_item(u, (s + 1) + row, row, 0) = Placed(d, s + 1, c, lit)
      BY <1>1, <2>1, PlacedScrolled DEF m
    <2>3. row = m - 1 /\ lit = -1
      OBVIOUS
    <2> HIDE DEF u, row, lit
    <2>5. LineDown(e) = Placed(d, s + 1, c, -1)
      BY <2>1, <2>2, <2>3, <1>4, <1>5
    <2> QED
      BY <1>1, <2>1, <2>5, UnlitHas DEF m
  <1> HIDE DEF u
  <1>7. LineDown(e) = print_item(u, u.scroll + m - 1, m - 1, 0)
    BY <1>4, <1>5
  <1> QED
    BY <1>1, <1>3, <1>6, <1>7 DEF m, s, c, u

\* So do the keys that move by one row ...
LEMMA KeyUnlit ==
    ASSUME NEW d, IsList(d), NEW e \in Unlit(d)
    PROVE  KeyUp(e) \in Unlit(d) /\ KeyDown(e) \in Unlit(d)
  <1> DEFINE m == MaxChoice(d)  c == e.choice
  <1>1. /\ e.scroll \in 0 .. d.n - m /\ c \in 0 .. m - 1 /\ e.n = d.n /\ MaxChoice(e) = m
        /\ \A x \in 0 .. m - 1 : Choose(e, x) \in Unlit(d)
    BY UnlitIs
  <1>2. m \in Nat /\ d.n \in Nat
    BY MaxChoiceIs DEF IsList
  <1> HIDE DEF m, c
  <1>3. Max({c - 1, 0}) \in 0 .. m - 1 /\ Min({c + 1, m - 1}) \in 0 .. m - 1
    <2>1. c - 1 \in Int /\ 0 \in Int /\ c + 1 \in Int /\ m - 1 \in Int
      BY <1>1, <1>2
    <2>2. Max({c - 1, 0}) = (IF c - 1 <= 0 THEN 0 ELSE c - 1) /\ Min({c + 1, m - 1}) = (IF c + 1 <= m - 1 THEN c + 1 ELSE m - 1)
      BY <2>1, MinMaxTwo
    <2> QED
      BY <1>1, <1>2, <2>2
  <1>4. KeyUp(e) = IF c < 2 /\ e.scroll > 0 THEN LineUp(e) ELSE Choose(e, Max({c - 1, 0}))
    BY DEF KeyUp, LineUp, Choose, c
  <1>5. KeyDown(e) = IF c > m - 3 /\ e.scroll + m < d.n THEN LineDown(e) ELSE Choose(e, Min({c + 1, m - 1}))
    BY <1>1, LinesUnlit DEF KeyDown, Choose, c, m
  <1> QED
    BY <1>1, <1>3, <1>4, <1>5, LinesUnlit DEF m

\* ... and by a page.
LEMMA PageUpUnlit ==
    ASSUME NEW d, IsList(d), NEW e \in Unlit(d)
    PROVE  PageUp(e) \in Unlit(d)
  <1> DEFINE m == MaxChoice(d)  S == Unlit(d)
             F == [p \in S |-> IF p.scroll > 0 THEN LineUp(p) ELSE Choose(p, Max({p.choice - 1, 0}))]
             P(g) == g = [i \in 0 .. m |->
                            IF i = 0 THEN e
                            ELSE LET p == g[i - 1]
                                     s == do_scroll(p, -1)
                                 IN IF p.scroll > 0 THEN print_item(s, s.scroll, 0, 0)
                                    ELSE [p EXCEPT !.choice = Max({@ - 1, 0})]]
             Done == CHOOSE g : P(g)
  <1>1. m \in Nat /\ MaxChoice(e) = m
    BY MaxChoiceIs, UnlitIs DEF IsList
  <1>2. PageUp(e) = Done[m]
    BY <1>1 DEF PageUp
  <1>3. F \in [S -> S]
    <2>1. ASSUME NEW p \in S
          PROVE  (IF p.scroll > 0 THEN LineUp(p) ELSE Choose(p, Max({p.choice - 1, 0}))) \in S
      <3>1. Max({p.choice - 1, 0}) \in 0 .. m - 1
        <4>1. p.choice \in 0 .. m - 1 /\ p.choice - 1 \in Int /\ 0 \in Int
          BY UnlitIs
        <4>2. Max({p.choice - 1, 0}) = IF p.choice - 1 <= 0 THEN 0 ELSE p.choice - 1
          BY <4>1, MinMaxTwo
        <4> QED
          BY <1>1, <4>1, <4>2
      <3> QED
        BY <3>1, LinesUnlit, UnlitIs
    <2> QED
      BY <2>1
  <1>4. ASSUME NEW g, \A i \in 0 .. m : i # 0 => g[i - 1] \in S
        PROVE  P(g) <=> Results(g, F, e, m)
    <2>1. ASSUME NEW i \in 0 .. m, i # 0
          PROVE  F[g[i - 1]] = LET p == g[i - 1]
                                   s == do_scroll(p, -1)
                               IN IF p.scroll > 0 THEN print_item(s, s.scroll, 0, 0)
                                  ELSE [p EXCEPT !.choice = Max({@ - 1, 0})]
      BY <1>4, <2>1 DEF LineUp, Choose
    <2> HIDE DEF F
    <2> QED
      BY <2>1 DEF Results
  <1>5. P(Done)
    <2>1. PICK g \in [0 .. m -> S] : Results(g, F, e, m)
      <3> HIDE DEF F
      <3> QED
        BY <1>1, <1>3, ResultsExist
    <2>2. \A i \in 0 .. m : i # 0 => g[i - 1] \in S
      BY <1>1
    <2>3. P(g)
      <3> HIDE DEF F, P
      <3> QED
        BY <1>4, <2>1, <2>2
    <2> HIDE DEF P
    <2> QED
      BY <2>3
  <1>6. \A i \in 0 .. m : Done[i] \in S
    <2> DEFINE T == {i \in 0 .. m : Done[i] \in S}
    <2>0. Done[0] = e /\ \A i \in 0 .. m : i # 0 /\ Done[i - 1] \in S => Done[i] = F[Done[i - 1]]
      <3> HIDE DEF Done
      <3>1. \A i \in 0 .. m : Done[i] =
                IF i = 0 THEN e
                ELSE LET p == Done[i - 1]
                           s == do_scroll(p, -1)
                       IN IF p.scroll > 0 THEN print_item(s, s.scroll, 0, 0) ELSE [p EXCEPT !.choice = Max({@ - 1, 0})]
        BY <1>5
      <3>2. Done[0] = e
        <4>1. 0 \in 0 .. m
          BY <1>1
        <4> QED
          BY <3>1, <4>1, Zenon
      <3>3. ASSUME NEW i \in 0 .. m, i # 0, Done[i - 1] \in S PROVE Done[i] = F[Done[i - 1]]
        BY <3>1, <3>3 DEF LineUp, Choose
      <3> QED
        BY <3>2, <3>3
    <2>1. 0 \in T
      <3> HIDE DEF Done
      <3> QED
        BY <1>1, <2>0
    <2>2. ASSUME NEW i \in 0 .. m, i \in T, i < m PROVE i + 1 \in T
      <3> HIDE DEF Done, F
      <3>1. i + 1 \in 0 .. m /\ i + 1 # 0 /\ (i + 1) - 1 = i
        BY <1>1, <2>2
      <3> QED
        BY <1>3, <2>0, <2>2, <3>1
    <2> HIDE DEF T
    <2>3. \A i \in 0 .. m : i \in T
      BY <1>1, <2>1, <2>2, UpTo
    <2> QED
      BY <2>3 DEF T
  <1> HIDE DEF Done
  <1> QED
    BY <1>1, <1>2, <1>6

\* ... and down.
LEMMA PageDownUnlit ==
    ASSUME NEW d, IsList(d), NEW e \in Unlit(d)
    PROVE  PageDown(e) \in Unlit(d)
  <1> DEFINE m == MaxChoice(d)  S == Unlit(d)
             F == [p \in S |-> IF p.scroll + m < e.n THEN LineDown(p) ELSE Choose(p, Min({p.choice + 1, m - 1}))]
             P(g) == g = [i \in 0 .. m |->
                            IF i = 0 THEN e
                            ELSE LET p == g[i - 1]
                                     s == do_scroll(p, 1)
                                 IN IF p.scroll + m < e.n THEN print_item(s, s.scroll + m - 1, m - 1, 0)
                                    ELSE [p EXCEPT !.choice = Min({@ + 1, m - 1})]]
             Done == CHOOSE g : P(g)
  <1>1. m \in Nat /\ MaxChoice(e) = m
    BY MaxChoiceIs, UnlitIs DEF IsList
  <1>2. PageDown(e) = Done[m]
    BY <1>1 DEF PageDown
  <1>3. F \in [S -> S]
    <2>1. ASSUME NEW p \in S
          PROVE  (IF p.scroll + m < e.n THEN LineDown(p) ELSE Choose(p, Min({p.choice + 1, m - 1}))) \in S
      <3>1. Min({p.choice + 1, m - 1}) \in 0 .. m - 1
        <4>1. p.choice \in 0 .. m - 1 /\ p.choice + 1 \in Int /\ m - 1 \in Int
          BY <1>1, UnlitIs
        <4>2. Min({p.choice + 1, m - 1}) = IF p.choice + 1 <= m - 1 THEN p.choice + 1 ELSE m - 1
          BY <4>1, MinMaxTwo
        <4> QED
          BY <1>1, <4>1, <4>2
      <3> QED
        BY <3>1, LinesUnlit, UnlitIs
    <2> QED
      BY <2>1
  <1>4. ASSUME NEW g, \A i \in 0 .. m : i # 0 => g[i - 1] \in S
        PROVE  P(g) <=> Results(g, F, e, m)
    <2>1. ASSUME NEW i \in 0 .. m, i # 0
          PROVE  F[g[i - 1]] = LET p == g[i - 1]
                                   s == do_scroll(p, 1)
                               IN IF p.scroll + m < e.n THEN print_item(s, s.scroll + m - 1, m - 1, 0)
                                  ELSE [p EXCEPT !.choice = Min({@ + 1, m - 1})]
      BY <1>4, <2>1, LinesUnlit DEF Choose
    <2> HIDE DEF F
    <2> QED
      BY <2>1 DEF Results
  <1>5. P(Done)
    <2>1. PICK g \in [0 .. m -> S] : Results(g, F, e, m)
      <3> HIDE DEF F
      <3> QED
        BY <1>1, <1>3, ResultsExist
    <2>2. \A i \in 0 .. m : i # 0 => g[i - 1] \in S
      BY <1>1
    <2>3. P(g)
      <3> HIDE DEF F, P
      <3> QED
        BY <1>4, <2>1, <2>2
    <2> HIDE DEF P
    <2> QED
      BY <2>3
  <1>6. \A i \in 0 .. m : Done[i] \in S
    <2> DEFINE T == {i \in 0 .. m : Done[i] \in S}
    <2>0. Done[0] = e /\ \A i \in 0 .. m : i # 0 /\ Done[i - 1] \in S => Done[i] = F[Done[i - 1]]
      <3> HIDE DEF Done
      <3>1. \A i \in 0 .. m : Done[i] =
                IF i = 0 THEN e
                ELSE LET p == Done[i - 1]
                           s == do_scroll(p, 1)
                       IN IF p.scroll + m < e.n THEN print_item(s, s.scroll + m - 1, m - 1, 0) ELSE [p EXCEPT !.choice = Min({@ + 1, m - 1})]
        BY <1>5
      <3>2. Done[0] = e
        <4>1. 0 \in 0 .. m
          BY <1>1
        <4> QED
          BY <3>1, <4>1, Zenon
      <3>3. ASSUME NEW i \in 0 .. m, i # 0, Done[i - 1] \in S PROVE Done[i] = F[Done[i - 1]]
        BY <3>1, <3>3, LinesUnlit DEF Choose
      <3> QED
        BY <3>2, <3>3
    <2>1. 0 \in T
      <3> HIDE DEF Done
      <3> QED
        BY <1>1, <2>0
    <2>2. ASSUME NEW i \in 0 .. m, i \in T, i < m PROVE i + 1 \in T
      <3> HIDE DEF Done, F
      <3>1. i + 1 \in 0 .. m /\ i + 1 # 0 /\ (i + 1) - 1 = i
        BY <1>1, <2>2
      <3> QED
        BY <1>3, <2>0, <2>2, <3>1
    <2> HIDE DEF T
    <2>3. \A i \in 0 .. m : i \in T
      BY <1>1, <2>1, <2>2, UpTo
    <2> QED
      BY <2>3 DEF T
  <1> HIDE DEF Done
  <1> QED
    BY <1>1, <1>2, <1>6

(***************************************************************************)
(* A menu.                                                                 *)
(***************************************************************************)
\* RowsShown, of any dialog.
Rows(d) ==
    /\ d.choice \in 0 .. MaxChoice(d) - 1 /\ d.scroll \in 0 .. d.n - MaxChoice(d)
    /\ d.rows = Window(d.height, MaxChoice(d), d.scroll, d.choice)
    /\ d.resizes = 0 => d.shown = d.button

Sized(d) == d.n \in Nat \ {0} /\ d.height \in Nat \ {0} /\ d.resizes \in Nat

MenuFields == {"kind", "n", "height", "selected", "s_scroll", "choice", "scroll", "first_item", "rows", "button",
               "shown", "out", "resizes", "last"}
IsMenu(d) ==
    /\ d = [f \in MenuFields |-> d[f]] /\ d.kind = "menu" /\ Sized(d)
    /\ d.selected \in -1 .. d.n - 1 /\ d.s_scroll \in Int

\* A menu that was opened with its first item not at the top has to scroll,
\* or has kept its place, at every smaller height too.
Keeps(d, max) == d.s_scroll <= d.selected /\ d.s_scroll + max > d.selected /\ d.s_scroll >= 0 /\ d.s_scroll + max <= d.n
FirstOnTop(d) ==
    d.resizes = 0 /\ d.first_item # 0 => d.selected # -1 /\ (d.selected >= MaxChoice(d) \/ Keeps(d, MaxChoice(d)))

MenuInv(d) == IsMenu(d) /\ Rows(d) /\ FirstOnTop(d) /\ (d.last.n = d.n /\ d.last.item = d.selected => d.scroll = d.last.scroll)

LeftInv(d) ==
    /\ d.kind = "left" /\ d.n \in Nat \ {0} /\ d.height \in Nat \ {0}
    /\ d.s_scroll \in 0 .. d.n - MaxChoice(d) /\ d.chosen - d.s_scroll \in 0 .. MaxChoice(d) - 1 /\ d.chosen \in Int
    /\ d.lit = {d.chosen}

\* A list of items is such a menu, or list, when it is a record.
LEMMA SelfPlaced ==
    ASSUME NEW F, NEW d, d = [f \in F |-> d[f]], IsList(d), Rows(d)
    PROVE  d = Placed(d, d.scroll, d.choice, d.choice)
  <1>1. DOMAIN d = F
    OBVIOUS
  <1>2. d = View(d, d.rows, d.scroll, d.choice)
    BY <1>1 DEF View, IsList
  <1> QED
    BY <1>2 DEF Placed, Rows

\* The row a letter leads to.
LEMMA HotRowIs ==
    ASSUME NEW d, IsList(d), NEW key, HotRow(d, key) < MaxChoice(d), d.choice \in Int
    PROVE  HotRow(d, key) \in 0 .. MaxChoice(d) - 1
  <1> DEFINE rows == {r \in 0 .. MaxChoice(d) - 1 : HotKey(d.scroll + r) = key}
             below == {r \in rows : r > d.choice}
  <1>1. MaxChoice(d) \in Nat
    BY MaxChoiceIs DEF IsList
  <1>2. rows # {} /\ HotRow(d, key) = IF below # {} THEN Min(below) ELSE Min(rows)
    BY <1>1 DEF HotRow
  <1>3. rows \subseteq 0 .. MaxChoice(d) - 1 /\ below \subseteq rows /\ rows \subseteq Nat /\ below \subseteq Nat
    BY <1>1
  <1> HIDE DEF rows, below
  <1>4. CASE below # {}
    BY <1>2, <1>3, <1>4, MinNat
  <1>5. CASE below = {}
    BY <1>2, <1>3, <1>5, MinNat
  <1> QED
    BY <1>4, <1>5

\* A menu is opened at the item that was selected, at a height that is not
\* greater than it was.
LEMMA MenuOpens ==
    ASSUME NEW d, d = [f \in MenuFields |-> d[f]], d.kind = "menu", d.n \in Nat \ {0}, NEW height \in Nat \ {0},
           d.selected \in -1 .. d.n - 1, d.s_scroll \in Int, d.choice \in 0 .. d.n - 1,
           d.first_item # 0 => d.selected # -1 /\ (d.selected >= Min({height, d.n}) \/ Keeps(d, Min({height, d.n})))
    PROVE  LET e == OpenMenu(d, height)
           IN /\ e = [f \in MenuFields |-> e[f]]
              /\ e.kind = "menu" /\ e.n = d.n /\ e.height = height /\ e.selected = d.selected /\ e.s_scroll = d.s_scroll
              /\ e.resizes = d.resizes /\ e.last = d.last /\ e.button = d.button /\ e.shown = 0 /\ e.out = d.out
              /\ e.choice \in 0 .. MaxChoice(e) - 1 /\ e.scroll \in 0 .. e.n - MaxChoice(e)
              /\ e.rows = Window(e.height, MaxChoice(e), e.scroll, e.choice)
              /\ d.choice = 0 /\ e.first_item # 0 => d.selected # -1 /\ (d.selected >= MaxChoice(e) \/ Keeps(d, MaxChoice(e)))
              /\ Keeps(d, MaxChoice(e)) /\ d.selected # -1 => e.scroll = d.s_scroll
  <1> DEFINE max == Min({height, d.n})
             at == IF d.selected # -1 THEN d.selected ELSE d.choice
             saved == /\ d.s_scroll <= at /\ d.s_scroll + max > at
                      /\ d.s_scroll >= 0 /\ d.s_scroll + max <= d.n
             far == ~saved /\ at >= max
             scroll == CASE saved -> d.s_scroll
                         [] far -> IF at >= d.n - (max \div 2) THEN d.n - max ELSE at - (max \div 2)
                         [] OTHER -> 0
             first == IF saved \/ far THEN scroll ELSE d.first_item
             choice == at - scroll
             e == OpenMenu(d, height)
  <1>1. max \in 1 .. d.n /\ max \in Nat /\ at \in 0 .. d.n - 1 /\ d.n \in Nat /\ d.s_scroll \in Int
    BY MinMaxTwo
  <1>2. max \div 2 \in Nat /\ 2 * (max \div 2) <= max /\ max <= 2 * (max \div 2) + 1
    <2> HIDE DEF max
    <2> QED
      BY <1>1
  <1>3. e = [d EXCEPT !.height = height, !.scroll = scroll, !.choice = choice, !.first_item = first, !.shown = 0,
                      !.rows = Window(height, max, first, choice)]
    BY DEF OpenMenu
  <1> HIDE DEF max, at
  <1>4. scroll \in 0 .. d.n - max /\ choice \in 0 .. max - 1
    BY <1>1, <1>2
  <1>5. first = scroll
    BY <1>1 DEF Keeps, max, at
  <1>6. d.choice = 0 /\ first # 0 => d.selected # -1 /\ (d.selected >= max \/ Keeps(d, max))
    BY <1>1, <1>5 DEF Keeps, at
  <1>7. Keeps(d, max) /\ d.selected # -1 => scroll = d.s_scroll
    BY DEF Keeps, at
  <1>8. /\ e = [f \in MenuFields |-> e[f]]
        /\ e.kind = "menu" /\ e.n = d.n /\ e.height = height /\ e.selected = d.selected /\ e.s_scroll = d.s_scroll
        /\ e.resizes = d.resizes /\ e.last = d.last /\ e.button = d.button /\ e.shown = 0 /\ e.out = d.out
        /\ e.choice = choice /\ e.scroll = scroll /\ e.first_item = first /\ e.rows = Window(height, max, first, choice)
    <2> HIDE DEF first, choice, scroll, e
    <2> QED
      BY <1>3 DEF MenuFields
  <1>9. MaxChoice(e) = max
    BY <1>8 DEF MaxChoice, max
  <1> HIDE DEF first, choice, scroll, e
  <1> QED
    BY <1>4, <1>5, <1>6, <1>7, <1>8, <1>9 DEF e

\* A new menu.
LEMMA MenuNew ==
    ASSUME NEW n \in Nat \ {0}, NEW selected \in -1 .. n - 1, NEW s \in Int, NEW height \in Nat \ {0}, NEW last,
           last.n = n /\ last.item = selected =>
               /\ last.scroll = s /\ s <= selected /\ s >= 0 /\ selected # -1
               /\ s + Min({height, n}) > selected /\ s + Min({height, n}) <= n
    PROVE  MenuInv(NewMenu(n, selected, s, height, last))
  <1> DEFINE d == [kind |-> "menu", n |-> n, height |-> height, selected |-> selected, s_scroll |-> s, choice |-> 0,
                   scroll |-> 0, first_item |-> 0, rows |-> <<>>, button |-> 0, shown |-> 0, out |-> Open, resizes |-> 0,
                   last |-> last]
             e == OpenMenu(d, height)
  <1>1. /\ d = [f \in MenuFields |-> d[f]] /\ d.kind = "menu" /\ d.n = n /\ d.selected = selected /\ d.s_scroll = s
        /\ d.choice = 0 /\ d.first_item = 0 /\ d.resizes = 0 /\ d.last = last /\ d.button = 0
    BY DEF MenuFields
  <1>2. NewMenu(n, selected, s, height, last) = e
    BY DEF NewMenu
  <1> HIDE DEF d
  <1>3. 0 \in 0 .. n - 1
    OBVIOUS
  <1>4. /\ e = [f \in MenuFields |-> e[f]]
        /\ e.kind = "menu" /\ e.n = n /\ e.height = height /\ e.selected = selected /\ e.s_scroll = s
        /\ e.resizes = 0 /\ e.last = last /\ e.button = 0 /\ e.shown = 0
        /\ e.choice \in 0 .. MaxChoice(e) - 1 /\ e.scroll \in 0 .. e.n - MaxChoice(e)
        /\ e.rows = Window(e.height, MaxChoice(e), e.scroll, e.choice)
        /\ e.first_item # 0 => selected # -1 /\ (selected >= MaxChoice(e) \/ Keeps(d, MaxChoice(e)))
        /\ Keeps(d, MaxChoice(e)) /\ selected # -1 => e.scroll = s
    <2>1. /\ d.n \in Nat \ {0} /\ d.selected \in -1 .. d.n - 1 /\ d.s_scroll \in Int /\ d.choice \in 0 .. d.n - 1
          /\ ~(d.first_item # 0)
      BY <1>1, <1>3
    <2>2. /\ e = [f \in MenuFields |-> e[f]]
          /\ e.kind = "menu" /\ e.n = d.n /\ e.height = height /\ e.selected = d.selected /\ e.s_scroll = d.s_scroll
          /\ e.resizes = d.resizes /\ e.last = d.last /\ e.button = d.button /\ e.shown = 0 /\ e.out = d.out
          /\ e.choice \in 0 .. MaxChoice(e) - 1 /\ e.scroll \in 0 .. e.n - MaxChoice(e)
          /\ e.rows = Window(e.height, MaxChoice(e), e.scroll, e.choice)
          /\ d.choice = 0 /\ e.first_item # 0 => d.selected # -1 /\ (d.selected >= MaxChoice(e) \/ Keeps(d, MaxChoice(e)))
          /\ Keeps(d, MaxChoice(e)) /\ d.selected # -1 => e.scroll = d.s_scroll
      BY <1>1, <2>1, MenuOpens
    <2> HIDE DEF e
    <2> QED
      BY <1>1, <2>2
  <1>5. MaxChoice(e) = Min({height, n})
    BY <1>4 DEF MaxChoice
  <1>6. \A max : Keeps(d, max) <=> Keeps(e, max)
    BY <1>1, <1>4 DEF Keeps
  <1>7. last.n = n /\ last.item = selected => Keeps(d, MaxChoice(e))
    BY <1>1, <1>5 DEF Keeps
  <1> HIDE DEF e
  <1>8. IsMenu(e) /\ Rows(e)
    BY <1>4 DEF IsMenu, Rows, Sized
  <1>9. FirstOnTop(e)
    BY <1>4, <1>6 DEF FirstOnTop
  <1> QED
    BY <1>2, <1>4, <1>7, <1>8, <1>9 DEF MenuInv

\* What MenuInv says of fields that the keys change in no other way.
LEMMA MenuSame ==
    ASSUME NEW d, MenuInv(d), NEW e, e = [f \in MenuFields |-> e[f]],
           \A f \in MenuFields \ {"rows", "scroll", "choice", "button", "shown", "out", "last"} : e[f] = d[f],
           Rows(e), e.last.n = e.n /\ e.last.item = e.selected => e.scroll = e.last.scroll
    PROVE  MenuInv(e)
  <1>1. /\ e.kind = "menu" /\ e.n = d.n /\ e.height = d.height /\ e.selected = d.selected /\ e.s_scroll = d.s_scroll
        /\ e.first_item = d.first_item /\ e.resizes = d.resizes
    BY DEF MenuFields, MenuInv, IsMenu
  <1>2. MaxChoice(e) = MaxChoice(d) /\ \A max : Keeps(e, max) <=> Keeps(d, max)
    BY <1>1 DEF MaxChoice, Keeps
  <1>3. IsMenu(e)
    BY <1>1 DEF MenuInv, IsMenu, Sized
  <1>4. FirstOnTop(e)
    BY <1>1, <1>2 DEF FirstOnTop, MenuInv
  <1> QED
    BY <1>3, <1>4 DEF MenuInv

\* A key that moves.
LEMMA MenuMovedInv ==
    ASSUME NEW d, MenuInv(d), NEW key, Moves(d, key)
    PROVE  MenuInv(MenuMoved(d, key))
  <1>1. IsList(d) /\ DOMAIN d = MenuFields
    BY DEF MenuInv, IsMenu, IsList, Sized, MenuFields
  <1>2. d.scroll \in 0 .. d.n - MaxChoice(d) /\ d.choice \in 0 .. MaxChoice(d) - 1 /\ d.choice \in Int
    BY DEF MenuInv, Rows
  <1> DEFINE off == print_item(d, d.scroll + d.choice, d.choice, 0)
             m == CASE key = "up" -> KeyUp(off)
                    [] key = "down" -> KeyDown(off)
                    [] key = "ppage" -> PageUp(off)
                    [] key = "npage" -> PageDown(off)
                    [] OTHER -> [off EXCEPT !.choice = HotRow(d, key)]
             p == print_item(m, m.scroll + m.choice, m.choice, 1)
             e == [p EXCEPT !.last = Nothing]
  <1>3. off \in Unlit(d)
    <2>1. d = Placed(d, d.scroll, d.choice, d.choice)
      BY <1>1, SelfPlaced DEF MenuInv, IsMenu
    <2>2. d.choice \in {d.choice, -1} /\ 0 \in {0, 1}
      OBVIOUS
    <2>3. print_item(Placed(d, d.scroll, d.choice, d.choice), d.scroll + d.choice, d.choice, 0)
            = Placed(d, d.scroll, d.choice, IF 0 = 1 THEN d.choice ELSE -1)
      BY <1>1, <1>2, <2>2, PlacedDrawn
    <2>4. off = Placed(d, d.scroll, d.choice, -1)
      BY <2>1, <2>3
    <2> QED
      BY <1>1, <1>2, <2>4, UnlitHas
  <1>4. m \in Unlit(d)
    <2> HIDE DEF off
    <2>1. KeyUp(off) \in Unlit(d) /\ KeyDown(off) \in Unlit(d) /\ PageUp(off) \in Unlit(d) /\ PageDown(off) \in Unlit(d)
      BY <1>1, <1>3, KeyUnlit, PageUpUnlit, PageDownUnlit
    <2>2. ASSUME key \notin {"up", "down", "ppage", "npage"} PROVE Choose(off, HotRow(d, key)) \in Unlit(d)
      <3>1. HotRow(d, key) \in 0 .. MaxChoice(d) - 1
        BY <1>1, <1>2, <2>2, HotRowIs DEF Moves
      <3> QED
        BY <1>1, <1>3, <3>1, UnlitIs
    <2> QED
      BY <2>1, <2>2 DEF Choose
  <1>5. MenuMoved(d, key) = e
    BY DEF MenuMoved
  <1> HIDE DEF m, off
  <1>6. /\ m.scroll \in 0 .. d.n - MaxChoice(d) /\ m.choice \in 0 .. MaxChoice(d) - 1
        /\ p = Placed(d, m.scroll, m.choice, m.choice)
    <2>1. /\ m.scroll \in 0 .. d.n - MaxChoice(d) /\ m.choice \in 0 .. MaxChoice(d) - 1
          /\ m = Placed(d, m.scroll, m.choice, -1)
      BY <1>1, <1>4, UnlitIs
    <2>2. -1 \in {m.choice, -1} /\ 1 \in {0, 1}
      OBVIOUS
    <2>3. print_item(Placed(d, m.scroll, m.choice, -1), m.scroll + m.choice, m.choice, 1)
            = Placed(d, m.scroll, m.choice, IF 1 = 1 THEN m.choice ELSE -1)
      BY <1>1, <2>1, <2>2, PlacedDrawn
    <2> QED
      BY <2>1, <2>3
  <1>7. /\ p.rows = Window(d.height, MaxChoice(d), m.scroll, m.choice) /\ p.scroll = m.scroll /\ p.choice = m.choice
        /\ DOMAIN p = MenuFields
        /\ \A f \in MenuFields : f \notin {"rows", "scroll", "choice"} => p[f] = d[f]
    BY <1>1, <1>6, ViewFields DEF Placed
  <1> HIDE DEF p
  <1>8. e = [f \in MenuFields |-> e[f]] /\ \A f \in MenuFields : e[f] = IF f = "last" THEN Nothing ELSE p[f]
    BY <1>7
  <1> HIDE DEF e
  <1>9. /\ e.rows = p.rows /\ e.scroll = p.scroll /\ e.choice = p.choice /\ e.last = Nothing
        /\ e.n = d.n /\ e.height = d.height /\ e.resizes = d.resizes /\ e.shown = d.shown /\ e.button = d.button
    BY <1>7, <1>8 DEF MenuFields
  <1>10. MaxChoice(e) = MaxChoice(d) /\ d.n # 0
    BY <1>9 DEF MaxChoice, MenuInv, IsMenu, Sized
  <1>11. Rows(e)
    BY <1>6, <1>7, <1>9, <1>10 DEF Rows, MenuInv
  <1>12. e.last.n # e.n
    BY <1>9, <1>10 DEF Nothing
  <1>13. \A f \in MenuFields \ {"rows", "scroll", "choice", "button", "shown", "out", "last"} : e[f] = d[f]
    BY <1>7, <1>8
  <1>14. MenuInv(e)
    BY <1>8, <1>11, <1>12, <1>13, MenuSame
  <1> QED
    BY <1>5, <1>14

\* The rows of a record that differs elsewhere.
LEMMA RowsSame ==
    ASSUME NEW d, Rows(d), NEW e,
           \A f \in {"rows", "scroll", "choice", "n", "height"} : e[f] = d[f], e.resizes = 0 => e.shown = e.button
    PROVE  Rows(e)
  <1>1. e.rows = d.rows /\ e.scroll = d.scroll /\ e.choice = d.choice /\ e.n = d.n /\ e.height = d.height
    OBVIOUS
  <1>2. MaxChoice(e) = MaxChoice(d)
    BY <1>1 DEF MaxChoice
  <1> QED
    BY <1>1, <1>2 DEF Rows

\* A key that turns the buttons, and one that cancels.
LEMMA MenuTurnedInv ==
    ASSUME NEW d, MenuInv(d), NEW key, NEW x
    PROVE  MenuInv(Turned(d, key, 5)) /\ MenuInv([d EXCEPT !.out = x])
  <1> DEFINE r == (IF key = "left" THEN d.button - 1 ELSE d.button + 1) % 5
  <1>1. DOMAIN d = MenuFields /\ Rows(d)
    BY DEF MenuInv, IsMenu
  <1>2. ASSUME NEW e, e \in {[d EXCEPT !.button = r, !.shown = r], [d EXCEPT !.out = x]} PROVE MenuInv(e)
    <2>1. /\ e = [f \in MenuFields |-> e[f]]
          /\ \A f \in MenuFields : f \notin {"button", "shown", "out"} => e[f] = d[f]
          /\ e.shown = e.button \/ (e.shown = d.shown /\ e.button = d.button)
      <3> HIDE DEF r
      <3> QED
        BY <1>1, <1>2 DEF MenuFields
    <2>2. \A f \in {"rows", "scroll", "choice", "n", "height", "resizes", "selected", "last"} : f \in MenuFields /\ e[f] = d[f]
      BY <2>1 DEF MenuFields
    <2>3. Rows(e)
      BY <1>1, <2>1, <2>2, RowsSame DEF Rows
    <2>4. e.last.n = e.n /\ e.last.item = e.selected => e.scroll = e.last.scroll
      BY <2>2 DEF MenuInv
    <2>5. \A f \in MenuFields \ {"rows", "scroll", "choice", "button", "shown", "out", "last"} : e[f] = d[f]
      BY <2>1
    <2> QED
      BY <2>1, <2>3, <2>4, <2>5, MenuSame
  <1> QED
    BY <1>2 DEF Turned

\* A menu that is left had one item highlighted, the chosen one.
LEMMA MenuLeft ==
    ASSUME NEW d, MenuInv(d), NEW code
    PROVE  LeftInv(Left(d, code))
  <1> DEFINE m == MaxChoice(d)  w == d.rows  e == Left(d, code)
  <1>1. IsList(d) /\ d.n \in Nat \ {0} /\ d.height \in Nat \ {0}
    BY DEF MenuInv, IsMenu, IsList, Sized, MenuFields
  <1>2. d.choice \in 0 .. m - 1 /\ d.scroll \in 0 .. d.n - m /\ w = Window(d.height, m, d.scroll, d.choice)
    BY DEF MenuInv, Rows
  <1>3. m \in 1 .. d.height /\ m \in 1 .. d.n /\ d.height \in Int
    BY <1>1, MaxChoiceIs
  <1> HIDE DEF m, w
  <1>4. DOMAIN w = 0 .. d.height - 1
    BY <1>2, <1>3, WindowAt
  <1>5. \A r \in 0 .. d.height - 1 : w[r] = IF r < m THEN <<d.scroll + r, IF r = d.choice THEN 1 ELSE 0>> ELSE Blank
    BY <1>2, <1>3, WindowAt
  <1>6. {q \in DOMAIN w : w[q][2] = 1} = {d.choice}
    <2>1. ASSUME NEW q \in 0 .. d.height - 1 PROVE w[q][2] = 1 <=> q = d.choice
      <3>1. CASE q < m
        <4>1. w[q] = <<d.scroll + q, IF q = d.choice THEN 1 ELSE 0>>
          BY <1>5, <3>1
        <4> QED
          BY <4>1
      <3>2. CASE ~(q < m)
        <4>1. w[q] = Blank
          BY <1>5, <3>2
        <4>2. q # d.choice
          BY <1>2, <1>3, <3>2
        <4>3. w[q][2] = 0
          BY <4>1 DEF Blank
        <4> QED
          BY <4>2, <4>3
      <3> QED
        BY <3>1, <3>2
    <2>2. d.choice \in 0 .. d.height - 1
      BY <1>2, <1>3
    <2> QED
      BY <1>4, <2>1, <2>2
  <1>7. w[d.choice][1] = d.scroll + d.choice
    <2>1. d.choice \in 0 .. d.height - 1 /\ d.choice < m
      BY <1>2, <1>3
    <2>2. w[d.choice] = <<d.scroll + d.choice, IF d.choice = d.choice THEN 1 ELSE 0>>
      BY <1>5, <2>1
    <2> QED
      BY <2>2
  <1>8. e = [kind |-> "left", n |-> d.n, height |-> d.height, s_scroll |-> d.scroll, chosen |-> d.scroll + d.choice,
             out |-> code, lit |-> {w[r][1] : r \in {d.choice}}]
    BY <1>6, Zenon DEF Left, w
  <1>9. {w[r][1] : r \in {d.choice}} = {d.scroll + d.choice}
    BY <1>7
  <1>10. e.kind = "left" /\ e.n = d.n /\ e.height = d.height /\ e.s_scroll = d.scroll /\ e.chosen = d.scroll + d.choice
         /\ e.lit = {d.scroll + d.choice}
    <2> HIDE DEF e
    <2> QED
      BY <1>8, <1>9
  <1>11. MaxChoice(e) = m
    BY <1>10 DEF MaxChoice, m
  <1> HIDE DEF e
  <1>12. LeftInv(e)
    BY <1>1, <1>2, <1>3, <1>10, <1>11 DEF LeftInv
  <1> QED
    BY <1>12 DEF e

\* It is opened again where it was left.
LEMMA MenuReopened ==
    ASSUME NEW d, LeftInv(d), NEW n \in Nat \ {0}, NEW selected \in -1 .. n - 1
    PROVE  MenuInv(NewMenu(n, selected, d.s_scroll, d.height, [n |-> d.n, item |-> d.chosen, scroll |-> d.s_scroll]))
  <1> DEFINE last == [n |-> d.n, item |-> d.chosen, scroll |-> d.s_scroll]
  <1>1. /\ d.n \in Nat \ {0} /\ d.height \in Nat \ {0} /\ d.s_scroll \in 0 .. d.n - MaxChoice(d)
        /\ d.chosen - d.s_scroll \in 0 .. MaxChoice(d) - 1 /\ d.chosen \in Int
    BY DEF LeftInv
  <1>2. MaxChoice(d) = Min({d.height, d.n}) /\ MaxChoice(d) \in 1 .. d.n
    BY <1>1, MinMaxTwo DEF MaxChoice
  <1>3. last.n = d.n /\ last.item = d.chosen /\ last.scroll = d.s_scroll
    OBVIOUS
  <1> HIDE DEF last
  <1>4. d.s_scroll \in Int
    BY <1>1, <1>2
  <1>5. last.n = n /\ last.item = selected =>
            /\ last.scroll = d.s_scroll /\ d.s_scroll <= selected /\ d.s_scroll >= 0 /\ selected # -1
            /\ d.s_scroll + Min({d.height, n}) > selected /\ d.s_scroll + Min({d.height, n}) <= n
    BY <1>1, <1>2, <1>3
  <1>6. MenuInv(NewMenu(n, selected, d.s_scroll, d.height, last))
    BY <1>1, <1>4, <1>5, MenuNew
  <1> QED
    BY <1>6 DEF last

\* The terminal makes it smaller, once.
LEMMA MenuResized ==
    ASSUME NEW d, MenuInv(d), d.resizes = 0, NEW h \in 1 .. d.height
    PROVE  MenuInv([OpenMenu(d, h) EXCEPT !.resizes = @ + 1, !.last = Nothing])
  <1> DEFINE o == OpenMenu(d, h)  e == [o EXCEPT !.resizes = @ + 1, !.last = Nothing]
  <1>1. /\ d = [f \in MenuFields |-> d[f]] /\ d.kind = "menu" /\ d.n \in Nat \ {0} /\ d.height \in Nat \ {0} /\ h \in Nat \ {0}
        /\ d.selected \in -1 .. d.n - 1 /\ d.s_scroll \in Int /\ IsList(d)
    BY DEF MenuInv, IsMenu, Sized, IsList, MenuFields
  <1>2. MaxChoice(d) \in 1 .. d.n /\ Min({h, d.n}) \in 1 .. MaxChoice(d)
    BY <1>1, MinMaxTwo DEF MaxChoice
  <1>3. d.choice \in 0 .. d.n - 1
    BY <1>1, <1>2 DEF MenuInv, Rows
  <1>4. d.first_item # 0 => d.selected # -1 /\ (d.selected >= Min({h, d.n}) \/ Keeps(d, Min({h, d.n})))
    BY <1>1, <1>2 DEF MenuInv, FirstOnTop, Keeps
  <1>5. /\ o = [f \in MenuFields |-> o[f]]
        /\ o.kind = "menu" /\ o.n = d.n /\ o.height = h /\ o.selected = d.selected /\ o.s_scroll = d.s_scroll
        /\ o.resizes = d.resizes
        /\ o.choice \in 0 .. MaxChoice(o) - 1 /\ o.scroll \in 0 .. o.n - MaxChoice(o)
        /\ o.rows = Window(o.height, MaxChoice(o), o.scroll, o.choice)
    BY <1>1, <1>3, <1>4, MenuOpens
  <1> HIDE DEF o
  <1>6. /\ e = [f \in MenuFields |-> e[f]]
        /\ e.kind = "menu" /\ e.n = d.n /\ e.height = h /\ e.selected = d.selected /\ e.s_scroll = d.s_scroll
        /\ e.resizes = 1 /\ e.last = Nothing /\ e.choice = o.choice /\ e.scroll = o.scroll /\ e.rows = o.rows
    <2>1. DOMAIN o = MenuFields /\ o.resizes + 1 = 1
      BY <1>5
    <2>2. e = [f \in MenuFields |-> e[f]]
          /\ \A f \in MenuFields : e[f] = CASE f = "resizes" -> 1 [] f = "last" -> Nothing [] OTHER -> o[f]
      BY <2>1 DEF MenuFields
    <2> HIDE DEF e
    <2> QED
      BY <1>5, <2>2 DEF MenuFields
  <1> HIDE DEF e
  <1>7. MaxChoice(e) = MaxChoice(o)
    BY <1>5, <1>6 DEF MaxChoice
  <1>8. Rows(e) /\ IsMenu(e)
    BY <1>1, <1>5, <1>6, <1>7 DEF Rows, IsMenu, Sized
  <1>9. FirstOnTop(e) /\ e.last.n # e.n
    BY <1>1, <1>6 DEF FirstOnTop, Nothing
  <1>10. MenuInv(e)
    BY <1>8, <1>9 DEF MenuInv
  <1> QED
    BY <1>10 DEF e, o

(***************************************************************************)
(* A list of which one item is chosen.                                     *)
(***************************************************************************)
ListFields == {"kind", "n", "height", "choice", "scroll", "rows", "button", "shown", "out", "chosen", "resizes"}
IsChecklist(d) == d = [f \in ListFields |-> d[f]] /\ d.kind = "list" /\ Sized(d) /\ d.button \in {0, 1}
ListInv(d) == IsChecklist(d) /\ Rows(d) /\ (d.out = Open => d.chosen = -1) /\ (d.chosen # -1 => d.rows[d.choice] = <<d.chosen, 1>>)

\* A list is opened so that the item tagged is in the window.
LEMMA ListOpens ==
    ASSUME NEW d, d = [f \in ListFields |-> d[f]], d.n \in Nat \ {0}, d.height \in Nat \ {0},
           d.choice \in 0 .. d.n - 1, d.scroll \in 0 .. d.n - MaxChoice(d), d.choice >= d.height => d.scroll = 0
    PROVE  LET e == OpenList(d) IN
           /\ e = [f \in ListFields |-> e[f]]
           /\ \A f \in ListFields \ {"scroll", "choice", "shown", "rows"} : e[f] = d[f]
           /\ e.shown = 0 /\ e.choice \in 0 .. MaxChoice(e) - 1 /\ e.scroll \in 0 .. e.n - MaxChoice(e)
           /\ e.rows = Window(e.height, MaxChoice(e), e.scroll, e.choice)
  <1> DEFINE m == MaxChoice(d)
             scroll == IF d.choice >= d.height THEN (d.choice - d.height) + 1 ELSE d.scroll
             choice == IF d.choice >= d.height THEN d.height - 1 ELSE d.choice
             e == OpenList(d)
  <1>1. m = IF d.height <= d.n THEN d.height ELSE d.n
    BY MinMaxTwo DEF MaxChoice
  <1>2. scroll \in 0 .. d.n - m /\ choice \in 0 .. m - 1
    BY <1>1
  <1>3. e = [d EXCEPT !.scroll = scroll, !.choice = choice, !.shown = 0, !.rows = Window(d.height, m, scroll, choice)]
    BY DEF OpenList
  <1> HIDE DEF scroll, choice, e
  <1>4. /\ e = [f \in ListFields |-> e[f]]
        /\ \A f \in ListFields \ {"scroll", "choice", "shown", "rows"} : e[f] = d[f]
        /\ e.shown = 0 /\ e.scroll = scroll /\ e.choice = choice /\ e.rows = Window(d.height, m, scroll, choice)
    <2> HIDE DEF m
    <2> QED
      BY <1>3 DEF ListFields
  <1>5. e.n = d.n /\ e.height = d.height
    BY <1>4 DEF ListFields
  <1>6. MaxChoice(e) = m
    BY <1>5 DEF MaxChoice
  <1> HIDE DEF m
  <1> QED
    BY <1>2, <1>4, <1>5, <1>6 DEF e

\* A new list, and one that is drawn again when the terminal is resized.
LEMMA ListNew ==
    ASSUME NEW n \in Nat \ {0}, NEW tagged \in 0 .. n - 1, NEW height \in Nat \ {0}
    PROVE  ListInv(NewList(n, tagged, height))
  <1> DEFINE d == [kind |-> "list", n |-> n, height |-> height, choice |-> tagged, scroll |-> 0, rows |-> <<>>, button |-> 0,
                   shown |-> 0, out |-> Open, chosen |-> -1, resizes |-> 0]
             e == OpenList(d)
  <1>1. /\ d = [f \in ListFields |-> d[f]] /\ d.kind = "list" /\ d.n = n /\ d.height = height /\ d.choice = tagged
        /\ d.scroll = 0 /\ d.chosen = -1 /\ d.resizes = 0 /\ d.button = 0
    BY DEF ListFields
  <1>2. NewList(n, tagged, height) = e
    BY DEF NewList
  <1> HIDE DEF d
  <1>3. MaxChoice(d) \in 1 .. n
    BY <1>1, MinMaxTwo DEF MaxChoice
  <1>4. d.n \in Nat \ {0} /\ d.height \in Nat \ {0} /\ d.choice \in 0 .. d.n - 1 /\ d.scroll \in 0 .. d.n - MaxChoice(d)
    BY <1>1, <1>3
  <1>5. /\ e = [f \in ListFields |-> e[f]]
        /\ \A f \in ListFields \ {"scroll", "choice", "shown", "rows"} : e[f] = d[f]
        /\ e.shown = 0 /\ e.choice \in 0 .. MaxChoice(e) - 1 /\ e.scroll \in 0 .. e.n - MaxChoice(e)
        /\ e.rows = Window(e.height, MaxChoice(e), e.scroll, e.choice)
    BY <1>1, <1>4, ListOpens
  <1> HIDE DEF e
  <1>6. e.kind = "list" /\ e.n = n /\ e.height = height /\ e.chosen = -1 /\ e.resizes = 0 /\ e.button = 0
    BY <1>1, <1>5 DEF ListFields
  <1>7. ListInv(e)
    BY <1>5, <1>6 DEF ListInv, IsChecklist, Sized, Rows
  <1> QED
    BY <1>2, <1>7

\* Nothing but what is shown changes in the list.
LEMMA ListSame ==
    ASSUME NEW d, ListInv(d), d.out = Open, NEW e, e = [f \in ListFields |-> e[f]], Rows(e), e.resizes \in Nat, e.button \in {0, 1},
           \A f \in {"kind", "n", "height", "chosen"} : e[f] = d[f]
    PROVE  ListInv(e)
BY DEF ListInv, IsChecklist, Sized

\* The terminal is resized.
LEMMA ListResized ==
    ASSUME NEW d, ListInv(d), d.out = Open
    PROVE  ListInv([OpenList(d) EXCEPT !.resizes = @ + 1])
  <1> DEFINE o == OpenList(d)  e == [o EXCEPT !.resizes = @ + 1]
  <1>1. d = [f \in ListFields |-> d[f]] /\ d.n \in Nat \ {0} /\ d.height \in Nat \ {0} /\ d.resizes \in Nat /\ d.button \in {0, 1}
    BY DEF ListInv, IsChecklist, Sized
  <1>2. /\ MaxChoice(d) \in 1 .. d.n /\ MaxChoice(d) \in 1 .. d.height
        /\ d.scroll \in 0 .. d.n - MaxChoice(d) /\ d.choice \in 0 .. MaxChoice(d) - 1
    BY <1>1, MinMaxTwo DEF MaxChoice, ListInv, Rows
  <1>3. d.choice \in 0 .. d.n - 1 /\ ~(d.choice >= d.height)
    BY <1>1, <1>2
  <1>4. /\ o = [f \in ListFields |-> o[f]]
        /\ \A f \in ListFields \ {"scroll", "choice", "shown", "rows"} : o[f] = d[f]
        /\ o.shown = 0 /\ o.choice \in 0 .. MaxChoice(o) - 1 /\ o.scroll \in 0 .. o.n - MaxChoice(o)
        /\ o.rows = Window(o.height, MaxChoice(o), o.scroll, o.choice)
    BY <1>1, <1>2, <1>3, ListOpens
  <1> HIDE DEF o
  <1>5. /\ e = [f \in ListFields |-> e[f]] /\ e.resizes = d.resizes + 1
        /\ \A f \in ListFields : f # "resizes" => e[f] = o[f]
    BY <1>4 DEF ListFields
  <1> HIDE DEF e
  <1>6. /\ e.n = o.n /\ e.height = o.height /\ e.choice = o.choice /\ e.scroll = o.scroll /\ e.rows = o.rows
        /\ e.resizes \in Nat /\ e.resizes # 0 /\ e.button = d.button /\ \A f \in {"kind", "n", "height", "chosen"} : e[f] = d[f]
    BY <1>1, <1>4, <1>5 DEF ListFields
  <1>7. MaxChoice(e) = MaxChoice(o)
    BY <1>6 DEF MaxChoice
  <1>8. Rows(e)
    BY <1>4, <1>6, <1>7 DEF Rows
  <1>9. ListInv(e)
    BY <1>1, <1>5, <1>6, <1>8, ListSame
  <1> QED
    BY <1>9 DEF e, o

\* A list at another place, with the choice highlighted.
LEMMA ListPlaced ==
    ASSUME NEW d, ListInv(d), d.out = Open, NEW s \in 0 .. d.n - MaxChoice(d), NEW i \in 0 .. MaxChoice(d) - 1
    PROVE  ListInv(Placed(d, s, i, i))
  <1> DEFINE e == Placed(d, s, i, i)
  <1>1. /\ IsList(d) /\ DOMAIN d = ListFields /\ Rows(d) /\ d.resizes \in Nat
        /\ ListFields = DOMAIN d /\ {"kind", "n", "height", "chosen", "resizes", "button", "shown"} \subseteq ListFields
    BY DEF ListInv, IsChecklist, IsList, Sized, ListFields
  <1>2. /\ e.rows = Window(d.height, MaxChoice(d), s, i) /\ e.scroll = s /\ e.choice = i /\ e.n = d.n /\ e.height = d.height
        /\ DOMAIN e = DOMAIN d /\ MaxChoice(e) = MaxChoice(d)
        /\ \A f \in DOMAIN d : f \notin {"rows", "scroll", "choice"} => e[f] = d[f]
    BY <1>1, ViewFields DEF Placed
  <1>3. e = [f \in ListFields |-> e[f]]
    <2>1. e = [f \in DOMAIN e |-> e[f]]
      BY DEF Placed, View
    <2> HIDE DEF e
    <2> QED
      BY <1>1, <1>2, <2>1
  <1> HIDE DEF e
  <1>4. /\ \A f \in {"kind", "n", "height", "chosen"} : e[f] = d[f]
        /\ e.resizes = d.resizes /\ e.button = d.button /\ e.shown = d.shown /\ d.button \in {0, 1}
    BY <1>1, <1>2 DEF ListInv, IsChecklist
  <1>5. Rows(e)
    BY <1>1, <1>2, <1>4 DEF Rows
  <1>6. ListInv(e)
    BY <1>1, <1>3, <1>4, <1>5, ListSame
  <1> QED
    BY <1>6 DEF e

\* The highlight moves to another row, which is drawn and the old one too.
LEMMA ListHighlighted ==
    ASSUME NEW d, ListInv(d), d.out = Open, NEW i \in 0 .. MaxChoice(d) - 1
    PROVE  ListInv(Highlighted(d, i))
  <1> DEFINE s == d.scroll  c == d.choice  m == MaxChoice(d)
  <1>1. IsList(d) /\ DOMAIN d = ListFields /\ d = [f \in ListFields |-> d[f]] /\ Rows(d) /\ d.chosen = -1 /\ d.resizes \in Nat
    BY DEF ListInv, IsChecklist, IsList, Sized, ListFields
  <1>2. s \in 0 .. d.n - m /\ c \in 0 .. m - 1
    BY <1>1 DEF Rows
  <1>3. CASE i = c
    BY <1>3 DEF Highlighted
  <1>4. CASE i # c
    <2> DEFINE off == print_item(d, s + c, c, 0)
               on == print_item(off, s + i, i, 1)
    <2>1. off = Placed(d, s, c, -1)
      <3>1. d = Placed(d, s, c, c)
        BY <1>1, SelfPlaced
      <3>2. c \in {c, -1} /\ 0 \in {0, 1} /\ (IF 0 = 1 THEN c ELSE -1) = -1
        OBVIOUS
      <3> HIDE DEF m, s, c
      <3>3. print_item(Placed(d, s, c, c), s + c, c, 0) = Placed(d, s, c, IF 0 = 1 THEN c ELSE -1)
        BY <1>1, <1>2, <3>2, PlacedDrawn DEF m
      <3> QED
        BY <3>1, <3>2, <3>3
    <2>2. on = Placed(d, s, c, i)
      <3>1. -1 \in {i, -1} /\ 1 \in {0, 1} /\ (IF 1 = 1 THEN i ELSE -1) = i
        OBVIOUS
      <3> HIDE DEF s, c, off
      <3>2. print_item(Placed(d, s, c, -1), s + i, i, 1) = Placed(d, s, c, IF 1 = 1 THEN i ELSE -1)
        BY <1>1, <1>2, <3>1, PlacedDrawn DEF m
      <3> QED
        BY <2>1, <3>1, <3>2
    <2>3. Highlighted(d, i) = Choose(on, i)
      BY <1>4 DEF Highlighted, Choose
    <2> HIDE DEF off, on
    <2>4. Choose(on, i) = Placed(d, s, i, i)
      BY <1>1, <2>2, ViewTwice DEF Placed
    <2> QED
      BY <1>1, <1>2, <2>3, <2>4, ListPlaced
  <1> QED
    BY <1>3, <1>4

\* The highlight leaves the window, with an item there: the list is scrolled.
LEMMA ListScrolled ==
    ASSUME NEW d, ListInv(d), d.out = Open, NEW k \in {1, -1}, d.scroll + k \in 0 .. d.n - MaxChoice(d),
           d.choice = IF k = 1 THEN MaxChoice(d) - 1 ELSE 0
    PROVE  ListInv(Scrolled(d, k))
  <1> DEFINE s == d.scroll  c == d.choice  m == MaxChoice(d)
             off == print_item(d, s + c, c, 0)
             u == IF d.height > 1 THEN do_scroll(off, k) ELSE [d EXCEPT !.scroll = @ + k]
             on == print_item(u, u.scroll + c, c, 1)
  <1>1. IsList(d) /\ d = [f \in ListFields |-> d[f]] /\ Rows(d)
    BY DEF ListInv, IsChecklist, IsList, Sized, ListFields
  <1>2. s \in 0 .. d.n - m /\ c \in 0 .. m - 1 /\ d.height \in Nat /\ m \in 1 .. d.height
    BY <1>1, MaxChoiceIs DEF Rows, IsList
  <1>3. Scrolled(d, k) = on
    <2>1. (IF k = -1 THEN 0 ELSE m - 1) = c
      OBVIOUS
    <2> HIDE DEF c
    <2> QED
      BY <2>1 DEF Scrolled
  <1>4. d = Placed(d, s, c, c)
    BY <1>1, SelfPlaced
  <1>5. on = Placed(d, s + k, c, c)
    <2>1. CASE d.height > 1
      <3>1. c \in {c, -1} /\ 0 \in {0, 1} /\ 1 \in {0, 1} /\ (IF 0 = 1 THEN c ELSE -1) = -1 /\ (IF 1 = 1 THEN c ELSE -1) = c
        OBVIOUS
      <3> DEFINE v == do_scroll(Placed(d, s, c, -1), k)
      <3>2. off = Placed(d, s, c, -1)
        <4> HIDE DEF m, s, c
        <4>1. print_item(Placed(d, s, c, c), s + c, c, 0) = Placed(d, s, c, IF 0 = 1 THEN c ELSE -1)
          BY <1>1, <1>2, <3>1, PlacedDrawn DEF m
        <4> QED
          BY <1>4, <3>1, <4>1 DEF s, c
      <3>3. u = v
        BY <2>1, <3>2
      <3>4. v.scroll = s + k /\ print_item(v, (s + k) + c, c, 1) = Placed(d, s + k, c, IF 1 = 1 THEN c ELSE -1)
        <4>1. c = IF k = 1 THEN m - 1 ELSE 0
          OBVIOUS
        <4> HIDE DEF c, m, s
        <4>2. s + k \in 0 .. d.n - MaxChoice(d) /\ s \in 0 .. d.n - MaxChoice(d) /\ 1 \in {0, 1}
          BY <1>2 DEF s, m
        <4>3. LET row == IF k = 1 THEN MaxChoice(d) - 1 ELSE 0
                  w == do_scroll(Placed(d, s, c, -1), k)
              IN /\ w.scroll = s + k /\ MaxChoice(w) = MaxChoice(d) /\ w.choice = c
                 /\ print_item(w, (s + k) + row, row, 1) = Placed(d, s + k, c, IF 1 = 1 THEN row ELSE -1)
          BY <1>1, <4>2, PlacedScrolled
        <4> QED
          BY <4>1, <4>3 DEF m
      <3> HIDE DEF u, v
      <3> QED
        BY <3>1, <3>3, <3>4
    <2>2. CASE ~(d.height > 1)
      <3>1. d.height = 1 /\ m = 1 /\ c = 0
        BY <1>2, <2>2
      <3>2. u = View(d, d.rows, s + k, c)
        BY <1>1, <2>2 DEF View, ListFields
      <3>3. u.scroll = s + k
        BY <1>1, <3>2, ViewFields
      <3> HIDE DEF u
      <3>4. on = View(d, Put(d.rows, c, <<(s + k) + c, 1>>), s + k, c)
        BY <1>1, <3>2, <3>3, ViewPrint
      <3>5. Put(d.rows, c, <<(s + k) + c, 1>>) = Window(d.height, m, s + k, c)
        <4> DEFINE w == d.rows  p == Put(w, c, <<(s + k) + c, 1>>)
        <4>1. DOMAIN w = 0 .. 0 /\ 0 .. d.height - 1 = 0 .. 0 /\ d.height \in Int
          <5>1. d.height \in Int /\ d.height - 1 = 0
            BY <3>1
          <5>2. DOMAIN Window(d.height, m, s, c) = 0 .. d.height - 1
            BY <5>1, WindowAt
          <5> QED
            BY <1>1, <5>1, <5>2 DEF Rows
        <4> HIDE DEF w, c
        <4>2. p = [r \in 0 .. 0 |-> p[r]] /\ p[0] = <<(s + k) + c, 1>>
          <5> DEFINE x == <<(s + k) + c, 1>>
          <5>1. 0 \in 0 .. 0
            OBVIOUS
          <5> HIDE DEF x, m
          <5>2. Put(w, c, x) = [r \in 0 .. 0 |-> IF r = 0 THEN x ELSE w[r]]
            BY <3>1, <4>1 DEF Put
          <5> QED
            BY <5>1, <5>2 DEF x
        <4>3. \A r \in 0 .. 0 : p[r] = IF r < m THEN <<(s + k) + r, IF r = c THEN 1 ELSE 0>> ELSE Blank
          <5> HIDE DEF p, m, c, s
          <5> QED
            BY <3>1, <4>2
        <4> HIDE DEF p
        <4>4. p = Window(d.height, m, s + k, c)
          <5>1. p = [r \in 0 .. d.height - 1 |-> p[r]] /\ \A r \in 0 .. d.height - 1 : p[r] = IF r < m THEN <<(s + k) + r, IF r = c THEN 1 ELSE 0>> ELSE Blank
            BY <4>1, <4>2, <4>3
          <5> HIDE DEF m, s
          <5> QED
            BY <4>1, <5>1, WindowIs
        <4> QED
          BY <4>4 DEF p, w
      <3> QED
        BY <3>4, <3>5 DEF Placed
    <2> QED
      BY <2>1, <2>2
  <1> HIDE DEF on
  <1>6. ListInv(Placed(d, s + k, c, c))
    <2>1. c \in 0 .. MaxChoice(d) - 1 /\ s + k \in 0 .. d.n - MaxChoice(d)
      BY <1>2
    <2> HIDE DEF s, c
    <2> QED
      BY <2>1, ListPlaced
  <1> QED
    BY <1>3, <1>5, <1>6

\* An arrow or a hot key.
LEMMA ListMovedInv ==
    ASSUME NEW d, ListInv(d), d.out = Open, NEW key, key \in {"up", "down"} \/ HotItem(d, key) < MaxChoice(d)
    PROVE  ListInv(ListMoved(d, key))
  <1> DEFINE m == MaxChoice(d)
  <1>1. IsList(d) /\ Rows(d) /\ d.n \in Nat
    BY DEF ListInv, IsChecklist, IsList, Sized, ListFields
  <1>2. d.scroll \in 0 .. d.n - m /\ d.choice \in 0 .. m - 1 /\ m \in Nat
    BY <1>1, MaxChoiceIs DEF Rows, IsList
  <1>3. CASE key = "up" /\ d.choice = 0 /\ d.scroll # 0
    <2>1. d.scroll + -1 \in 0 .. d.n - MaxChoice(d) /\ -1 \in {1, -1} /\ d.choice = (IF -1 = 1 THEN MaxChoice(d) - 1 ELSE 0)
      BY <1>1, <1>2, <1>3
    <2>2. ListInv(Scrolled(d, -1))
      BY <2>1, ListScrolled
    <2> QED
      BY <1>3, <2>2 DEF ListMoved
  <1>4. CASE key = "up" /\ d.choice = 0 /\ d.scroll = 0
    BY <1>4 DEF ListMoved
  <1>5. CASE key = "up" /\ d.choice # 0
    <2>1. d.choice - 1 \in 0 .. MaxChoice(d) - 1
      BY <1>2, <1>5
    <2> QED
      BY <1>5, <2>1, ListHighlighted DEF ListMoved
  <1>6. CASE key = "down" /\ d.choice = m - 1 /\ ~(d.scroll + d.choice >= d.n - 1)
    <2>1. d.scroll + 1 \in 0 .. d.n - MaxChoice(d) /\ 1 \in {1, -1} /\ d.choice = (IF 1 = 1 THEN MaxChoice(d) - 1 ELSE 0)
      BY <1>1, <1>2, <1>6
    <2>2. ListInv(Scrolled(d, 1))
      BY <2>1, ListScrolled
    <2> QED
      BY <1>6, <2>2 DEF ListMoved
  <1>7. CASE key = "down" /\ d.choice = m - 1 /\ d.scroll + d.choice >= d.n - 1
    BY <1>7 DEF ListMoved
  <1>8. CASE key = "down" /\ d.choice # m - 1
    <2>1. d.choice + 1 \in 0 .. MaxChoice(d) - 1
      BY <1>2, <1>8
    <2> QED
      BY <1>8, <2>1, ListHighlighted DEF ListMoved
  <1>9. CASE key \notin {"up", "down"}
    <2> DEFINE T == {r \in 0 .. m - 1 : HotKey(d.scroll + r) = key} \cup {m}
    <2>1. T \subseteq Nat /\ T # {}
      BY <1>2
    <2>2. HotItem(d, key) = Min(T) /\ HotItem(d, key) < m
      BY <1>9 DEF HotItem
    <2>3. Min(T) \in T
      <3> HIDE DEF T
      <3> QED
        BY <2>1, MinNat
    <2>4. HotItem(d, key) \in 0 .. MaxChoice(d) - 1
      BY <1>2, <2>2, <2>3
    <2> QED
      BY <1>9, <2>4, ListHighlighted DEF ListMoved
  <1> QED
    BY <1>3, <1>4, <1>5, <1>6, <1>7, <1>8, <1>9

\* A key that turns the buttons, and one that cancels.
LEMMA ListTurned ==
    ASSUME NEW d, ListInv(d), d.out = Open, NEW key, NEW x
    PROVE  ListInv(Turned(d, key, 2)) /\ ListInv([d EXCEPT !.out = x])
  <1> DEFINE r == (IF key = "left" THEN d.button - 1 ELSE d.button + 1) % 2
  <1>1. DOMAIN d = ListFields /\ Rows(d) /\ d.resizes \in Nat /\ d.button \in {0, 1}
    BY DEF ListInv, IsChecklist, Sized
  <1>2. r \in {0, 1}
    BY <1>1
  <1> HIDE DEF r
  <1>3. ASSUME NEW e, e \in {[d EXCEPT !.button = r, !.shown = r], [d EXCEPT !.out = x]} PROVE ListInv(e)
    <2>1. /\ e = [f \in ListFields |-> e[f]]
          /\ \A f \in ListFields : f \notin {"button", "shown", "out"} => e[f] = d[f]
          /\ e.shown = e.button \/ (e.shown = d.shown /\ e.button = d.button)
          /\ e.button \in {0, 1}
      BY <1>1, <1>2, <1>3 DEF ListFields
    <2>2. \A f \in {"kind", "rows", "scroll", "choice", "n", "height", "resizes", "chosen"} : f \in ListFields /\ e[f] = d[f]
      BY <2>1 DEF ListFields
    <2>3. Rows(e)
      BY <1>1, <2>1, <2>2, RowsSame DEF Rows
    <2>4. e.resizes \in Nat /\ \A f \in {"kind", "n", "height", "chosen"} : e[f] = d[f]
      BY <1>1, <2>2
    <2> QED
      BY <2>1, <2>3, <2>4, ListSame
  <1>4. Turned(d, key, 2) = [d EXCEPT !.button = r, !.shown = r]
    BY DEF Turned, r
  <1> QED
    BY <1>3, <1>4

\* A choice is made.
LEMMA ListChosen ==
    ASSUME NEW d, ListInv(d), d.out = Open, NEW y, y # Open
    PROVE  ListInv([d EXCEPT !.chosen = d.scroll + d.choice, !.out = y])
  <1> DEFINE x == d.scroll + d.choice  e == [d EXCEPT !.chosen = x, !.out = y]
  <1>1. DOMAIN d = ListFields /\ Rows(d) /\ Sized(d) /\ d.kind = "list" /\ d.button \in {0, 1} /\ IsList(d)
    BY DEF ListInv, IsChecklist, Sized, IsList, ListFields
  <1>2. d.rows[d.choice] = <<x, 1>>
    <2>1. /\ d.choice \in 0 .. d.height - 1 /\ d.choice < MaxChoice(d) /\ d.height \in Int
          /\ d.rows = Window(d.height, MaxChoice(d), d.scroll, d.choice)
      BY <1>1, MaxChoiceIs DEF Rows, IsList
    <2>2. Window(d.height, MaxChoice(d), d.scroll, d.choice)[d.choice] = <<d.scroll + d.choice, IF d.choice = d.choice THEN 1 ELSE 0>>
      BY <2>1, WindowAt
    <2> QED
      BY <2>1, <2>2
  <1> HIDE DEF x
  <1>3. /\ e = [f \in ListFields |-> e[f]] /\ e.chosen = x /\ e.out = y
        /\ \A f \in ListFields : f \notin {"chosen", "out"} => e[f] = d[f]
    BY <1>1 DEF ListFields
  <1> HIDE DEF e
  <1>4. \A f \in {"kind", "rows", "scroll", "choice", "n", "height", "resizes", "shown", "button"} : f \in ListFields /\ e[f] = d[f]
    BY <1>3 DEF ListFields
  <1>5. Rows(e)
    BY <1>1, <1>4, RowsSame DEF Rows
  <1>6. IsChecklist(e)
    BY <1>1, <1>3, <1>4 DEF IsChecklist, Sized
  <1>7. e.rows = d.rows /\ e.choice = d.choice
    BY <1>4
  <1>8. ListInv(e)
    BY <1>2, <1>3, <1>5, <1>6, <1>7 DEF ListInv
  <1> QED
    BY <1>8 DEF e, x

\* The list, whatever key.
LEMMA ListKept ==
    ASSUME NEW key, dialog_checklist(key), ListInv(dlg)
    PROVE  ListInv(dlg')
  <1> DEFINE d == dlg  moves == key \in {"up", "down"} \/ HotItem(d, key) < MaxChoice(d)
  <1>1. d.out = Open /\ d.button # Open
    BY DEF dialog_checklist, ListInv, IsChecklist, Open
  <1>2. dlg' = CASE moves -> ListMoved(d, key)
                 [] ~moves /\ key \in {"left", "tab"} -> Turned(d, key, 2)
                 [] ~moves /\ key \in {"h", "s", "enter"} ->
                        [d EXCEPT !.chosen = d.scroll + d.choice, !.out = IF key = "h" THEN 1 ELSE d.button]
                 [] ~moves /\ key \in {"x", KEY_ESC} -> [d EXCEPT !.out = Escaped]
                 [] OTHER -> d
    BY DEF dialog_checklist
  <1>3. moves => ListInv(ListMoved(d, key))
    BY <1>1, ListMovedInv
  <1>4. ListInv(Turned(d, key, 2)) /\ ListInv([d EXCEPT !.out = Escaped])
    BY <1>1, ListTurned
  <1>5. ListInv([d EXCEPT !.chosen = d.scroll + d.choice, !.out = IF key = "h" THEN 1 ELSE d.button])
    <2> DEFINE y == IF key = "h" THEN 1 ELSE d.button
    <2>1. y # Open
      BY <1>1 DEF Open
    <2> HIDE DEF y
    <2>2. ListInv([d EXCEPT !.chosen = d.scroll + d.choice, !.out = y])
      BY <1>1, <2>1, ListChosen
    <2> QED
      BY <2>2 DEF y
  <1> HIDE DEF moves, d
  <1> QED
    BY <1>2, <1>3, <1>4, <1>5 DEF KEY_ESC, d

(***************************************************************************)
(* A line of input.                                                        *)
(***************************************************************************)
\* What is typed, in the array, and in the field from its character s on.
Array(t) == [i \in 0 .. MAX_LEN |-> IF i < Len(t) THEN t[i + 1] ELSE Nul]
Field(t, s) == [i \in 0 .. BoxWidth - 1 |-> IF s + i < Len(t) THEN t[s + i + 1] ELSE "space"]

InputFields == {"kind", "instr", "len", "pos", "show_x", "input_x", "cells", "button", "shown", "out", "resizes", "before", "after"}
Typed(d) == d.before \o d.after
IsInput(d) ==
    /\ d = [f \in InputFields |-> d[f]] /\ d.kind = "input"
    /\ d.before \in Seq(Printable) /\ d.after \in Seq(Printable) /\ Len(Typed(d)) <= MAX_LEN
    /\ d.button \in -1 .. 1 /\ d.resizes \in Nat
InputInv(d) ==
    /\ IsInput(d)
    /\ d.len = Len(Typed(d)) /\ d.pos = Len(d.before) /\ d.instr = Array(Typed(d))
    /\ d.show_x \in Nat /\ d.input_x \in 0 .. BoxWidth - 1 /\ d.show_x + d.input_x = d.pos
    /\ d.cells = Field(Typed(d), d.show_x)
    /\ d.resizes = 0 => d.shown = Max({d.button, 0})

\* What two sequences are together.
LEMMA JoinedIs ==
    ASSUME NEW S, NEW a \in Seq(S), NEW b \in Seq(S)
    PROVE  /\ a \o b \in Seq(S) /\ Len(a) \in Nat /\ Len(b) \in Nat /\ Len(a \o b) = Len(a) + Len(b)
           /\ \A i \in 1 .. Len(a) + Len(b) : (a \o b)[i] = IF i <= Len(a) THEN a[i] ELSE b[i - Len(a)]
  OBVIOUS

\* All but the last of a sequence.
LEMMA FrontIs ==
    ASSUME NEW S, NEW a \in Seq(S), Len(a) # 0
    PROVE  /\ SubSeq(a, 1, Len(a) - 1) \in Seq(S) /\ Len(SubSeq(a, 1, Len(a) - 1)) = Len(a) - 1
           /\ \A i \in 1 .. Len(a) - 1 : SubSeq(a, 1, Len(a) - 1)[i] = a[i]
  OBVIOUS

\* The array ends where the typed characters end.
LEMMA ArrayIs ==
    ASSUME NEW t \in Seq(Printable), Len(t) <= MAX_LEN
    PROVE  /\ DOMAIN Array(t) = 0 .. MAX_LEN
           /\ \A i \in 0 .. MAX_LEN : Array(t)[i] = IF i < Len(t) THEN t[i + 1] ELSE Nul
           /\ \A i \in 0 .. MAX_LEN : Array(t)[i] = Nul <=> i >= Len(t)
           /\ strlen(Array(t)) = Len(t)
  <1>1. MAX_LEN \in Nat /\ Len(t) \in Nat
    BY LxAssumption
  <1>2. DOMAIN Array(t) = 0 .. MAX_LEN /\ \A i \in 0 .. MAX_LEN : Array(t)[i] = IF i < Len(t) THEN t[i + 1] ELSE Nul
    BY DEF Array
  <1>3. \A i \in 1 .. Len(t) : t[i] # Nul
    BY DEF Printable, Nul
  <1>4. \A i \in 0 .. MAX_LEN : Array(t)[i] = Nul <=> i >= Len(t)
    <2> TAKE i \in 0 .. MAX_LEN
    <2>1. CASE i < Len(t)
      <3>1. i + 1 \in 1 .. Len(t) /\ Array(t)[i] = t[i + 1]
        BY <1>1, <1>2, <2>1
      <3> QED
        BY <1>1, <1>3, <2>1, <3>1
    <2>2. CASE ~(i < Len(t))
      BY <1>1, <1>2, <2>2
    <2> QED
      BY <2>1, <2>2
  <1> DEFINE T == {i \in DOMAIN Array(t) : Array(t)[i] = Nul}
  <1>5. T = {i \in 0 .. MAX_LEN : i >= Len(t)}
    BY <1>2, <1>4
  <1>6. Min(T) = Len(t)
    <2>1. T \subseteq Int /\ Len(t) \in T /\ \A x \in T : Len(t) <= x
      BY <1>1, <1>5
    <2> HIDE DEF T
    <2> QED
      BY <2>1, MinIs
  <1> QED
    BY <1>2, <1>4, <1>6 DEF strlen

\* The field is drawn anew, where nothing but spaces was behind the end.
LEMMA FieldDrawn ==
    ASSUME NEW d, {"instr", "show_x", "cells"} \subseteq DOMAIN d,
           NEW t \in Seq(Printable), Len(t) <= MAX_LEN, d.instr = Array(t), d.show_x \in 0 .. Len(t),
           DOMAIN d.cells = 0 .. BoxWidth - 1, \A i \in 0 .. BoxWidth - 1 : d.show_x + i > Len(t) => d.cells[i] = "space"
    PROVE  DrawField(d) = [d EXCEPT !.cells = Field(t, d.show_x)]
  <1> DEFINE s == d.show_x  n == Len(t)  w == BoxWidth
             T == {i \in 0 .. w - 1 : d.instr[s + i] = Nul} \cup {w}
             ends == IF n - s < w THEN n - s ELSE w
             new == [i \in DOMAIN d.cells |-> IF i < ends THEN d.instr[s + i] ELSE IF i = ends THEN "space" ELSE d.cells[i]]
  <1>1. n \in Nat /\ s \in 0 .. n /\ MAX_LEN \in Nat /\ w \in Nat \ {0} /\ n <= MAX_LEN
    BY LxAssumption
  <1>2. \A i \in 0 .. MAX_LEN : /\ d.instr[i] = IF i < n THEN t[i + 1] ELSE Nul
                                /\ d.instr[i] = Nul <=> i >= n
    BY ArrayIs
  <1>3. Min(T) = ends
    <2> HIDE DEF n, s, w
    <2>1. \A i \in 0 .. w - 1 : i < n - s => i \notin T
      <3> TAKE i \in 0 .. w - 1
      <3>1. CASE i < n - s
        <4>1. s + i \in 0 .. MAX_LEN /\ ~(s + i >= n) /\ i # w
          BY <1>1, <3>1
        <4> QED
          BY <1>2, <4>1
      <3> QED
        BY <3>1
    <2>2. n - s < w => n - s \in T
      <3>1. CASE n - s < w
        <4>1. n - s \in 0 .. w - 1 /\ s + (n - s) = n /\ n \in 0 .. MAX_LEN /\ n >= n
          BY <1>1, <3>1
        <4> QED
          BY <1>2, <4>1
      <3> QED
        BY <3>1
    <2>3. T \subseteq 0 .. w /\ w \in T
      BY <1>1
    <2> HIDE DEF T
    <2>4. T \subseteq Int /\ ends \in T /\ \A x \in T : ends <= x
      BY <1>1, <2>1, <2>2, <2>3
    <2> QED
      BY <2>4, MinIs
  <1>4. DrawField(d) = [d EXCEPT !.cells = new]
    BY <1>3 DEF DrawField
  <1>5. new = Field(t, s)
    <2>1. ASSUME NEW i \in 0 .. w - 1 PROVE new[i] = IF s + i < n THEN t[s + i + 1] ELSE "space"
      <3>1. new[i] = IF i < ends THEN d.instr[s + i] ELSE IF i = ends THEN "space" ELSE d.cells[i]
        OBVIOUS
      <3>2. s + i > n => d.cells[i] = "space"
        OBVIOUS
      <3> HIDE DEF new, n, s, w
      <3>3. CASE i < ends
        <4>1. s + i \in 0 .. MAX_LEN /\ s + i < n
          BY <1>1, <3>3
        <4> QED
          BY <1>2, <3>1, <3>3, <4>1
      <3>4. CASE i = ends
        BY <1>1, <3>1, <3>4
      <3>5. CASE i > ends
        <4>1. s + i > n
          BY <1>1, <3>5
        <4> QED
          BY <1>1, <3>1, <3>2, <3>5, <4>1
      <3> QED
        BY <1>1, <3>3, <3>4, <3>5
    <2>2. new = [i \in 0 .. w - 1 |-> new[i]]
      OBVIOUS
    <2> HIDE DEF new
    <2> QED
      BY <2>1, <2>2 DEF Field
  <1> QED
    BY <1>4, <1>5

\* Sequences are equal when their elements are.
LEMMA SameSequence ==
    ASSUME NEW S, NEW a \in Seq(S), NEW b \in Seq(S), Len(a) = Len(b), \A i \in 1 .. Len(a) : a[i] = b[i]
    PROVE  a = b
  OBVIOUS

\* The cursor moves to the left: what is before and after it, and together ...
LEMMA MovedLeft ==
    ASSUME NEW S, NEW a \in Seq(S), NEW b \in Seq(S), Len(a) # 0
    PROVE  LET x == SubSeq(a, 1, Len(a) - 1)  y == <<a[Len(a)]>> \o b
           IN x \in Seq(S) /\ y \in Seq(S) /\ Len(x) = Len(a) - 1 /\ x \o y = a \o b
  <1>1. Len(a) \in Nat /\ Len(b) \in Nat
    OBVIOUS
  <1> DEFINE x == SubSeq(a, 1, Len(a) - 1)  z == <<a[Len(a)]>>  y == z \o b
  <1>2. x \in Seq(S) /\ Len(x) = Len(a) - 1 /\ \A i \in 1 .. Len(a) - 1 : x[i] = a[i]
    BY FrontIs
  <1>3. z \in Seq(S) /\ Len(z) = 1 /\ z[1] = a[Len(a)]
    BY <1>1
  <1> HIDE DEF x, z
  <1>4. y \in Seq(S) /\ Len(y) = Len(b) + 1 /\ \A i \in 1 .. Len(b) + 1 : y[i] = IF i <= 1 THEN z[i] ELSE b[i - 1]
    <2>1. /\ z \o b \in Seq(S) /\ Len(z \o b) = Len(z) + Len(b)
          /\ \A i \in 1 .. Len(z) + Len(b) : (z \o b)[i] = IF i <= Len(z) THEN z[i] ELSE b[i - Len(z)]
      BY <1>3, JoinedIs
    <2>2. Len(z) + Len(b) = Len(b) + 1
      BY <1>1, <1>3
    <2> QED
      BY <1>3, <2>1, <2>2
  <1> HIDE DEF y
  <1>5. x \o y \in Seq(S) /\ Len(x \o y) = Len(a) + Len(b)
        /\ \A i \in 1 .. Len(a) + Len(b) : (x \o y)[i] = IF i <= Len(a) - 1 THEN x[i] ELSE y[i - (Len(a) - 1)]
    <2>1. (Len(a) - 1) + (Len(b) + 1) = Len(a) + Len(b)
      BY <1>1
    <2>2. /\ x \o y \in Seq(S) /\ Len(x \o y) = Len(x) + Len(y)
          /\ \A i \in 1 .. Len(x) + Len(y) : (x \o y)[i] = IF i <= Len(x) THEN x[i] ELSE y[i - Len(x)]
      BY <1>2, <1>4, JoinedIs
    <2>3. Len(x) + Len(y) = Len(a) + Len(b) /\ Len(x) = Len(a) - 1
      BY <1>2, <1>4, <2>1
    <2> QED
      BY <2>2, <2>3
  <1>6. a \o b \in Seq(S) /\ Len(a \o b) = Len(a) + Len(b)
        /\ \A i \in 1 .. Len(a) + Len(b) : (a \o b)[i] = IF i <= Len(a) THEN a[i] ELSE b[i - Len(a)]
    BY JoinedIs
  <1> DEFINE u == x \o y  v == a \o b
  <1> HIDE DEF u, v
  <1>7. ASSUME NEW i \in 1 .. Len(a) + Len(b) PROVE u[i] = v[i]
    <2>1. CASE i <= Len(a) - 1
      BY <1>1, <1>2, <1>5, <1>6, <2>1 DEF u, v
    <2>2. CASE i = Len(a)
      <3>1. i - (Len(a) - 1) = 1 /\ 1 \in 1 .. Len(b) + 1 /\ ~(i <= Len(a) - 1) /\ i <= Len(a)
        BY <1>1, <2>2
      <3> QED
        BY <1>3, <1>4, <1>5, <1>6, <2>2, <3>1 DEF u, v
    <2>3. CASE i > Len(a)
      <3>1. i - (Len(a) - 1) \in 1 .. Len(b) + 1 /\ ~(i - (Len(a) - 1) <= 1) /\ (i - (Len(a) - 1)) - 1 = i - Len(a)
            /\ ~(i <= Len(a) - 1) /\ ~(i <= Len(a))
        BY <1>1, <2>3
      <3> QED
        BY <1>4, <1>5, <1>6, <3>1 DEF u, v
    <2> QED
      BY <1>1, <2>1, <2>2, <2>3
  <1>8. u = v
    BY <1>5, <1>6, <1>7, SameSequence DEF u, v
  <1> QED
    BY <1>2, <1>4, <1>8 DEF u, v, x, y, z

\* ... and to the right.
LEMMA MovedRight ==
    ASSUME NEW S, NEW a \in Seq(S), NEW b \in Seq(S), Len(b) # 0
    PROVE  LET x == Append(a, Head(b))  y == Tail(b)
           IN x \in Seq(S) /\ y \in Seq(S) /\ Len(x) = Len(a) + 1 /\ x \o y = a \o b
  <1>1. Len(a) \in Nat /\ Len(b) \in Nat
    OBVIOUS
  <1> DEFINE x == Append(a, Head(b))  y == Tail(b)
  <1>2. b # <<>> /\ 1 \in 1 .. Len(b) /\ Head(b) = b[1] /\ b[1] \in S
    BY <1>1
  <1>3. x \in Seq(S) /\ Len(x) = Len(a) + 1 /\ \A i \in 1 .. Len(a) + 1 : x[i] = IF i = Len(a) + 1 THEN b[1] ELSE a[i]
    BY <1>1, <1>2
  <1>4. y \in Seq(S) /\ Len(y) = Len(b) - 1 /\ \A i \in 1 .. Len(b) - 1 : y[i] = b[i + 1]
    BY <1>1, <1>2
  <1> HIDE DEF x, y
  <1> DEFINE u == x \o y  v == a \o b
  <1>5. u \in Seq(S) /\ Len(u) = Len(a) + Len(b)
        /\ \A i \in 1 .. Len(a) + Len(b) : u[i] = IF i <= Len(a) + 1 THEN x[i] ELSE y[i - (Len(a) + 1)]
    <2>1. (Len(a) + 1) + (Len(b) - 1) = Len(a) + Len(b)
      BY <1>1
    <2>2. /\ x \o y \in Seq(S) /\ Len(x \o y) = Len(x) + Len(y)
          /\ \A i \in 1 .. Len(x) + Len(y) : (x \o y)[i] = IF i <= Len(x) THEN x[i] ELSE y[i - Len(x)]
      BY <1>3, <1>4, JoinedIs
    <2>3. Len(x) + Len(y) = Len(a) + Len(b) /\ Len(x) = Len(a) + 1
      BY <1>3, <1>4, <2>1
    <2> QED
      BY <2>2, <2>3 DEF u
  <1>6. v \in Seq(S) /\ Len(v) = Len(a) + Len(b)
        /\ \A i \in 1 .. Len(a) + Len(b) : v[i] = IF i <= Len(a) THEN a[i] ELSE b[i - Len(a)]
    BY JoinedIs
  <1> HIDE DEF u, v
  <1>7. ASSUME NEW i \in 1 .. Len(a) + Len(b) PROVE u[i] = v[i]
    <2>1. CASE i <= Len(a)
      BY <1>1, <1>3, <1>5, <1>6, <2>1
    <2>2. CASE i = Len(a) + 1
      <3>1. i - Len(a) = 1 /\ ~(i <= Len(a)) /\ i <= Len(a) + 1 /\ i \in 1 .. Len(a) + 1
        BY <1>1, <2>2
      <3> QED
        BY <1>3, <1>5, <1>6, <2>2, <3>1
    <2>3. CASE i > Len(a) + 1
      <3>1. i - (Len(a) + 1) \in 1 .. Len(b) - 1 /\ (i - (Len(a) + 1)) + 1 = i - Len(a) /\ ~(i <= Len(a)) /\ ~(i <= Len(a) + 1)
        BY <1>1, <2>3
      <3> QED
        BY <1>4, <1>5, <1>6, <3>1
    <2> QED
      BY <1>1, <2>1, <2>2, <2>3
  <1>8. u = v
    BY <1>5, <1>6, <1>7, SameSequence
  <1> QED
    BY <1>3, <1>4, <1>8 DEF u, v, x, y

\* A line that is drawn anew.
LEMMA InputDrawn ==
    ASSUME NEW g, IsInput(g), g.len = Len(Typed(g)), g.pos = Len(g.before), g.instr = Array(Typed(g)),
           g.show_x \in Nat, g.input_x \in 0 .. BoxWidth - 1, g.show_x + g.input_x = g.pos,
           g.resizes = 0 => g.shown = Max({g.button, 0}),
           NEW t \in Seq(Printable), NEW s \in Nat, g.cells = Field(t, s),
           \A i \in 0 .. BoxWidth - 1 : g.show_x + i > g.len => s + i >= Len(t)
    PROVE  InputInv(DrawField(g))
  <1> DEFINE e == DrawField(g)
  <1>1. DOMAIN g = InputFields /\ Typed(g) \in Seq(Printable) /\ Len(Typed(g)) <= MAX_LEN
    BY JoinedIs DEF IsInput, Typed
  <1>2. g.show_x \in 0 .. Len(Typed(g))
    <2>1. BoxWidth \in Nat /\ MAX_LEN \in Nat
      BY LxAssumption
    <2>2. Len(Typed(g)) = Len(g.before) + Len(g.after) /\ Len(g.before) \in Nat /\ Len(g.after) \in Nat
      BY JoinedIs DEF IsInput, Typed
    <2>3. g.input_x \in Nat /\ g.pos = Len(g.before)
      BY <2>1
    <2> DEFINE p == Len(g.before)  q == Len(g.after)  n == Len(Typed(g))
    <2>4. n = p + q /\ p \in Nat /\ q \in Nat /\ g.show_x + g.input_x = p
      BY <2>2, <2>3
    <2> HIDE DEF p, q, n
    <2>5. g.show_x \in 0 .. n
      BY <2>3, <2>4
    <2> QED
      BY <2>5 DEF n
  <1>3. DOMAIN g.cells = 0 .. BoxWidth - 1 /\ \A i \in 0 .. BoxWidth - 1 : g.show_x + i > Len(Typed(g)) => g.cells[i] = "space"
    <2>1. Len(t) \in Nat /\ BoxWidth \in Nat
      BY LxAssumption
    <2>2. DOMAIN g.cells = 0 .. BoxWidth - 1 /\ \A i \in 0 .. BoxWidth - 1 : s + i >= Len(t) => g.cells[i] = "space"
      <3> DEFINE F == Field(t, s)
      <3>1. DOMAIN F = 0 .. BoxWidth - 1 /\ \A i \in 0 .. BoxWidth - 1 : s + i >= Len(t) => F[i] = "space"
        BY <2>1 DEF Field
      <3> HIDE DEF F
      <3>2. g.cells = F
        BY DEF F
      <3> QED
        BY <3>1, <3>2
    <2> QED
      BY <2>2
  <1>4. e = [g EXCEPT !.cells = Field(Typed(g), g.show_x)]
    BY <1>1, <1>2, <1>3, FieldDrawn DEF InputFields
  <1> HIDE DEF e
  <1>5. /\ e = [f \in InputFields |-> e[f]] /\ e.cells = Field(Typed(g), g.show_x)
        /\ \A f \in InputFields : f # "cells" => e[f] = g[f]
    BY <1>1, <1>4 DEF InputFields
  <1>6. /\ e.kind = g.kind /\ e.instr = g.instr /\ e.len = g.len /\ e.pos = g.pos /\ e.show_x = g.show_x /\ e.input_x = g.input_x
        /\ e.button = g.button /\ e.shown = g.shown /\ e.resizes = g.resizes /\ e.before = g.before /\ e.after = g.after
    BY <1>5 DEF InputFields
  <1>7. InputInv(e)
    BY <1>5, <1>6 DEF InputInv, IsInput, Typed
  <1> QED
    BY <1>7 DEF e

\* The characters behind a deleted one move to the left ...
LEMMA ArrayDeleted ==
    ASSUME NEW a \in Seq(Printable), NEW b \in Seq(Printable), Len(a) # 0, Len(a) + Len(b) <= MAX_LEN
    PROVE  LET t == a \o b  x == SubSeq(a, 1, Len(a) - 1)
               moved == [i \in DOMAIN Array(t) |-> IF i = Len(t) - 1 THEN Nul
                                                   ELSE IF i \in Len(a) - 1 .. Len(t) - 1 THEN Array(t)[i + 1] ELSE Array(t)[i]]
           IN x \in Seq(Printable) /\ Len(x) = Len(a) - 1 /\ Len(x \o b) = Len(t) - 1 /\ moved = Array(x \o b)
  <1> DEFINE t == a \o b  x == SubSeq(a, 1, Len(a) - 1)  u == x \o b  p == Len(a)  n == Len(t)
             moved == [i \in DOMAIN Array(t) |-> IF i = n - 1 THEN Nul
                                                 ELSE IF i \in p - 1 .. n - 1 THEN Array(t)[i + 1] ELSE Array(t)[i]]
  <1>1. p \in Nat \ {0} /\ Len(b) \in Nat /\ MAX_LEN \in Nat
    BY LxAssumption
  <1>2. x \in Seq(Printable) /\ Len(x) = p - 1 /\ \A i \in 1 .. p - 1 : x[i] = a[i]
    BY FrontIs
  <1>3. t \in Seq(Printable) /\ n = p + Len(b) /\ \A i \in 1 .. p + Len(b) : t[i] = IF i <= p THEN a[i] ELSE b[i - p]
    BY JoinedIs
  <1> HIDE DEF p, x
  <1>4. u \in Seq(Printable) /\ Len(u) = (p - 1) + Len(b)
        /\ \A i \in 1 .. (p - 1) + Len(b) : u[i] = IF i <= p - 1 THEN x[i] ELSE b[i - (p - 1)]
    BY <1>1, <1>2, JoinedIs
  <1> HIDE DEF t, u
  <1>5. /\ DOMAIN Array(t) = 0 .. MAX_LEN /\ Array(u) = [i \in 0 .. MAX_LEN |-> Array(u)[i]]
        /\ \A i \in 0 .. MAX_LEN : Array(t)[i] = IF i < n THEN t[i + 1] ELSE Nul
        /\ \A i \in 0 .. MAX_LEN : Array(u)[i] = IF i < Len(u) THEN u[i + 1] ELSE Nul
    BY DEF Array
  <1>6. n = p + Len(b) /\ Len(u) = n - 1 /\ n <= MAX_LEN /\ n \in Nat /\ p <= n
    BY <1>1, <1>3, <1>4 DEF p
  <1> HIDE DEF n
  <1>7. ASSUME NEW i \in 0 .. MAX_LEN PROVE moved[i] = Array(u)[i]
    <2>1. moved[i] = IF i = n - 1 THEN Nul ELSE IF i \in p - 1 .. n - 1 THEN Array(t)[i + 1] ELSE Array(t)[i]
      BY <1>5
    <2> HIDE DEF moved
    <2>2. CASE i >= n
      BY <1>1, <1>5, <1>6, <2>1, <2>2
    <2>3. CASE i = n - 1
      BY <1>1, <1>5, <1>6, <2>1, <2>3
    <2>4. CASE i < n - 1 /\ i >= p - 1
      <3>1. i + 1 \in 0 .. MAX_LEN /\ i + 1 < n /\ (i + 1) + 1 \in 1 .. n /\ ~((i + 1) + 1 <= p) /\ ((i + 1) + 1) - p = (i + 1) - (p - 1)
            /\ i + 1 \in 1 .. n - 1 /\ ~(i + 1 <= p - 1) /\ i < Len(u) /\ (p - 1) + Len(b) = n - 1
        BY <1>1, <1>6, <2>4
      <3>2. moved[i] = Array(t)[i + 1]
        BY <1>1, <1>6, <2>1, <2>4
      <3>3. Array(t)[i + 1] = t[(i + 1) + 1] /\ Array(u)[i] = u[i + 1]
        BY <1>5, <3>1
      <3>4. t[(i + 1) + 1] = b[((i + 1) + 1) - p] /\ u[i + 1] = b[(i + 1) - (p - 1)]
        BY <1>3, <1>4, <1>6, <3>1
      <3> QED
        BY <3>1, <3>2, <3>3, <3>4
    <2>5. CASE i < p - 1
      <3>1. i < n /\ i # n - 1 /\ i \notin p - 1 .. n - 1 /\ i < Len(u) /\ i + 1 \in 1 .. p - 1 /\ i + 1 <= p - 1 /\ i + 1 \in 1 .. n /\ i + 1 <= p
            /\ i + 1 \in 1 .. n - 1 /\ (p - 1) + Len(b) = n - 1
        BY <1>1, <1>6, <2>5
      <3>2. moved[i] = t[i + 1] /\ Array(u)[i] = u[i + 1]
        BY <1>5, <2>1, <3>1
      <3>3. t[i + 1] = a[i + 1] /\ u[i + 1] = x[i + 1] /\ x[i + 1] = a[i + 1]
        BY <1>2, <1>3, <1>4, <1>6, <3>1
      <3> QED
        BY <3>2, <3>3
    <2> QED
      BY <1>1, <1>6, <2>2, <2>3, <2>4, <2>5
  <1>8. moved = Array(u)
    <2>1. moved = [i \in 0 .. MAX_LEN |-> moved[i]]
      BY <1>5
    <2> HIDE DEF moved
    <2> QED
      BY <1>5, <1>7, <2>1
  <1> QED
    BY <1>2, <1>6, <1>8 DEF t, u, x, n, p

\* ... and to the right where one is inserted.
LEMMA ArrayInserted ==
    ASSUME NEW a \in Seq(Printable), NEW b \in Seq(Printable), NEW c \in Printable, Len(a) + Len(b) < MAX_LEN
    PROVE  LET t == a \o b  x == Append(a, c)
               moved == [i \in DOMAIN Array(t) |-> IF i = Len(a) THEN c ELSE IF i = Len(t) + 1 THEN Nul
                                                   ELSE IF i \in Len(a) + 1 .. Len(t) THEN Array(t)[i - 1] ELSE Array(t)[i]]
           IN x \in Seq(Printable) /\ Len(x) = Len(a) + 1 /\ Len(x \o b) = Len(t) + 1 /\ moved = Array(x \o b)
  <1> DEFINE t == a \o b  x == Append(a, c)  u == x \o b  p == Len(a)  n == Len(t)
             moved == [i \in DOMAIN Array(t) |-> IF i = p THEN c ELSE IF i = n + 1 THEN Nul
                                                 ELSE IF i \in p + 1 .. n THEN Array(t)[i - 1] ELSE Array(t)[i]]
  <1>1. p \in Nat /\ Len(b) \in Nat /\ MAX_LEN \in Nat
    BY LxAssumption
  <1>2. x \in Seq(Printable) /\ Len(x) = p + 1 /\ x[p + 1] = c /\ \A i \in 1 .. p : x[i] = a[i]
    OBVIOUS
  <1>3. t \in Seq(Printable) /\ n = p + Len(b) /\ \A i \in 1 .. p + Len(b) : t[i] = IF i <= p THEN a[i] ELSE b[i - p]
    BY JoinedIs
  <1> HIDE DEF p, x
  <1>4. u \in Seq(Printable) /\ Len(u) = (p + 1) + Len(b)
        /\ \A i \in 1 .. (p + 1) + Len(b) : u[i] = IF i <= p + 1 THEN x[i] ELSE b[i - (p + 1)]
    <2>1. /\ u \in Seq(Printable) /\ Len(u) = Len(x) + Len(b)
          /\ \A i \in 1 .. Len(x) + Len(b) : u[i] = IF i <= Len(x) THEN x[i] ELSE b[i - Len(x)]
      BY <1>2, JoinedIs
    <2> QED
      BY <1>2, <2>1
  <1> HIDE DEF t, u
  <1>5. /\ DOMAIN Array(t) = 0 .. MAX_LEN /\ Array(u) = [i \in 0 .. MAX_LEN |-> Array(u)[i]]
        /\ \A i \in 0 .. MAX_LEN : Array(t)[i] = IF i < n THEN t[i + 1] ELSE Nul
        /\ \A i \in 0 .. MAX_LEN : Array(u)[i] = IF i < Len(u) THEN u[i + 1] ELSE Nul
    BY DEF Array
  <1>6. n = p + Len(b) /\ Len(u) = n + 1 /\ n < MAX_LEN /\ n \in Nat /\ p <= n
    BY <1>1, <1>3, <1>4 DEF p
  <1> HIDE DEF n
  <1>7. ASSUME NEW i \in 0 .. MAX_LEN PROVE moved[i] = Array(u)[i]
    <2>1. moved[i] = IF i = p THEN c ELSE IF i = n + 1 THEN Nul ELSE IF i \in p + 1 .. n THEN Array(t)[i - 1] ELSE Array(t)[i]
      BY <1>5
    <2> HIDE DEF moved
    <2>2. CASE i > n
      BY <1>1, <1>5, <1>6, <2>1, <2>2
    <2>3. CASE i = p
      <3>1. i + 1 \in 1 .. (p + 1) + Len(b) /\ i + 1 <= p + 1 /\ i + 1 = p + 1 /\ i < Len(u)
        BY <1>1, <1>6, <2>3
      <3> QED
        BY <1>2, <1>4, <1>5, <2>1, <2>3, <3>1
    <2>4. CASE i <= n /\ i > p
      <3>1. i - 1 \in 0 .. MAX_LEN /\ i - 1 < n /\ i \in 1 .. n /\ ~(i <= p) /\ (i - 1) + 1 = i /\ (i + 1) - (p + 1) = i - p
            /\ i + 1 \in 1 .. n + 1 /\ ~(i + 1 <= p + 1) /\ i < Len(u) /\ (p + 1) + Len(b) = n + 1
        BY <1>1, <1>6, <2>4
      <3>2. moved[i] = Array(t)[i - 1]
        BY <1>1, <1>6, <2>1, <2>4
      <3>3. Array(t)[i - 1] = t[i] /\ Array(u)[i] = u[i + 1]
        BY <1>5, <3>1
      <3>4. t[i] = b[i - p] /\ u[i + 1] = b[(i + 1) - (p + 1)]
        BY <1>3, <1>4, <1>6, <3>1
      <3> QED
        BY <3>1, <3>2, <3>3, <3>4
    <2>5. CASE i < p
      <3>1. i < n /\ i # n + 1 /\ i \notin p + 1 .. n /\ i < Len(u) /\ i + 1 \in 1 .. p /\ i + 1 \in 1 .. n /\ i + 1 <= p
            /\ i + 1 \in 1 .. n + 1 /\ (p + 1) + Len(b) = n + 1 /\ i + 1 <= p + 1 /\ i # p
        BY <1>1, <1>6, <2>5
      <3>2. moved[i] = t[i + 1] /\ Array(u)[i] = u[i + 1]
        BY <1>5, <2>1, <3>1
      <3>3. t[i + 1] = a[i + 1] /\ u[i + 1] = x[i + 1] /\ x[i + 1] = a[i + 1]
        BY <1>2, <1>3, <1>4, <1>6, <3>1
      <3> QED
        BY <3>2, <3>3
    <2> QED
      BY <1>1, <1>6, <2>2, <2>3, <2>4, <2>5
  <1>8. moved = Array(u)
    <2>1. moved = [i \in 0 .. MAX_LEN |-> moved[i]]
      BY <1>5
    <2> HIDE DEF moved
    <2> QED
      BY <1>5, <1>7, <2>1
  <1> QED
    BY <1>2, <1>6, <1>8 DEF t, u, x, n, p

\* What a line of input is.
LEMMA InputFacts ==
    ASSUME NEW d, InputInv(d)
    PROVE  /\ DOMAIN d = InputFields /\ d.before \in Seq(Printable) /\ d.after \in Seq(Printable)
           /\ Typed(d) = d.before \o d.after /\ Typed(d) \in Seq(Printable)
           /\ Len(d.before) \in Nat /\ Len(d.after) \in Nat /\ Len(Typed(d)) = Len(d.before) + Len(d.after)
           /\ Len(d.before) + Len(d.after) <= MAX_LEN /\ Len(Typed(d)) \in Nat /\ Len(Typed(d)) <= MAX_LEN /\ d.len = Len(Typed(d))
           /\ d.pos = Len(d.before) /\ d.len = Len(d.before) + Len(d.after) /\ d.show_x \in Nat /\ d.input_x \in Nat
           /\ d.show_x + d.input_x = d.pos /\ d.input_x <= BoxWidth - 1 /\ BoxWidth \in Nat \ {0} /\ MAX_LEN \in Nat
           /\ d.instr = Array(Typed(d)) /\ d.cells = Field(Typed(d), d.show_x)
           /\ d.kind = "input" /\ d.button \in -1 .. 1 /\ d.resizes \in Nat
  <1>1. BoxWidth \in Nat \ {0} /\ MAX_LEN \in Nat
    BY LxAssumption
  <1>2. d.before \in Seq(Printable) /\ d.after \in Seq(Printable)
    BY DEF InputInv, IsInput
  <1>3. Typed(d) \in Seq(Printable) /\ Len(d.before) \in Nat /\ Len(d.after) \in Nat /\ Len(Typed(d)) = Len(d.before) + Len(d.after)
    BY <1>2, JoinedIs DEF Typed
  <1>4. /\ DOMAIN d = InputFields /\ d.kind = "input" /\ d.button \in -1 .. 1 /\ d.resizes \in Nat /\ Len(Typed(d)) <= MAX_LEN
        /\ d.pos = Len(d.before) /\ d.len = Len(Typed(d)) /\ d.show_x \in Nat /\ d.input_x \in 0 .. BoxWidth - 1
        /\ d.show_x + d.input_x = d.pos /\ d.instr = Array(Typed(d)) /\ d.cells = Field(Typed(d), d.show_x)
    BY DEF InputInv, IsInput
  <1>5. Typed(d) = d.before \o d.after
    BY DEF Typed
  <1> DEFINE t == Typed(d)
  <1>6. d.input_x \in Nat /\ d.input_x <= BoxWidth - 1
    BY <1>1, <1>4
  <1>7. Len(d.before) + Len(d.after) <= MAX_LEN /\ d.len = Len(d.before) + Len(d.after) /\ Len(Typed(d)) \in Nat
    <2> DEFINE n == Len(Typed(d))  p == Len(d.before)  q == Len(d.after)
    <2>1. n = p + q /\ p \in Nat /\ q \in Nat /\ n <= MAX_LEN /\ d.len = n
      BY <1>3, <1>4
    <2> HIDE DEF n, p, q
    <2>2. p + q <= MAX_LEN /\ d.len = p + q /\ n \in Nat
      BY <2>1
    <2> QED
      BY <2>2 DEF n, p, q
  <1> QED
    BY <1>1, <1>2, <1>3, <1>4, <1>5, <1>6, <1>7

\* The fields that editing leaves alone.
Kept(d, e) == \A f \in {"kind", "button", "shown", "resizes"} : e[f] = d[f]

\* A key that deletes.
LEMMA BackspaceInv ==
    ASSUME NEW d, InputInv(d)
    PROVE  InputInv(Backspace(d))
  <1> DEFINE a == d.before  b == d.after  t == a \o b  s == d.show_x
             x == SubSeq(a, 1, Len(a) - 1)
             moved == [i \in DOMAIN d.instr |-> IF i = d.len - 1 THEN Nul
                                                ELSE IF i \in d.pos - 1 .. d.len - 1 THEN d.instr[i + 1] ELSE d.instr[i]]
             y == IF d.input_x = 0 THEN [d EXCEPT !.show_x = @ - 1] ELSE [d EXCEPT !.input_x = @ - 1]
             g == [y EXCEPT !.instr = moved, !.pos = @ - 1, !.len = @ - 1, !.before = SubSeq(@, 1, Len(@) - 1)]
  <1>1. CASE d.pos = 0
    BY <1>1 DEF Backspace
  <1>2. CASE d.pos # 0
    <2>1. Backspace(d) = DrawField(g)
      BY <1>2 DEF Backspace
    <2>2. x \in Seq(Printable) /\ Len(x) = Len(a) - 1 /\ Len(x \o b) = Len(t) - 1 /\ moved = Array(x \o b) /\ Len(a) # 0
      <3>1. Len(a) # 0 /\ a \in Seq(Printable) /\ b \in Seq(Printable) /\ Len(a) + Len(b) <= MAX_LEN /\ t = a \o b
        BY <1>2, InputFacts
      <3> HIDE DEF a, b
      <3> DEFINE m == [i \in DOMAIN Array(t) |-> IF i = Len(t) - 1 THEN Nul
                                                 ELSE IF i \in Len(a) - 1 .. Len(t) - 1 THEN Array(t)[i + 1] ELSE Array(t)[i]]
      <3>2. moved = m
        <4>1. d.instr = Array(t) /\ d.len = Len(t) /\ d.pos = Len(a)
          BY InputFacts DEF a, b
        <4> HIDE DEF a, t
        <4> QED
          BY <4>1
      <3>3. x \in Seq(Printable) /\ Len(x) = Len(a) - 1 /\ Len(x \o b) = Len(t) - 1 /\ m = Array(x \o b)
        BY <3>1, ArrayDeleted
      <3> HIDE DEF moved, m
      <3> QED
        BY <3>1, <3>2, <3>3
    <2> HIDE DEF moved
    <2>3. /\ g = [f \in InputFields |-> g[f]] /\ g.before = x /\ g.after = b /\ g.instr = Array(x \o b)
          /\ g.pos = d.pos - 1 /\ g.len = d.len - 1 /\ g.cells = d.cells
          /\ \/ g.show_x = s - 1 /\ g.input_x = d.input_x /\ d.input_x = 0
             \/ g.show_x = s /\ g.input_x = d.input_x - 1 /\ d.input_x # 0
          /\ Kept(d, g)
      <3>1. DOMAIN d = InputFields
        BY InputFacts
      <3>2. y = [f \in InputFields |-> y[f]]
            /\ \A f \in InputFields : f \notin {"show_x", "input_x"} => y[f] = d[f]
            /\ \/ y.show_x = s - 1 /\ y.input_x = d.input_x /\ d.input_x = 0
               \/ y.show_x = s /\ y.input_x = d.input_x - 1 /\ d.input_x # 0
        BY <3>1 DEF InputFields
      <3> HIDE DEF y
      <3>3. g = [f \in InputFields |-> g[f]] /\ g.instr = moved /\ g.pos = y.pos - 1 /\ g.len = y.len - 1
            /\ g.before = SubSeq(y.before, 1, Len(y.before) - 1)
            /\ \A f \in InputFields : f \notin {"instr", "pos", "len", "before"} => g[f] = y[f]
        BY <3>2 DEF InputFields
      <3> HIDE DEF g
      <3> QED
        BY <2>2, <3>2, <3>3 DEF InputFields, Kept
    <2> HIDE DEF g, y
    <2>4. IsInput(g) /\ Typed(g) = x \o b
      <3>1. Typed(g) = x \o b
        BY <2>3 DEF Typed
      <3>4. Len(Typed(g)) <= MAX_LEN
        <4>1. Len(t) \in Nat /\ Len(t) <= MAX_LEN /\ MAX_LEN \in Nat
          BY InputFacts, Zenon
        <4> HIDE DEF t, x
        <4> QED
          BY <2>2, <3>1, <4>1
      <3>2. g.kind = d.kind /\ g.button = d.button /\ g.resizes = d.resizes
        BY <2>3 DEF Kept
      <3> QED
        BY <2>2, <2>3, <3>1, <3>2, <3>4, InputFacts DEF IsInput
    <2> HIDE DEF x, a, b, t, s
    <2>5. g.len = Len(Typed(g)) /\ g.pos = Len(g.before) /\ g.instr = Array(Typed(g)) /\ g.show_x \in Nat
          /\ g.input_x \in 0 .. BoxWidth - 1 /\ g.show_x + g.input_x = g.pos
      <3>1. /\ d.len = Len(t) /\ d.pos = Len(a) /\ s \in Nat /\ d.input_x \in Nat /\ s + d.input_x = d.pos /\ d.input_x <= BoxWidth - 1
            /\ BoxWidth \in Nat /\ d.pos \in Nat
        BY InputFacts DEF a, b, t, s
      <3>2. g.len = Len(Typed(g)) /\ g.pos = Len(g.before) /\ g.instr = Array(Typed(g))
        BY <2>2, <2>3, <2>4, <3>1
      <3>3. g.show_x \in Nat /\ g.input_x \in 0 .. BoxWidth - 1 /\ g.show_x + g.input_x = d.pos - 1
        <4> DEFINE k == d.input_x
        <4>1. CASE g.show_x = s - 1 /\ g.input_x = k /\ k = 0
          <5>1. s = d.pos /\ s # 0
            BY <1>2, <3>1, <4>1
          <5> QED
            BY <3>1, <4>1, <5>1
        <4>2. CASE g.show_x = s /\ g.input_x = k - 1 /\ k # 0
          <5>1. k - 1 \in 0 .. BoxWidth - 1 /\ s + (k - 1) = d.pos - 1
            BY <3>1, <4>2
          <5> QED
            BY <3>1, <4>2, <5>1
        <4> QED
          BY <2>3, <4>1, <4>2
      <3> QED
        BY <2>3, <3>2, <3>3
    <2>6. g.resizes = 0 => g.shown = Max({g.button, 0})
      BY <2>3 DEF Kept, InputInv
    <2>7. t \in Seq(Printable) /\ s \in Nat /\ g.cells = Field(t, s)
      BY <2>3, InputFacts DEF a, b, t, s
    <2>8. \A i \in 0 .. BoxWidth - 1 : g.show_x + i > g.len => s + i >= Len(t)
      <3>0. d.len = Len(t) /\ Len(t) \in Nat /\ s \in Nat
        BY InputFacts, Zenon DEF a, b, t, s
      <3>1. g.len = Len(t) - 1 /\ s \in Nat /\ Len(t) \in Nat /\ (g.show_x = s \/ g.show_x = s - 1)
        BY <2>3, <3>0
      <3> QED
        BY <3>1
    <2>9. InputInv(DrawField(g))
      BY <2>4, <2>5, <2>6, <2>7, <2>8, InputDrawn
    <2> QED
      BY <2>1, <2>9
  <1> QED
    BY <1>1, <1>2

\* A key that moves the cursor to the left.
LEMMA CursorLeftInv ==
    ASSUME NEW d, InputInv(d)
    PROVE  InputInv(CursorLeft(d))
  <1> DEFINE a == d.before  b == d.after  t == a \o b  s == d.show_x
             x == SubSeq(a, 1, Len(a) - 1)  z == <<a[Len(a)]>> \o b
             m == [d EXCEPT !.pos = @ - 1, !.before = SubSeq(@, 1, Len(@) - 1), !.after = <<d.before[Len(d.before)]>> \o @]
             e == [m EXCEPT !.input_x = @ - 1]
             g == [m EXCEPT !.show_x = @ - 1]
  <1>1. CASE d.pos = 0
    BY <1>1 DEF CursorLeft
  <1>2. CASE d.pos # 0
    <2>1. CursorLeft(d) = IF d.input_x > 0 THEN e ELSE DrawField(g)
      BY <1>2 DEF CursorLeft
    <2>2. x \in Seq(Printable) /\ z \in Seq(Printable) /\ Len(x) = Len(a) - 1 /\ x \o z = t /\ Len(a) # 0
      <3>1. Len(a) # 0 /\ a \in Seq(Printable) /\ b \in Seq(Printable)
        BY <1>2, InputFacts
      <3> HIDE DEF a, b
      <3>2. LET xx == SubSeq(a, 1, Len(a) - 1)  yy == <<a[Len(a)]>> \o b
            IN xx \in Seq(Printable) /\ yy \in Seq(Printable) /\ Len(xx) = Len(a) - 1 /\ xx \o yy = a \o b
        <4>1. \A aa \in Seq(Printable), bb \in Seq(Printable) : Len(aa) # 0 =>
                LET xx == SubSeq(aa, 1, Len(aa) - 1)  yy == <<aa[Len(aa)]>> \o bb
                IN xx \in Seq(Printable) /\ yy \in Seq(Printable) /\ Len(xx) = Len(aa) - 1 /\ xx \o yy = aa \o bb
          BY MovedLeft
        <4> QED
          BY <3>1, <4>1, Zenon
      <3> QED
        BY <3>1, <3>2, Zenon
    <2>3. /\ m = [f \in InputFields |-> m[f]] /\ m.before = x /\ m.after = z /\ m.pos = d.pos - 1
          /\ \A f \in InputFields : f \notin {"pos", "before", "after"} => m[f] = d[f]
      <3>1. DOMAIN d = InputFields
        BY InputFacts
      <3> QED
        BY <3>1 DEF InputFields
    <2> HIDE DEF m
    <2>4. /\ e = [f \in InputFields |-> e[f]] /\ e.input_x = m.input_x - 1 /\ \A f \in InputFields : f # "input_x" => e[f] = m[f]
          /\ g = [f \in InputFields |-> g[f]] /\ g.show_x = m.show_x - 1 /\ \A f \in InputFields : f # "show_x" => g[f] = m[f]
      BY <2>3 DEF InputFields
    <2>5. ASSUME NEW r \in {e, g}
          PROVE  /\ IsInput(r) /\ Typed(r) = t /\ Kept(d, r) /\ r.instr = d.instr /\ r.cells = d.cells /\ r.len = d.len
                 /\ r.before = x /\ r.pos = d.pos - 1
      <3> HIDE DEF e, g
      <3>1. /\ r = [f \in InputFields |-> r[f]] /\ r.before = x /\ r.after = z /\ r.pos = d.pos - 1
            /\ \A f \in InputFields : f \notin {"pos", "before", "after", "show_x", "input_x"} => r[f] = d[f]
        BY <2>3, <2>4, <2>5 DEF InputFields
      <3>2. Kept(d, r) /\ r.instr = d.instr /\ r.cells = d.cells /\ r.len = d.len
            /\ r.kind = d.kind /\ r.button = d.button /\ r.resizes = d.resizes
        BY <3>1 DEF InputFields, Kept
      <3>3. Typed(r) = t
        BY <2>2, <3>1 DEF Typed
      <3>4. Len(t) <= MAX_LEN
        BY InputFacts, Zenon
      <3> QED
        BY <2>2, <3>1, <3>2, <3>3, <3>4, InputFacts DEF IsInput
    <2>6. /\ d.len = Len(t) /\ d.instr = Array(t) /\ t \in Seq(Printable) /\ s \in Nat /\ d.cells = Field(t, s) /\ Len(t) \in Nat
      BY InputFacts, Zenon
    <2>7. Len(x) = d.pos - 1 /\ d.pos \in Nat /\ d.input_x \in Nat /\ s + d.input_x = d.pos /\ d.input_x <= BoxWidth - 1 /\ BoxWidth \in Nat
      BY <2>2, InputFacts
    <2>8. \A r \in {e, g} : r.resizes = 0 => r.shown = Max({r.button, 0})
      BY <2>5 DEF Kept, InputInv
    <2>9. e.show_x = s /\ e.input_x = d.input_x - 1 /\ g.show_x = s - 1 /\ g.input_x = d.input_x
      BY <2>3, <2>4 DEF InputFields
    <2> HIDE DEF e, g, t, x, z, s
    <2>10. CASE d.input_x > 0
      <3>1. e.show_x \in Nat /\ e.input_x \in 0 .. BoxWidth - 1 /\ e.show_x + e.input_x = d.pos - 1
        BY <2>6, <2>7, <2>9, <2>10
      <3>2. InputInv(e)
        BY <2>5, <2>6, <2>7, <2>8, <2>9, <3>1 DEF InputInv
      <3> QED
        BY <2>1, <2>10, <3>2
    <2>11. CASE ~(d.input_x > 0)
      <3>1. g.show_x \in Nat /\ g.input_x \in 0 .. BoxWidth - 1 /\ g.show_x + g.input_x = d.pos - 1
        BY <1>2, <2>6, <2>7, <2>9, <2>11
      <3>2. \A i \in 0 .. BoxWidth - 1 : g.show_x + i > g.len => s + i >= Len(t)
        BY <2>5, <2>6, <2>9
      <3>3. g.len = Len(Typed(g)) /\ g.pos = Len(g.before) /\ g.instr = Array(Typed(g)) /\ g.cells = Field(t, s) /\ g.pos = d.pos - 1
        BY <2>5, <2>6, <2>7
      <3>4. InputInv(DrawField(g))
        BY <2>5, <2>6, <2>8, <3>1, <3>2, <3>3, InputDrawn
      <3> QED
        BY <2>1, <2>11, <3>4
    <2> QED
      BY <2>10, <2>11
  <1> QED
    BY <1>1, <1>2

\* A key that moves it to the right.
LEMMA CursorRightInv ==
    ASSUME NEW d, InputInv(d)
    PROVE  InputInv(CursorRight(d))
  <1> DEFINE a == d.before  b == d.after  t == a \o b  s == d.show_x
             x == Append(a, Head(b))  z == Tail(b)
             m == [d EXCEPT !.pos = @ + 1, !.before = Append(@, Head(d.after)), !.after = Tail(@)]
             e == [m EXCEPT !.input_x = @ + 1]
             g == [m EXCEPT !.show_x = @ + 1]
  <1>1. CASE d.pos >= d.len
    BY <1>1 DEF CursorRight
  <1>2. CASE ~(d.pos >= d.len)
    <2>1. CursorRight(d) = IF d.input_x < BoxWidth - 1 THEN e ELSE DrawField(g)
      BY <1>2 DEF CursorRight
    <2>2. x \in Seq(Printable) /\ z \in Seq(Printable) /\ Len(x) = Len(a) + 1 /\ x \o z = t /\ Len(b) # 0
      <3>1. Len(b) # 0 /\ a \in Seq(Printable) /\ b \in Seq(Printable)
        <4>1. a \in Seq(Printable) /\ b \in Seq(Printable) /\ Len(a) \in Nat /\ d.pos = Len(a) /\ d.len = Len(a) + Len(b)
          BY InputFacts
        <4> HIDE DEF a, b
        <4> QED
          BY <1>2, <4>1
      <3> HIDE DEF a, b
      <3> QED
        BY <3>1, MovedRight
    <2>3. /\ m = [f \in InputFields |-> m[f]] /\ m.before = x /\ m.after = z /\ m.pos = d.pos + 1
          /\ \A f \in InputFields : f \notin {"pos", "before", "after"} => m[f] = d[f]
      <3>1. DOMAIN d = InputFields
        BY InputFacts
      <3> QED
        BY <3>1 DEF InputFields
    <2> HIDE DEF m
    <2>4. /\ e = [f \in InputFields |-> e[f]] /\ e.input_x = m.input_x + 1 /\ \A f \in InputFields : f # "input_x" => e[f] = m[f]
          /\ g = [f \in InputFields |-> g[f]] /\ g.show_x = m.show_x + 1 /\ \A f \in InputFields : f # "show_x" => g[f] = m[f]
      BY <2>3 DEF InputFields
    <2>5. ASSUME NEW r \in {e, g}
          PROVE  /\ IsInput(r) /\ Typed(r) = t /\ Kept(d, r) /\ r.instr = d.instr /\ r.cells = d.cells /\ r.len = d.len
                 /\ r.before = x /\ r.pos = d.pos + 1
      <3> HIDE DEF e, g
      <3>1. /\ r = [f \in InputFields |-> r[f]] /\ r.before = x /\ r.after = z /\ r.pos = d.pos + 1
            /\ \A f \in InputFields : f \notin {"pos", "before", "after", "show_x", "input_x"} => r[f] = d[f]
        BY <2>3, <2>4, <2>5 DEF InputFields
      <3>2. Kept(d, r) /\ r.instr = d.instr /\ r.cells = d.cells /\ r.len = d.len
            /\ r.kind = d.kind /\ r.button = d.button /\ r.resizes = d.resizes
        BY <3>1 DEF InputFields, Kept
      <3>3. Typed(r) = t
        BY <2>2, <3>1 DEF Typed
      <3>4. Len(t) <= MAX_LEN
        BY InputFacts, Zenon
      <3> QED
        BY <2>2, <3>1, <3>2, <3>3, <3>4, InputFacts DEF IsInput
    <2>6. /\ d.len = Len(t) /\ d.instr = Array(t) /\ t \in Seq(Printable) /\ s \in Nat /\ d.cells = Field(t, s) /\ Len(t) \in Nat
      BY InputFacts, Zenon
    <2>7. Len(x) = d.pos + 1 /\ d.pos \in Nat /\ d.input_x \in Nat /\ s + d.input_x = d.pos /\ d.input_x <= BoxWidth - 1 /\ BoxWidth \in Nat
      BY <2>2, InputFacts
    <2>8. \A r \in {e, g} : r.resizes = 0 => r.shown = Max({r.button, 0})
      BY <2>5 DEF Kept, InputInv
    <2>9. e.show_x = s /\ e.input_x = d.input_x + 1 /\ g.show_x = s + 1 /\ g.input_x = d.input_x
      BY <2>3, <2>4 DEF InputFields
    <2> HIDE DEF e, g, t, x, z, s
    <2>10. CASE d.input_x < BoxWidth - 1
      <3>1. e.show_x \in Nat /\ e.input_x \in 0 .. BoxWidth - 1 /\ e.show_x + e.input_x = d.pos + 1
        <4>1. d.input_x + 1 \in 0 .. BoxWidth - 1 /\ s + (d.input_x + 1) = d.pos + 1
          BY <2>6, <2>7, <2>10
        <4> QED
          BY <2>6, <2>9, <4>1
      <3>2. InputInv(e)
        BY <2>5, <2>6, <2>7, <2>8, <2>9, <3>1 DEF InputInv
      <3> QED
        BY <2>1, <2>10, <3>2
    <2>11. CASE ~(d.input_x < BoxWidth - 1)
      <3>1. g.show_x \in Nat /\ g.input_x \in 0 .. BoxWidth - 1 /\ g.show_x + g.input_x = d.pos + 1
        BY <1>2, <2>6, <2>7, <2>9, <2>11
      <3>2. \A i \in 0 .. BoxWidth - 1 : g.show_x + i > g.len => s + i >= Len(t)
        BY <2>5, <2>6, <2>9
      <3>3. g.len = Len(Typed(g)) /\ g.pos = Len(g.before) /\ g.instr = Array(Typed(g)) /\ g.cells = Field(t, s) /\ g.pos = d.pos + 1
        BY <2>5, <2>6, <2>7
      <3>4. InputInv(DrawField(g))
        BY <2>5, <2>6, <2>8, <3>1, <3>2, <3>3, InputDrawn
      <3> QED
        BY <2>1, <2>11, <3>4
    <2> QED
      BY <2>10, <2>11
  <1> QED
    BY <1>1, <1>2

\* A key that types a character.
LEMMA InsertInv ==
    ASSUME NEW d, InputInv(d), NEW c \in Printable
    PROVE  InputInv(Insert(d, c))
  <1> DEFINE a == d.before  b == d.after  t == a \o b  s == d.show_x
             x == Append(a, c)
             moved == [i \in DOMAIN d.instr |-> IF i = d.pos THEN c ELSE IF i = d.len + 1 THEN Nul
                                                ELSE IF i \in d.pos + 1 .. d.len THEN d.instr[i - 1] ELSE d.instr[i]]
             y == IF d.input_x = BoxWidth - 1 THEN [d EXCEPT !.show_x = @ + 1] ELSE [d EXCEPT !.input_x = @ + 1]
             g == [y EXCEPT !.instr = moved, !.pos = @ + 1, !.len = @ + 1, !.before = Append(@, c)]
  <1>1. CASE d.len >= MAX_LEN
    BY <1>1 DEF Insert
  <1>2. CASE ~(d.len >= MAX_LEN)
    <2>1. Insert(d, c) = DrawField(g)
      BY <1>2 DEF Insert
    <2>2. x \in Seq(Printable) /\ Len(x) = Len(a) + 1 /\ Len(x \o b) = Len(t) + 1 /\ moved = Array(x \o b)
      <3>1. a \in Seq(Printable) /\ b \in Seq(Printable) /\ Len(a) + Len(b) < MAX_LEN
        <4>1. a \in Seq(Printable) /\ b \in Seq(Printable) /\ Len(a) \in Nat /\ Len(b) \in Nat /\ MAX_LEN \in Nat /\ d.len = Len(a) + Len(b)
          BY InputFacts
        <4> HIDE DEF a, b
        <4> QED
          BY <1>2, <4>1
      <3> HIDE DEF a, b
      <3> DEFINE m == [i \in DOMAIN Array(t) |-> IF i = Len(a) THEN c ELSE IF i = Len(t) + 1 THEN Nul
                                                 ELSE IF i \in Len(a) + 1 .. Len(t) THEN Array(t)[i - 1] ELSE Array(t)[i]]
      <3>2. moved = m
        <4>1. d.instr = Array(t) /\ d.len = Len(t) /\ d.pos = Len(a)
          BY InputFacts DEF a, b
        <4> HIDE DEF a, t
        <4> QED
          BY <4>1
      <3>3. x \in Seq(Printable) /\ Len(x) = Len(a) + 1 /\ Len(x \o b) = Len(t) + 1 /\ m = Array(x \o b)
        BY <3>1, ArrayInserted
      <3> HIDE DEF moved, m
      <3> QED
        BY <3>1, <3>2, <3>3
    <2> HIDE DEF moved
    <2>3. /\ g = [f \in InputFields |-> g[f]] /\ g.before = x /\ g.after = b /\ g.instr = Array(x \o b)
          /\ g.pos = d.pos + 1 /\ g.len = d.len + 1 /\ g.cells = d.cells
          /\ \/ g.show_x = s + 1 /\ g.input_x = d.input_x /\ d.input_x = BoxWidth - 1
             \/ g.show_x = s /\ g.input_x = d.input_x + 1 /\ d.input_x # BoxWidth - 1
          /\ Kept(d, g)
      <3>1. DOMAIN d = InputFields
        BY InputFacts
      <3>2. y = [f \in InputFields |-> y[f]]
            /\ \A f \in InputFields : f \notin {"show_x", "input_x"} => y[f] = d[f]
            /\ \/ y.show_x = s + 1 /\ y.input_x = d.input_x /\ d.input_x = BoxWidth - 1
               \/ y.show_x = s /\ y.input_x = d.input_x + 1 /\ d.input_x # BoxWidth - 1
        BY <3>1 DEF InputFields
      <3> HIDE DEF y
      <3>3. g = [f \in InputFields |-> g[f]] /\ g.instr = moved /\ g.pos = y.pos + 1 /\ g.len = y.len + 1
            /\ g.before = Append(y.before, c)
            /\ \A f \in InputFields : f \notin {"instr", "pos", "len", "before"} => g[f] = y[f]
        BY <3>2 DEF InputFields
      <3> HIDE DEF g
      <3> QED
        BY <2>2, <3>2, <3>3 DEF InputFields, Kept
    <2> HIDE DEF g, y
    <2>4. IsInput(g) /\ Typed(g) = x \o b
      <3>1. Typed(g) = x \o b
        BY <2>3 DEF Typed
      <3>2. g.kind = d.kind /\ g.button = d.button /\ g.resizes = d.resizes
        BY <2>3 DEF Kept
      <3>4. Len(Typed(g)) <= MAX_LEN
        <4>1. Len(t) \in Nat /\ d.len = Len(t) /\ MAX_LEN \in Nat
          BY InputFacts, Zenon
        <4> HIDE DEF t, x
        <4> QED
          BY <1>2, <2>2, <3>1, <4>1
      <3> QED
        BY <2>2, <2>3, <3>1, <3>2, <3>4, InputFacts DEF IsInput
    <2> HIDE DEF x, a, b, t, s
    <2>5. g.len = Len(Typed(g)) /\ g.pos = Len(g.before) /\ g.instr = Array(Typed(g)) /\ g.show_x \in Nat
          /\ g.input_x \in 0 .. BoxWidth - 1 /\ g.show_x + g.input_x = g.pos
      <3>1. /\ d.len = Len(t) /\ d.pos = Len(a) /\ s \in Nat /\ d.input_x \in Nat /\ s + d.input_x = d.pos /\ d.input_x <= BoxWidth - 1
            /\ BoxWidth \in Nat /\ d.pos \in Nat
        BY InputFacts DEF a, b, t, s
      <3>2. g.len = Len(Typed(g)) /\ g.pos = Len(g.before) /\ g.instr = Array(Typed(g))
        BY <2>2, <2>3, <2>4, <3>1
      <3>3. g.show_x \in Nat /\ g.input_x \in 0 .. BoxWidth - 1 /\ g.show_x + g.input_x = d.pos + 1
        <4> DEFINE k == d.input_x
        <4>1. CASE g.show_x = s + 1 /\ g.input_x = k
          BY <3>1, <4>1
        <4>2. CASE g.show_x = s /\ g.input_x = k + 1 /\ k # BoxWidth - 1
          <5>1. k + 1 \in 0 .. BoxWidth - 1 /\ s + (k + 1) = d.pos + 1
            BY <3>1, <4>2
          <5> QED
            BY <3>1, <4>2, <5>1
        <4> QED
          BY <2>3, <4>1, <4>2
      <3> QED
        BY <2>3, <3>2, <3>3
    <2>6. g.resizes = 0 => g.shown = Max({g.button, 0})
      BY <2>3 DEF Kept, InputInv
    <2>7. t \in Seq(Printable) /\ s \in Nat /\ g.cells = Field(t, s)
      BY <2>3, InputFacts DEF a, b, t, s
    <2>8. \A i \in 0 .. BoxWidth - 1 : g.show_x + i > g.len => s + i >= Len(t)
      <3>0. d.len = Len(t) /\ Len(t) \in Nat /\ s \in Nat
        BY InputFacts, Zenon DEF a, b, t, s
      <3>1. g.len = Len(t) + 1 /\ s \in Nat /\ Len(t) \in Nat /\ (g.show_x = s \/ g.show_x = s + 1)
        BY <2>3, <3>0
      <3> QED
        BY <3>1
    <2>9. InputInv(DrawField(g))
      BY <2>4, <2>5, <2>6, <2>7, <2>8, InputDrawn
    <2> QED
      BY <2>1, <2>9
  <1> QED
    BY <1>1, <1>2

\* Nothing behind a sequence.
LEMMA JoinedEmpty ==
    ASSUME NEW S, NEW t \in Seq(S)
    PROVE  t \o <<>> = t
  <1> DEFINE y == <<>>  u == t \o y
  <1>1. y \in Seq(S) /\ Len(y) = 0 /\ Len(t) \in Nat
    OBVIOUS
  <1> HIDE DEF y
  <1>2. u \in Seq(S) /\ Len(u) = Len(t) + Len(y) /\ \A i \in 1 .. Len(t) + Len(y) : u[i] = IF i <= Len(t) THEN t[i] ELSE y[i - Len(t)]
    BY <1>1, JoinedIs
  <1> HIDE DEF u
  <1>3. Len(u) = Len(t) /\ \A i \in 1 .. Len(t) : u[i] = t[i]
    BY <1>1, <1>2
  <1>4. u = t
    BY <1>2, <1>3, SameSequence
  <1> QED
    BY <1>4 DEF u, y

\* The field shows the end of a line that is opened.
LEMMA InputOpens ==
    ASSUME NEW d, IsInput(d), d.instr = Array(Typed(d)),
           NEW e, \E n \in Nat : e = [OpenInput(d) EXCEPT !.resizes = n],
           e.resizes = 0 => d.button = -1
    PROVE  InputInv(e)
  <1> DEFINE a == d.before  b == d.after  t == a \o b
             len == strlen(d.instr)
             s == IF len >= BoxWidth THEN (len - BoxWidth) + 1 ELSE 0
             drawn == Min({len, BoxWidth - 1})
             cells == [i \in 0 .. BoxWidth - 1 |-> IF i < drawn THEN d.instr[s + i] ELSE "space"]
             o == OpenInput(d)
  <1>1. /\ DOMAIN d = InputFields /\ d.kind = "input" /\ d.button \in -1 .. 1
        /\ a \in Seq(Printable) /\ b \in Seq(Printable) /\ Typed(d) = t /\ t \in Seq(Printable) /\ Len(t) <= MAX_LEN
        /\ Len(t) \in Nat /\ BoxWidth \in Nat \ {0} /\ MAX_LEN \in Nat
    <2>1. BoxWidth \in Nat \ {0} /\ MAX_LEN \in Nat
      BY LxAssumption
    <2>2. /\ DOMAIN d = InputFields /\ d.kind = "input" /\ d.button \in -1 .. 1
          /\ a \in Seq(Printable) /\ b \in Seq(Printable) /\ Len(Typed(d)) <= MAX_LEN
      BY DEF IsInput
    <2>3. Typed(d) = t
      BY DEF Typed
    <2>4. t \in Seq(Printable) /\ Len(t) \in Nat
      <3> HIDE DEF a, b
      <3>1. t \in Seq(Printable) /\ Len(t) = Len(a) + Len(b) /\ Len(a) \in Nat /\ Len(b) \in Nat
        BY <2>2, JoinedIs
      <3> HIDE DEF t
      <3> QED
        BY <3>1
    <2> HIDE DEF t
    <2> QED
      BY <2>1, <2>2, <2>3, <2>4
  <1>2. len = Len(t) /\ \A i \in 0 .. MAX_LEN : d.instr[i] = IF i < Len(t) THEN t[i + 1] ELSE Nul
    <2> HIDE DEF t
    <2> QED
      BY <1>1, ArrayIs
  <1>3. o = [d EXCEPT !.len = len, !.pos = len, !.show_x = s, !.input_x = len - s, !.shown = 0, !.cells = cells,
                      !.before = t, !.after = <<>>]
    BY DEF OpenInput
  <1> HIDE DEF t, len
  <1>4. /\ drawn = IF len <= BoxWidth - 1 THEN len ELSE BoxWidth - 1
        /\ len \in Nat /\ BoxWidth \in Nat \ {0}
    <2>1. len \in Nat /\ BoxWidth \in Nat \ {0}
      BY <1>1, <1>2
    <2>2. len \in Int /\ BoxWidth - 1 \in Int
      BY <2>1
    <2> QED
      BY <2>1, <2>2, MinMaxTwo
  <1> HIDE DEF drawn
  <1>5. s \in Nat /\ len - s \in 0 .. BoxWidth - 1 /\ s + (len - s) = len
    BY <1>4
  <1>6. \A i \in 0 .. BoxWidth - 1 : i < drawn <=> s + i < Len(t)
    BY <1>1, <1>2, <1>4
  <1> HIDE DEF s
  <1>7. cells = Field(t, s)
    <2>1. ASSUME NEW i \in 0 .. BoxWidth - 1
          PROVE  (IF i < drawn THEN d.instr[s + i] ELSE "space") = (IF s + i < Len(t) THEN t[s + i + 1] ELSE "space")
      <3>1. CASE i < drawn
        <4>1. s + i < Len(t) /\ s + i \in 0 .. MAX_LEN
          BY <1>1, <1>5, <1>6, <3>1
        <4> QED
          BY <1>2, <3>1, <4>1
      <3>2. CASE ~(i < drawn)
        BY <1>6, <3>2
      <3> QED
        BY <3>1, <3>2
    <2> QED
      BY <2>1 DEF Field
  <1> HIDE DEF cells
  <1>8. PICK n \in Nat : e = [o EXCEPT !.resizes = n]
    OBVIOUS
  <1>9. /\ o = [f \in InputFields |-> o[f]] /\ o.len = len /\ o.pos = len /\ o.show_x = s /\ o.input_x = len - s /\ o.shown = 0
        /\ o.cells = cells /\ o.before = t /\ o.after = <<>>
        /\ \A f \in {"kind", "instr", "button"} : f \in InputFields /\ o[f] = d[f]
    <2> HIDE DEF o
    <2> QED
      BY <1>1, <1>3 DEF InputFields
  <1> HIDE DEF o
  <1>10. /\ e = [f \in InputFields |-> e[f]] /\ e.len = len /\ e.pos = len /\ e.show_x = s /\ e.input_x = len - s /\ e.shown = 0
         /\ e.cells = cells /\ e.before = t /\ e.after = <<>> /\ e.resizes = n
         /\ e.kind = d.kind /\ e.instr = d.instr /\ e.button = d.button
    BY <1>8, <1>9 DEF InputFields
  <1>11. e.after \in Seq(Printable) /\ Typed(e) = t
    <2>1. e.after \in Seq(Printable) /\ t \o <<>> = t
      <3>1. t \in Seq(Printable)
        BY <1>1
      <3>2. t \o <<>> = t
        BY <3>1, JoinedEmpty
      <3>3. <<>> \in Seq(Printable)
        OBVIOUS
      <3>4. e.after = <<>>
        BY <1>10
      <3> QED
        BY <3>2, <3>3, <3>4, Zenon
    <2> QED
      BY <1>10, <2>1 DEF Typed
  <1>12. IsInput(e)
    BY <1>1, <1>10, <1>11 DEF IsInput
  <1>13. e.resizes = 0 => e.shown = Max({e.button, 0})
    <2>1. Max({-1, 0}) = 0
      BY MaxIs
    <2> QED
      BY <1>10, <2>1
  <1> QED
    BY <1>1, <1>2, <1>5, <1>7, <1>10, <1>11, <1>12, <1>13 DEF InputInv

\* A new line of input, and one in a terminal that is resized.
LEMMA InputNew ==
    ASSUME NEW init \in Inits
    PROVE  InputInv(NewInput(init))
  <1> DEFINE d == [kind |-> "input", instr |-> [i \in 0 .. MAX_LEN |-> IF i < Len(init) THEN init[i + 1] ELSE Nul], len |-> 0,
                   pos |-> 0, show_x |-> 0, input_x |-> 0, cells |-> <<>>, button |-> -1, shown |-> 0, out |-> Open,
                   resizes |-> 0, before |-> init, after |-> <<>>]
             e == OpenInput(d)
  <1>1. init \in Seq(Printable) /\ Len(init) <= MAX_LEN /\ Len(init) \in Nat
    <2>1. init \in Seq(Printable) /\ Len(init) <= MAX_LEN
      BY LxAssumption
    <2> QED
      BY <2>1
  <1>2. init \o <<>> = init
    BY <1>1, JoinedEmpty
  <1>3. NewInput(init) = e
    BY DEF NewInput
  <1>4. /\ d = [f \in InputFields |-> d[f]] /\ d.kind = "input" /\ d.instr = Array(init) /\ d.before = init /\ d.after = <<>>
        /\ d.button = -1 /\ d.resizes = 0
    BY DEF InputFields, Array
  <1> HIDE DEF d
  <1>5. Typed(d) = init
    BY <1>2, <1>4 DEF Typed
  <1>6. IsInput(d)
    <2>1. d.after \in Seq(Printable) /\ d.button \in -1 .. 1 /\ d.resizes \in Nat
      <3>1. <<>> \in Seq(Printable) /\ -1 \in -1 .. 1 /\ 0 \in Nat
        OBVIOUS
      <3> QED
        BY <1>4, <3>1, Zenon
    <2> QED
      BY <1>1, <1>4, <1>5, <2>1 DEF IsInput
  <1>7. \E n \in Nat : e = [OpenInput(d) EXCEPT !.resizes = n]
    <2>1. e = [e EXCEPT !.resizes = 0]
      <3>1. e.resizes = 0 /\ DOMAIN e = InputFields /\ e = [f \in DOMAIN e |-> e[f]]
        BY <1>4 DEF OpenInput, InputFields
      <3> HIDE DEF e
      <3> QED
        BY <3>1 DEF InputFields
    <2> QED
      BY <2>1
  <1> HIDE DEF e
  <1>8. InputInv(e)
    BY <1>4, <1>5, <1>6, <1>7, InputOpens
  <1> QED
    BY <1>3, <1>8

\* See InputNew.
LEMMA InputResized ==
    ASSUME NEW d, InputInv(d)
    PROVE  InputInv([OpenInput(d) EXCEPT !.resizes = @ + 1])
  <1> DEFINE o == OpenInput(d)  e == [o EXCEPT !.resizes = @ + 1]
  <1>1. IsInput(d) /\ d.instr = Array(Typed(d)) /\ d.resizes \in Nat /\ DOMAIN d = InputFields
    BY InputFacts DEF InputInv
  <1>2. DOMAIN o = InputFields /\ o.resizes = d.resizes
    BY <1>1 DEF OpenInput, InputFields
  <1> HIDE DEF o
  <1>3. e = [o EXCEPT !.resizes = d.resizes + 1] /\ d.resizes + 1 \in Nat /\ e.resizes = d.resizes + 1 /\ d.resizes + 1 # 0
    BY <1>1, <1>2 DEF InputFields
  <1>4. \E n \in Nat : e = [OpenInput(d) EXCEPT !.resizes = n]
    <2> HIDE DEF e
    <2> QED
      BY <1>3 DEF o
  <1> HIDE DEF e
  <1>5. InputInv(e)
    BY <1>1, <1>3, <1>4, InputOpens
  <1> QED
    BY <1>5 DEF e, o

\* Another focus, and a line that is left.
LEMMA InputTurned ==
    ASSUME NEW d, InputInv(d), NEW key, NEW x
    PROVE  InputInv(Refocused(d, key)) /\ InputInv([d EXCEPT !.out = x])
  <1> DEFINE b == ((d.button + (IF key \in {"up", "left"} THEN 0 ELSE 2)) % 3) - 1
  <1>1. DOMAIN d = InputFields /\ d.button \in -1 .. 1
    BY InputFacts
  <1>2. b \in -1 .. 1
    BY <1>1
  <1>3. Refocused(d, key) = [d EXCEPT !.button = b, !.shown = Max({b, 0})]
    BY DEF Refocused
  <1> HIDE DEF b
  <1>4. ASSUME NEW e, e \in {[d EXCEPT !.button = b, !.shown = Max({b, 0})], [d EXCEPT !.out = x]} PROVE InputInv(e)
    <2>1. /\ e = [f \in InputFields |-> e[f]]
          /\ \A f \in InputFields : f \notin {"button", "shown", "out"} => e[f] = d[f]
          /\ e.shown = Max({e.button, 0}) \/ (e.shown = d.shown /\ e.button = d.button)
          /\ e.button \in -1 .. 1
      BY <1>1, <1>2, <1>4 DEF InputFields
    <2>2. /\ e.kind = d.kind /\ e.instr = d.instr /\ e.len = d.len /\ e.pos = d.pos /\ e.show_x = d.show_x /\ e.input_x = d.input_x
          /\ e.cells = d.cells /\ e.resizes = d.resizes /\ e.before = d.before /\ e.after = d.after
      BY <2>1 DEF InputFields
    <2> QED
      BY <2>1, <2>2 DEF InputInv, IsInput, Typed
  <1> QED
    BY <1>3, <1>4

\* The line, whatever key.
LEMMA InputKept ==
    ASSUME NEW key \in InputKeys, dialog_inputbox(key), InputInv(dlg)
    PROVE  InputInv(dlg')
  <1> DEFINE d == dlg  edits == d.button = -1 /\ key \in Printable \cup {"backspace", "left", "right"}
  <1>2. dlg' = CASE edits -> Edited(d, key)
                 [] ~edits /\ key \in {"o", "h"} -> [d EXCEPT !.out = IF key = "o" THEN 0 ELSE 1]
                 [] ~edits /\ key \in {"up", "left", "tab", "down", "right"} -> Refocused(d, key)
                 [] ~edits /\ key \in {"space", "enter"} -> [d EXCEPT !.out = Max({d.button, 0})]
                 [] ~edits /\ key \in {"x", KEY_ESC} -> [d EXCEPT !.out = Escaped]
                 [] OTHER -> d
    BY DEF dialog_inputbox
  <1>3. edits => InputInv(Edited(d, key))
    <2>1. CASE key \in {"backspace", "left", "right"}
      BY <2>1, BackspaceInv, CursorLeftInv, CursorRightInv DEF Edited
    <2>2. CASE key \in Printable
      <3>1. key \notin {"backspace", "left", "right"}
        BY <2>2 DEF Printable
      <3>2. InputInv(Insert(d, key))
        <4> HIDE DEF d
        <4> QED
          BY <2>2, InsertInv DEF d
      <3> QED
        BY <3>1, <3>2 DEF Edited
    <2> QED
      BY <2>1, <2>2
  <1>4. InputInv(Refocused(d, key)) /\ \A x : InputInv([d EXCEPT !.out = x])
    BY InputTurned
  <1> HIDE DEF edits, d
  <1> QED
    BY <1>2, <1>3, <1>4 DEF KEY_ESC, d

\* What the line shows.
LEMMA InputIsShown ==
    ASSUME InputInv(dlg)
    PROVE  InputShown
  <1> DEFINE d == dlg  t == d.before \o d.after
  <1>1. /\ d.len = Len(t) /\ t \in Seq(Printable) /\ Len(t) <= MAX_LEN /\ Len(t) \in Nat /\ MAX_LEN \in Nat /\ d.instr = Array(t)
        /\ d.cells = Field(t, d.show_x)
    BY InputFacts, Zenon DEF Typed
  <1>2. /\ d.pos = Len(d.before) /\ d.show_x + d.input_x = d.pos /\ d.input_x \in 0 .. BoxWidth - 1
        /\ d.resizes = 0 => d.shown = Max({d.button, 0})
    BY DEF InputInv
  <1> HIDE DEF t
  <1>3. d.len = strlen(d.instr) /\ \A i \in 1 .. d.len : d.instr[i - 1] = t[i]
    <2>1. strlen(d.instr) = Len(t) /\ \A i \in 0 .. MAX_LEN : d.instr[i] = IF i < Len(t) THEN t[i + 1] ELSE Nul
      BY <1>1, ArrayIs
    <2>2. ASSUME NEW i \in 1 .. d.len PROVE d.instr[i - 1] = t[i]
      <3>1. i - 1 \in 0 .. MAX_LEN /\ i - 1 < Len(t) /\ (i - 1) + 1 = i
        BY <1>1
      <3> QED
        BY <2>1, <3>1
    <2> QED
      BY <1>1, <2>1, <2>2
  <1>4. d.cells = [i \in 0 .. BoxWidth - 1 |-> IF d.show_x + i < d.len THEN t[d.show_x + i + 1] ELSE "space"]
    BY <1>1 DEF Field
  <1> HIDE DEF d
  <1> QED
    BY <1>1, <1>2, <1>3, <1>4, Zenon DEF InputShown, d, t

(***************************************************************************)
(* The lines of a text.                                                    *)
(***************************************************************************)
IsText(t) == t \in Seq({"a", "nl"}) /\ t # <<>> /\ t[Len(t)] = "nl"
Below(d, p) == {k \in Breaks(d) : k < p}
LastLine(d) == Cardinality(Breaks(d))
Starts(d) == {0} \cup {b + 1 : b \in Breaks(d)}

\* A text has breaks, the last of them at its end.
LEMMA TextIs ==
    ASSUME NEW d, IsText(d.text)
    PROVE  /\ Len(d.text) \in Nat \ {0} /\ Breaks(d) \subseteq 0 .. Len(d.text) - 1 /\ Len(d.text) - 1 \in Breaks(d)
           /\ Len(d.text) \in Starts(d) /\ 0 \in Starts(d) /\ Starts(d) \subseteq 0 .. Len(d.text)
           /\ \A p \in Starts(d) : p # 0 => p - 1 \in Breaks(d)
           /\ \A p \in 0 .. Len(d.text) : CharAt(d, p) = Nul <=> p = Len(d.text)
           /\ \A b \in Nat : b \in Breaks(d) <=> b < Len(d.text) /\ CharAt(d, b) = "nl"
  <1> DEFINE n == Len(d.text)
  <1>1. n \in Nat \ {0} /\ \A i \in 1 .. n : d.text[i] \in {"a", "nl"}
    BY DEF IsText
  <1>2. d.text[n] = "nl"
    BY DEF IsText
  <1>3. \A p \in 0 .. n : CharAt(d, p) = IF p < n THEN d.text[p + 1] ELSE Nul
    BY DEF CharAt
  <1> HIDE DEF n
  <1>4. Breaks(d) = {i \in 0 .. n - 1 : CharAt(d, i) = "nl"}
    BY DEF Breaks, n
  <1>5. n - 1 \in Breaks(d)
    <2>1. n - 1 \in 0 .. n /\ n - 1 < n /\ (n - 1) + 1 = n /\ n - 1 \in 0 .. n - 1
      BY <1>1
    <2> QED
      BY <1>2, <1>3, <1>4, <2>1
  <1>6. \A p \in 0 .. n : CharAt(d, p) = Nul <=> p = n
    <2> TAKE p \in 0 .. n
    <2>1. CASE p < n
      <3>1. p + 1 \in 1 .. n /\ p # n
        BY <1>1, <2>1
      <3>2. CharAt(d, p) \in {"a", "nl"}
        BY <1>1, <1>3, <2>1, <3>1
      <3> QED
        BY <3>1, <3>2 DEF Nul
    <2>2. CASE ~(p < n)
      BY <1>1, <1>3, <2>2
    <2> QED
      BY <2>1, <2>2
  <1>7. Breaks(d) \subseteq 0 .. n - 1 /\ \A b \in Nat : b \in Breaks(d) <=> b < n /\ CharAt(d, b) = "nl"
    BY <1>1, <1>4
  <1>8. n \in Starts(d) /\ 0 \in Starts(d) /\ Starts(d) \subseteq 0 .. n /\ \A p \in Starts(d) : p # 0 => p - 1 \in Breaks(d)
    <2>1. (n - 1) + 1 = n
      BY <1>1
    <2>2. \A b \in Breaks(d) : b + 1 \in 0 .. n /\ (b + 1) - 1 = b
      BY <1>1, <1>7
    <2> QED
      BY <1>1, <1>5, <2>1, <2>2 DEF Starts
  <1> QED
    BY <1>1, <1>5, <1>6, <1>7, <1>8 DEF n

\* They can be counted.
LEMMA BelowIs ==
    ASSUME NEW d, IsText(d.text), NEW p
    PROVE  /\ IsFiniteSet(Breaks(d)) /\ IsFiniteSet(Below(d, p))
           /\ LineOf(d, p) = Cardinality(Below(d, p)) /\ LineOf(d, p) \in Nat /\ LastLine(d) \in Nat \ {0}
           /\ LineOf(d, p) <= LastLine(d)
  <1>1. IsFiniteSet(Breaks(d)) /\ Breaks(d) # {}
    <2>1. 0 \in Int /\ Len(d.text) - 1 \in Int /\ Breaks(d) \subseteq 0 .. Len(d.text) - 1 /\ Breaks(d) # {}
      BY TextIs
    <2> QED
      BY <2>1, FS_Interval, FS_Subset
  <1>2. Below(d, p) \subseteq Breaks(d)
    BY DEF Below
  <1>3. IsFiniteSet(Below(d, p)) /\ Cardinality(Below(d, p)) <= Cardinality(Breaks(d))
    BY <1>1, <1>2, FS_Subset
  <1>4. Cardinality(Breaks(d)) \in Nat \ {0} /\ Cardinality(Below(d, p)) \in Nat
    BY <1>1, <1>3, FS_CardinalityType, FS_EmptySet
  <1> QED
    BY <1>1, <1>3, <1>4 DEF LineOf, Below, LastLine

\* The start of the next line, ...
LEMMA LineAhead ==
    ASSUME NEW d, IsText(d.text), NEW p \in Starts(d)
    PROVE  LET ahead == {i \in Breaks(d) : i >= p} IN
           /\ ahead = {} <=> p = Len(d.text)
           /\ ahead # {} => /\ Min(ahead) + 1 \in Starts(d) /\ LineOf(d, Min(ahead) + 1) = LineOf(d, p) + 1
                            /\ Min(ahead) + 1 > p
  <1> DEFINE ahead == {i \in Breaks(d) : i >= p}  n == Len(d.text)  b == Min(ahead)
  <1>1. n \in Nat \ {0} /\ Breaks(d) \subseteq 0 .. n - 1 /\ n - 1 \in Breaks(d) /\ p \in 0 .. n
    BY TextIs
  <1> HIDE DEF n
  <1>2. ahead = {} <=> p = n
    BY <1>1
  <1>3. ASSUME ahead # {} PROVE b + 1 \in Starts(d) /\ LineOf(d, b + 1) = LineOf(d, p) + 1 /\ b + 1 > p
    <2>1. ahead \subseteq Nat
      BY <1>1
    <2>2. b \in ahead /\ \A k \in ahead : b <= k
      <3> HIDE DEF ahead
      <3> QED
        BY <1>3, <2>1, MinNat
    <2>3. b \in Breaks(d) /\ b >= p /\ b \in Nat
      BY <1>1, <2>2
    <2>4. \A k \in Breaks(d) : k >= p => b <= k
      BY <2>2
    <2> HIDE DEF ahead, b
    <2>5. Below(d, b + 1) = Below(d, p) \cup {b} /\ b \notin Below(d, p)
      BY <1>1, <2>3, <2>4 DEF Below
    <2>6. IsFiniteSet(Below(d, p)) /\ LineOf(d, p) = Cardinality(Below(d, p)) /\ LineOf(d, b + 1) = Cardinality(Below(d, b + 1))
      BY BelowIs
    <2>7. Cardinality(Below(d, p) \cup {b}) = Cardinality(Below(d, p)) + 1
      BY <2>5, <2>6, FS_AddElement
    <2>8. b + 1 \in Starts(d) /\ b + 1 > p
      BY <1>1, <2>3 DEF Starts
    <2> QED
      BY <2>5, <2>6, <2>7, <2>8
  <1> QED
    BY <1>2, <1>3 DEF n

\* ... and that of the line before.
LEMMA LineBehind ==
    ASSUME NEW d, IsText(d.text), NEW p \in Starts(d)
    PROVE  LET behind == {k \in Breaks(d) : k < p - 1} IN
           /\ behind = {} <=> LineOf(d, p) <= 1
           /\ behind # {} => Max(behind) + 1 \in Starts(d) /\ LineOf(d, Max(behind) + 1) = LineOf(d, p) - 1
           /\ p = 0 <=> LineOf(d, p) = 0
  <1> DEFINE behind == {k \in Breaks(d) : k < p - 1}  n == Len(d.text)  b == Max(behind)
  <1>1. n \in Nat \ {0} /\ Breaks(d) \subseteq 0 .. n - 1 /\ p \in 0 .. n /\ (p # 0 => p - 1 \in Breaks(d))
    BY TextIs
  <1> HIDE DEF n
  <1>2. IsFiniteSet(behind) /\ Cardinality(behind) \in Nat /\ (behind = {} <=> Cardinality(behind) = 0)
    <2>1. behind \subseteq Breaks(d) /\ IsFiniteSet(Breaks(d))
      BY BelowIs
    <2> HIDE DEF behind
    <2> QED
      BY <2>1, FS_Subset, FS_CardinalityType, FS_EmptySet
  <1>3. \A x : LineOf(d, x) = Cardinality(Below(d, x))
    BY DEF LineOf, Below
  <1>4. CASE p = 0
    <2>1. Below(d, p) = {} /\ behind = {}
      BY <1>1, <1>4 DEF Below
    <2>2. LineOf(d, p) = 0
      BY <1>3, <2>1, FS_EmptySet
    <2> QED
      BY <1>4, <2>1, <2>2
  <1>5. CASE p # 0
    <2>1. p - 1 \in Breaks(d) /\ p - 1 \notin behind /\ Below(d, p) = behind \cup {p - 1}
      BY <1>1, <1>5 DEF Below
    <2>2. LineOf(d, p) = Cardinality(behind) + 1
      <3> HIDE DEF behind
      <3> QED
        BY <1>2, <1>3, <2>1, FS_AddElement
    <2>3. ASSUME behind # {} PROVE b + 1 \in Starts(d) /\ LineOf(d, b + 1) = LineOf(d, p) - 1
      <3>1. behind \subseteq 0 .. n - 1 /\ n - 1 \in Nat
        BY <1>1
      <3>2. b \in behind /\ \A k \in behind : k <= b
        <4> HIDE DEF behind, b
        <4> QED
          BY <2>3, <3>1, MaxNat DEF b
      <3>3. b \in Breaks(d) /\ b \in Nat /\ b < p - 1
        BY <1>1, <3>2
      <3>4. Below(d, b + 1) = behind
        <4>1. \A k \in Breaks(d) : k < b + 1 <=> k < p - 1
          <5> TAKE k \in Breaks(d)
          <5>1. k \in Nat /\ (k < p - 1 => k <= b)
            BY <1>1, <3>2
          <5> HIDE DEF b, behind
          <5> QED
            BY <1>1, <3>3, <5>1
        <4> HIDE DEF b
        <4> QED
          BY <4>1 DEF Below
      <3> HIDE DEF b, behind
      <3> QED
        BY <1>2, <1>3, <2>2, <3>3, <3>4 DEF Starts
    <2> HIDE DEF behind, b
    <2>4. (behind = {} <=> LineOf(d, p) <= 1) /\ LineOf(d, p) # 0
      BY <1>2, <2>2
    <2> QED
      BY <1>5, <2>3, <2>4, Zenon DEF behind, b
  <1> QED
    BY <1>4, <1>5

\* Lines that start later have greater numbers, and the last is the end.
LEMMA LinesGrow ==
    ASSUME NEW d, IsText(d.text), NEW p \in Starts(d), NEW q \in Starts(d)
    PROVE  /\ p < q <=> LineOf(d, p) < LineOf(d, q)
           /\ p = q <=> LineOf(d, p) = LineOf(d, q)
           /\ p = Len(d.text) <=> LineOf(d, p) = LastLine(d)
  <1> DEFINE n == Len(d.text)
  <1>1. /\ n \in Nat \ {0} /\ Breaks(d) \subseteq 0 .. n - 1 /\ Starts(d) \subseteq 0 .. n /\ n \in Starts(d)
        /\ \A x \in Starts(d) : x # 0 => x - 1 \in Breaks(d)
    BY TextIs
  <1> HIDE DEF n
  <1>2. ASSUME NEW x \in Starts(d), NEW y \in Starts(d), x < y PROVE LineOf(d, x) < LineOf(d, y)
    <2>1. y - 1 \in Breaks(d) /\ y - 1 \in Below(d, y) /\ y - 1 \notin Below(d, x) /\ Below(d, x) \subseteq Below(d, y)
      BY <1>1, <1>2 DEF Below
    <2>2. IsFiniteSet(Below(d, y)) /\ LineOf(d, x) = Cardinality(Below(d, x)) /\ LineOf(d, y) = Cardinality(Below(d, y))
          /\ LineOf(d, x) \in Nat /\ LineOf(d, y) \in Nat
      BY BelowIs
    <2>3. Cardinality(Below(d, x)) < Cardinality(Below(d, y))
      BY <2>1, <2>2, FS_Subset
    <2> QED
      BY <2>2, <2>3
  <1>3. \A x \in Starts(d) : x \in Int /\ LineOf(d, x) \in Int
    BY <1>1, BelowIs
  <1>4. p < q <=> LineOf(d, p) < LineOf(d, q)
    BY <1>2, <1>3
  <1>5. p = q <=> LineOf(d, p) = LineOf(d, q)
    BY <1>2, <1>3
  <1>6. LineOf(d, n) = LastLine(d)
    <2>1. Below(d, n) = Breaks(d)
      BY <1>1 DEF Below
    <2> QED
      BY <2>1, BelowIs DEF LastLine
  <1>7. p = n <=> LineOf(d, p) = LastLine(d)
    BY <1>1, <1>2, <1>3, <1>6
  <1> QED
    BY <1>4, <1>5, <1>7 DEF n

(***************************************************************************)
(* A box that shows a text, and the boxes that differ in their places.     *)
(***************************************************************************)
TextFields == {"kind", "text", "page", "begin_reached", "end_reached", "page_length", "hscroll", "boxh", "update_text", "rows",
               "out", "vscroll", "resizes", "top"}
Moving == {"page", "begin_reached", "end_reached", "page_length", "rows"}

IsBox(d) ==
    /\ d = [f \in TextFields |-> d[f]] /\ IsText(d.text)
    /\ d.page \in Starts(d) /\ d.begin_reached \in BOOLEAN /\ d.end_reached \in BOOLEAN
    /\ d.page_length \in Nat /\ d.rows \in Seq(Int \X Int)
    /\ d.boxh \in Nat \ {0} /\ d.hscroll \in Int

TextValues(d) == Nat \cup BOOLEAN \cup Seq(Int \X Int) \cup {d[f] : f \in TextFields}
Boxes(d) ==
    {e \in [TextFields -> TextValues(d)] :
        /\ e.page \in Starts(d) /\ e.begin_reached \in BOOLEAN /\ e.end_reached \in BOOLEAN
        /\ e.page_length \in Nat /\ e.rows \in Seq(Int \X Int)
        /\ \A f \in TextFields : f \notin Moving => e[f] = d[f]}

\* What a box of a text has, ...
LEMMA BoxIs ==
    ASSUME NEW d, IsBox(d)
    PROVE  d \in Boxes(d) /\ Starts(d) \subseteq Nat
  <1>1. Starts(d) \subseteq Nat
    BY TextIs DEF IsBox
  <1>2. d \in [TextFields -> TextValues(d)]
    BY DEF IsBox, TextValues
  <1> QED
    BY <1>1, <1>2 DEF IsBox, Boxes

\* ... and one at another place.
LEMMA BoxesAre ==
    ASSUME NEW d, IsBox(d), NEW e \in Boxes(d)
    PROVE  /\ IsBox(e) /\ Breaks(e) = Breaks(d) /\ Starts(e) = Starts(d) /\ LastLine(e) = LastLine(d)
           /\ \A x : LineOf(e, x) = LineOf(d, x) /\ CharAt(e, x) = CharAt(d, x)
           /\ \A f \in TextFields : f \notin Moving => e[f] = d[f]
           /\ e.text = d.text /\ e.boxh = d.boxh /\ e.hscroll = d.hscroll
           /\ e.page \in Starts(d) /\ e.page \in Nat /\ DOMAIN e = TextFields
           /\ e.begin_reached \in BOOLEAN /\ e.end_reached \in BOOLEAN
           /\ e.page_length \in Nat /\ e.rows \in Seq(Int \X Int)
  <1>1. \A f \in TextFields : f \notin Moving => e[f] = d[f]
    BY DEF Boxes
  <1>2. e.text = d.text /\ e.boxh = d.boxh /\ e.hscroll = d.hscroll
    BY <1>1 DEF TextFields, Moving
  <1>3. \A x : CharAt(e, x) = CharAt(d, x)
    BY <1>2 DEF CharAt
  <1>4. Breaks(e) = Breaks(d)
    BY <1>2, <1>3 DEF Breaks
  <1>5. Starts(e) = Starts(d) /\ LastLine(e) = LastLine(d) /\ \A x : LineOf(e, x) = LineOf(d, x)
    BY <1>4 DEF Starts, LastLine, LineOf
  <1>6. /\ e = [f \in TextFields |-> e[f]] /\ e.page \in Starts(d) /\ DOMAIN e = TextFields
        /\ e.begin_reached \in BOOLEAN /\ e.end_reached \in BOOLEAN
        /\ e.page_length \in Nat /\ e.rows \in Seq(Int \X Int)
    BY DEF Boxes
  <1>7. e.page \in Nat
    BY <1>6, BoxIs
  <1>8. IsBox(e)
    BY <1>2, <1>5, <1>6 DEF IsBox
  <1> QED
    BY <1>1, <1>2, <1>3, <1>4, <1>5, <1>6, <1>7, <1>8

\* A box is at another place if some of its places are changed.
LEMMA BoxMoved ==
    ASSUME NEW d, IsBox(d), NEW e \in Boxes(d), NEW x, DOMAIN x = TextFields, x = [f \in TextFields |-> x[f]],
           x.page \in Starts(d), x.begin_reached \in BOOLEAN, x.end_reached \in BOOLEAN, x.page_length \in Nat,
           x.rows \in Seq(Int \X Int), \A f \in TextFields : f \notin Moving => x[f] = e[f]
    PROVE  x \in Boxes(d)
  <1>1. \A f \in TextFields : f \notin Moving => x[f] = d[f]
    BY BoxesAre
  <1>2. \A f \in TextFields : x[f] \in TextValues(d)
    <2>1. x.page \in Nat
      BY BoxIs
    <2>2. x.page \in TextValues(d) /\ x.begin_reached \in TextValues(d) /\ x.end_reached \in TextValues(d)
          /\ x.page_length \in TextValues(d) /\ x.rows \in TextValues(d)
      BY <2>1 DEF TextValues
    <2>3. \A f \in TextFields : f \notin Moving => x[f] \in TextValues(d)
      BY <1>1 DEF TextValues
    <2> QED
      BY <2>2, <2>3 DEF Moving
  <1> QED
    BY <1>1, <1>2 DEF Boxes

\* The line a box is at.
At(e) == LineOf(e, e.page)

\* The place of a box is its line's.
LEMMA AtIs ==
    ASSUME NEW d, IsBox(d), NEW e \in Boxes(d)
    PROVE  /\ At(e) \in 0 .. LastLine(d) /\ LastLine(d) \in Nat \ {0}
           /\ At(e) = LineOf(d, e.page) /\ At(d) = LineOf(d, d.page)
           /\ e.page = Len(d.text) <=> At(e) = LastLine(d)
           /\ CharAt(e, e.page) = Nul <=> At(e) = LastLine(d)
           /\ e.page < Len(e.text) <=> At(e) < LastLine(d)
  <1>1. /\ IsText(d.text) /\ e.page \in Starts(d) /\ At(e) = LineOf(d, e.page) /\ CharAt(e, e.page) = CharAt(d, e.page)
        /\ e.text = d.text
    BY BoxesAre DEF At, IsBox
  <1>2. LineOf(d, e.page) \in Nat /\ LineOf(d, e.page) <= LastLine(d) /\ LastLine(d) \in Nat \ {0}
    BY <1>1, BelowIs
  <1>3. e.page = Len(d.text) <=> LineOf(d, e.page) = LastLine(d)
    BY <1>1, LinesGrow
  <1>4. e.page \in 0 .. Len(d.text) /\ Len(d.text) \in Nat /\ (CharAt(d, e.page) = Nul <=> e.page = Len(d.text))
    BY <1>1, TextIs
  <1> QED
    BY <1>1, <1>2, <1>3, <1>4 DEF At

\* The next line.
LEMMA GetLineIs ==
    ASSUME NEW d, IsBox(d), NEW e \in Boxes(d)
    PROVE  /\ get_line(e) \in Boxes(d)
           /\ At(get_line(e)) = IF At(e) < LastLine(d) THEN At(e) + 1 ELSE LastLine(d)
           /\ get_line(e).end_reached <=> At(e) = LastLine(d)
           /\ get_line(e).begin_reached = e.begin_reached /\ get_line(e).page_length = e.page_length
           /\ get_line(e).rows = e.rows
  <1> DEFINE ahead == {i \in Breaks(e) : i >= e.page}  g == get_line(e)
             p == IF ahead = {} THEN Len(e.text) ELSE Min(ahead) + 1
  <1>1. /\ IsText(d.text) /\ IsText(e.text) /\ e.page \in Starts(d) /\ e.page \in Starts(e) /\ e.text = d.text
        /\ Starts(e) = Starts(d) /\ LastLine(e) = LastLine(d) /\ DOMAIN e = TextFields
        /\ \A x : LineOf(e, x) = LineOf(d, x)
    BY BoxesAre DEF IsBox
  <1>2. /\ ahead = {} <=> e.page = Len(e.text)
        /\ ahead # {} => Min(ahead) + 1 \in Starts(e) /\ LineOf(e, Min(ahead) + 1) = LineOf(e, e.page) + 1
    BY <1>1, LineAhead
  <1>3. Len(e.text) \in Starts(e) /\ LineOf(e, Len(e.text)) = LastLine(e)
    BY <1>1, TextIs, LinesGrow
  <1>4. /\ ahead = {} => g = [e EXCEPT !.page = p, !.end_reached = TRUE]
        /\ ahead # {} => g = [e EXCEPT !.page = p, !.end_reached = FALSE]
    BY DEF get_line
  <1>5. /\ At(e) \in 0 .. LastLine(d) /\ LastLine(d) \in Nat \ {0} /\ At(e) = LineOf(e, e.page)
        /\ (e.page = Len(e.text) <=> At(e) = LastLine(d))
    BY <1>1, AtIs
  <1>6. /\ p \in Starts(e) /\ LineOf(e, p) = IF At(e) < LastLine(d) THEN At(e) + 1 ELSE LastLine(d)
        /\ ahead = {} <=> At(e) = LastLine(d)
    <2> HIDE DEF ahead
    <2>1. CASE ahead = {}
      BY <1>1, <1>2, <1>3, <1>5, <2>1
    <2>2. CASE ahead # {}
      BY <1>1, <1>2, <1>5, <2>2
    <2> QED
      BY <2>1, <2>2
  <1> HIDE DEF p, ahead, g
  <1>7. /\ DOMAIN g = TextFields /\ g = [f \in TextFields |-> g[f]] /\ g.page = p /\ g.end_reached \in BOOLEAN
        /\ (g.end_reached <=> ahead = {}) /\ g.begin_reached = e.begin_reached /\ g.page_length = e.page_length
        /\ g.rows = e.rows /\ \A f \in TextFields : f \notin Moving => g[f] = e[f]
    <2>1. CASE ahead = {}
      BY <1>1, <1>4, <2>1 DEF TextFields, Moving
    <2>2. CASE ahead # {}
      BY <1>1, <1>4, <2>2 DEF TextFields, Moving
    <2> QED
      BY <2>1, <2>2
  <1>8. g \in Boxes(d)
    <2>1. e.begin_reached \in BOOLEAN /\ e.page_length \in Nat /\ e.rows \in Seq(Int \X Int)
      BY BoxesAre
    <2> QED
      BY <1>1, <1>6, <1>7, <2>1, BoxMoved
  <1>9. At(g) = LineOf(e, p)
    BY <1>1, <1>7, <1>8, AtIs
  <1> QED
    BY <1>6, <1>7, <1>8, <1>9 DEF g

\* The page a number of lines on.
LEMMA GetLinesIs ==
    ASSUME NEW d, IsBox(d), NEW n \in Nat
    PROVE  /\ get_lines(d, n) \in Boxes(d)
           /\ At(get_lines(d, n)) = IF At(d) + n < LastLine(d) THEN At(d) + n ELSE LastLine(d)
           /\ n # 0 => (get_lines(d, n).end_reached <=> At(d) + n > LastLine(d))
           /\ get_lines(d, n).begin_reached = d.begin_reached
  <1> DEFINE S == Boxes(d)
             F == [e \in S |-> get_line(e)]
             P(g) == g = [i \in 0 .. n |-> IF i = 0 THEN d ELSE get_line(g[i - 1])]
             Got == CHOOSE g : P(g)
  <1>1. get_lines(d, n) = Got[n]
    BY DEF get_lines
  <1>2. F \in [S -> S] /\ d \in S
    BY GetLineIs, BoxIs
  <1>3. ASSUME NEW g, \A i \in 0 .. n : i # 0 => g[i - 1] \in S
        PROVE  P(g) <=> Results(g, F, d, n)
    <2>1. ASSUME NEW i \in 0 .. n, i # 0
          PROVE  F[g[i - 1]] = get_line(g[i - 1])
      BY <1>3, <2>1
    <2> HIDE DEF F
    <2> QED
      BY <2>1 DEF Results
  <1>4. P(Got)
    <2>1. PICK g \in [0 .. n -> S] : Results(g, F, d, n)
      <3> HIDE DEF F
      <3> QED
        BY <1>2, ResultsExist
    <2>2. \A i \in 0 .. n : i # 0 => g[i - 1] \in S
      OBVIOUS
    <2>3. P(g)
      <3> HIDE DEF F, P
      <3> QED
        BY <1>3, <2>1, <2>2
    <2> HIDE DEF P
    <2> QED
      BY <2>3
  <1>5. Got[0] = d /\ \A i \in 0 .. n : i # 0 => Got[i] = get_line(Got[i - 1])
    <2> HIDE DEF Got
    <2>1. \A i \in 0 .. n : Got[i] = IF i = 0 THEN d ELSE get_line(Got[i - 1])
      BY <1>4
    <2> QED
      BY <2>1
  <1> HIDE DEF Got
  <1> DEFINE Claim(i) == /\ Got[i] \in S /\ At(Got[i]) = IF At(d) + i < LastLine(d) THEN At(d) + i ELSE LastLine(d)
                         /\ i # 0 => (Got[i].end_reached <=> At(d) + i > LastLine(d))
                         /\ Got[i].begin_reached = d.begin_reached
             T == {i \in 0 .. n : Claim(i)}
  <1>6. At(d) \in 0 .. LastLine(d) /\ LastLine(d) \in Nat \ {0}
    BY <1>2, AtIs
  <1>7. 0 \in T
    BY <1>2, <1>5, <1>6
  <1>8. ASSUME NEW i \in 0 .. n, i \in T, i < n PROVE i + 1 \in T
    <2> DEFINE e == Got[i]
    <2>1. Claim(i) /\ i + 1 \in 0 .. n /\ i + 1 # 0 /\ (i + 1) - 1 = i
      BY <1>8
    <2>2. Got[i + 1] = get_line(e)
      BY <1>5, <2>1
    <2>3. /\ get_line(e) \in S /\ At(get_line(e)) = IF At(e) < LastLine(d) THEN At(e) + 1 ELSE LastLine(d)
          /\ get_line(e).end_reached <=> At(e) = LastLine(d)
          /\ get_line(e).begin_reached = e.begin_reached
      BY <2>1, GetLineIs
    <2>4. /\ At(e) = IF At(d) + i < LastLine(d) THEN At(d) + i ELSE LastLine(d)
          /\ e.begin_reached = d.begin_reached
      BY <2>1
    <2> HIDE DEF e
    <2>5. Claim(i + 1)
      BY <1>6, <2>1, <2>2, <2>3, <2>4
    <2> HIDE DEF Claim
    <2> QED
      BY <2>1, <2>5
  <1>9. \A i \in 0 .. n : i \in T
    <2> HIDE DEF T
    <2> QED
      BY <1>7, <1>8, UpTo
  <1> QED
    BY <1>1, <1>9

\* One line back.
BackStep(p) ==
    LET behind == {k \in Breaks(p) : k < p.page - 1}
    IN IF p.begin_reached THEN p
       ELSE IF CharAt(p, p.page) = Nul /\ p.end_reached THEN [p EXCEPT !.end_reached = FALSE]
       ELSE IF behind = {} THEN [p EXCEPT !.page = 0, !.begin_reached = TRUE]
       ELSE [p EXCEPT !.page = Max(behind) + 1]

LEMMA BackStepIs ==
    ASSUME NEW d, IsBox(d), NEW e \in Boxes(d)
    PROVE  LET g == BackStep(e)  ends == e.end_reached /\ At(e) = LastLine(d) IN
           /\ g \in Boxes(d)
           /\ e.begin_reached => g = e
           /\ ~e.begin_reached /\ ends => At(g) = At(e) /\ ~g.end_reached /\ ~g.begin_reached
           /\ ~e.begin_reached /\ ~ends =>
                  /\ At(g) = IF At(e) > 1 THEN At(e) - 1 ELSE 0
                  /\ g.begin_reached <=> At(e) <= 1
                  /\ g.end_reached = e.end_reached
  <1> DEFINE behind == {k \in Breaks(e) : k < e.page - 1}  g == BackStep(e)  ends == e.end_reached /\ At(e) = LastLine(d)
  <1>1. /\ IsText(d.text) /\ IsText(e.text) /\ e.page \in Starts(d) /\ e.page \in Starts(e) /\ e.text = d.text
        /\ Starts(e) = Starts(d) /\ LastLine(e) = LastLine(d) /\ DOMAIN e = TextFields
        /\ \A x : LineOf(e, x) = LineOf(d, x)
        /\ e.begin_reached \in BOOLEAN /\ e.end_reached \in BOOLEAN /\ e.page_length \in Nat /\ e.rows \in Seq(Int \X Int)
        /\ e = [f \in TextFields |-> e[f]]
    <2>1. IsBox(e) /\ IsText(d.text)
      BY BoxesAre DEF IsBox
    <2>2. e = [f \in TextFields |-> e[f]] /\ IsText(e.text)
      BY <2>1 DEF IsBox
    <2> QED
      BY <2>1, <2>2, BoxesAre
  <1>2. /\ behind = {} <=> At(e) <= 1
        /\ behind # {} => Max(behind) + 1 \in Starts(d) /\ LineOf(d, Max(behind) + 1) = At(e) - 1
    BY <1>1, LineBehind DEF At
  <1>3. /\ At(e) \in 0 .. LastLine(d) /\ LastLine(d) \in Nat \ {0} /\ (CharAt(e, e.page) = Nul <=> At(e) = LastLine(d))
    BY AtIs
  <1>4. 0 \in Starts(d) /\ LineOf(d, 0) = 0
    <2>1. 0 \in Starts(d)
      BY <1>1, TextIs
    <2> QED
      BY <1>1, <2>1, LineBehind
  <1>5. CASE e.begin_reached
    <2>1. g = e
      BY <1>5 DEF BackStep
    <2> QED
      BY <1>5, <2>1
  <1>6. CASE ~e.begin_reached /\ ends
    <2>1. g = [e EXCEPT !.end_reached = FALSE]
      BY <1>3, <1>6 DEF BackStep
    <2> HIDE DEF g, ends
    <2>2. /\ DOMAIN g = TextFields /\ g = [f \in TextFields |-> g[f]] /\ g.page = e.page /\ g.end_reached = FALSE
          /\ g.begin_reached = e.begin_reached /\ g.page_length = e.page_length /\ g.rows = e.rows
          /\ \A f \in TextFields : f \notin Moving => g[f] = e[f]
      BY <1>1, <2>1 DEF TextFields, Moving
    <2>3. g \in Boxes(d)
      BY <1>1, <2>2, BoxMoved
    <2>4. At(g) = At(e)
      BY <2>2, <2>3, AtIs
    <2> QED
      BY <1>6, <2>2, <2>3, <2>4 DEF g, ends
  <1>7. CASE ~e.begin_reached /\ ~ends /\ behind = {}
    <2>1. g = [e EXCEPT !.page = 0, !.begin_reached = TRUE]
      BY <1>3, <1>7 DEF BackStep
    <2> HIDE DEF g, ends, behind
    <2>2. /\ DOMAIN g = TextFields /\ g = [f \in TextFields |-> g[f]] /\ g.page = 0 /\ g.end_reached = e.end_reached
          /\ g.begin_reached = TRUE /\ g.page_length = e.page_length /\ g.rows = e.rows
          /\ \A f \in TextFields : f \notin Moving => g[f] = e[f]
      BY <1>1, <2>1 DEF TextFields, Moving
    <2>3. g \in Boxes(d)
      BY <1>1, <1>4, <2>2, BoxMoved
    <2>4. At(g) = 0
      BY <1>4, <2>2, <2>3, AtIs
    <2> QED
      BY <1>2, <1>3, <1>7, <2>2, <2>3, <2>4 DEF g, ends, behind
  <1>8. CASE ~e.begin_reached /\ ~ends /\ behind # {}
    <2> DEFINE b == Max(behind) + 1
    <2>1. g = [e EXCEPT !.page = b]
      BY <1>3, <1>8 DEF BackStep
    <2>0. b \in Starts(d) /\ LineOf(d, b) = At(e) - 1 /\ At(e) > 1
      <3> HIDE DEF behind
      <3> QED
        BY <1>2, <1>3, <1>8
    <2> HIDE DEF g, ends, behind, b
    <2>2. /\ DOMAIN g = TextFields /\ g = [f \in TextFields |-> g[f]] /\ g.page = b /\ g.end_reached = e.end_reached
          /\ g.begin_reached = e.begin_reached /\ g.page_length = e.page_length /\ g.rows = e.rows
          /\ \A f \in TextFields : f \notin Moving => g[f] = e[f]
      BY <1>1, <2>1 DEF TextFields, Moving
    <2>3. g \in Boxes(d)
      BY <1>1, <2>0, <2>2, BoxMoved
    <2>4. At(g) = At(e) - 1
      BY <2>0, <2>2, <2>3, AtIs
    <2> QED
      BY <1>3, <1>8, <2>0, <2>2, <2>3, <2>4 DEF g, ends
  <1> HIDE DEF g, ends, behind
  <1> QED
    BY <1>5, <1>6, <1>7, <1>8 DEF g, ends

\* The page a number of lines back: the first step from the end is for the
\* line behind the last break.
LEMMA BackLinesIs ==
    ASSUME NEW d, IsBox(d), NEW n \in Nat
    PROVE  LET b == back_lines(d, n)
               m == IF d.end_reached /\ At(d) = LastLine(d) /\ n # 0 THEN n - 1 ELSE n
           IN /\ b \in Boxes(d)
              /\ At(b) = IF At(d) > m THEN At(d) - m ELSE 0
              /\ n # 0 \/ At(d) # 0 => (b.begin_reached <=> At(b) = 0)
  <1> DEFINE S == Boxes(d)
             F == [e \in S |-> BackStep(e)]
             s == [d EXCEPT !.begin_reached = FALSE]
             P(g) == g = [i \in 0 .. n |->
                            IF i = 0 THEN s
                            ELSE LET p == g[i - 1]
                                     behind == {k \in Breaks(p) : k < p.page - 1}
                                 IN IF p.begin_reached THEN p
                                    ELSE IF CharAt(p, p.page) = Nul /\ p.end_reached THEN [p EXCEPT !.end_reached = FALSE]
                                    ELSE IF behind = {} THEN [p EXCEPT !.page = 0, !.begin_reached = TRUE]
                                    ELSE [p EXCEPT !.page = Max(behind) + 1]]
             Back == CHOOSE g : P(g)
  <1>1. back_lines(d, n) = Back[n]
    BY DEF back_lines
  <1>2. d \in S /\ DOMAIN d = TextFields
    BY BoxIs DEF IsBox
  <1>3. /\ s \in S /\ At(s) = At(d) /\ ~s.begin_reached /\ s.end_reached = d.end_reached
    <2>1. /\ DOMAIN s = TextFields /\ s = [f \in TextFields |-> s[f]] /\ s.page = d.page /\ s.end_reached = d.end_reached
          /\ s.begin_reached = FALSE /\ s.page_length = d.page_length /\ s.rows = d.rows
          /\ \A f \in TextFields : f \notin Moving => s[f] = d[f]
      BY DEF IsBox, TextFields, Moving
    <2> HIDE DEF s
    <2>2. s \in S
      BY <1>2, <2>1, BoxMoved DEF IsBox
    <2> QED
      BY <1>2, <2>1, <2>2, AtIs
  <1>4. F \in [S -> S]
    BY BackStepIs
  <1> HIDE DEF s
  <1>5. ASSUME NEW g, \A i \in 0 .. n : i # 0 => g[i - 1] \in S
        PROVE  P(g) <=> Results(g, F, s, n)
    <2>1. ASSUME NEW i \in 0 .. n, i # 0
          PROVE  F[g[i - 1]] = BackStep(g[i - 1])
      BY <1>5, <2>1
    <2> HIDE DEF F
    <2>2. P(g) <=> g = [i \in 0 .. n |-> IF i = 0 THEN s ELSE BackStep(g[i - 1])]
      BY Zenon DEF BackStep
    <2> HIDE DEF P
    <2> QED
      BY <2>1, <2>2 DEF Results
  <1>6. P(Back)
    <2>1. PICK g \in [0 .. n -> S] : Results(g, F, s, n)
      <3> HIDE DEF F
      <3> QED
        BY <1>3, <1>4, ResultsExist
    <2>2. \A i \in 0 .. n : i # 0 => g[i - 1] \in S
      OBVIOUS
    <2>3. P(g)
      <3> HIDE DEF F, P
      <3> QED
        BY <1>5, <2>1, <2>2
    <2> HIDE DEF P
    <2> QED
      BY <2>3
  <1>7. Back[0] = s /\ \A i \in 0 .. n : i # 0 => Back[i] = BackStep(Back[i - 1])
    <2> HIDE DEF Back
    <2>1. Back = [i \in 0 .. n |-> IF i = 0 THEN s ELSE BackStep(Back[i - 1])]
      BY <1>6, Zenon DEF BackStep
    <2> HIDE DEF P
    <2>2. \A i \in 0 .. n : Back[i] = IF i = 0 THEN s ELSE BackStep(Back[i - 1])
      BY <2>1
    <2> QED
      BY <2>2
  <1> HIDE DEF Back
  <1> DEFINE l == At(d)  K == LastLine(d)  ends == d.end_reached /\ l = K
             m(i) == IF ends /\ i # 0 THEN i - 1 ELSE i
             Claim(i) == /\ Back[i] \in S /\ At(Back[i]) = IF l > m(i) THEN l - m(i) ELSE 0
                         /\ Back[i].begin_reached <=> m(i) >= 1 /\ m(i) >= l
                         /\ (Back[i].end_reached /\ At(Back[i]) = K) => (ends /\ i = 0)
                         /\ ends /\ i = 0 => Back[i].end_reached
             T == {i \in 0 .. n : Claim(i)}
  <1>8. l \in 0 .. K /\ K \in Nat \ {0}
    BY <1>2, AtIs
  <1>9. 0 \in T
    <2> HIDE DEF l, K
    <2>1. Claim(0)
      BY <1>3, <1>7, <1>8 DEF l
    <2> HIDE DEF Claim
    <2> QED
      BY <2>1
  <1>10. ASSUME NEW i \in 0 .. n, i \in T, i < n PROVE i + 1 \in T
    <2> DEFINE e == Back[i]  g == BackStep(e)
    <2>1. Claim(i) /\ i + 1 \in 0 .. n /\ i + 1 # 0 /\ (i + 1) - 1 = i /\ i \in Nat
      BY <1>10
    <2>2. Back[i + 1] = g
      BY <1>7, <2>1
    <2>3. /\ e \in S /\ At(e) = IF l > m(i) THEN l - m(i) ELSE 0
          /\ e.begin_reached <=> m(i) >= 1 /\ m(i) >= l
          /\ (e.end_reached /\ At(e) = K) => (ends /\ i = 0)
          /\ ends /\ i = 0 => e.end_reached
      BY <2>1
    <2>4. /\ g \in S
          /\ e.begin_reached => g = e
          /\ ~e.begin_reached /\ (e.end_reached /\ At(e) = K) => At(g) = At(e) /\ ~g.end_reached /\ ~g.begin_reached
          /\ ~e.begin_reached /\ ~(e.end_reached /\ At(e) = K) =>
                  /\ At(g) = IF At(e) > 1 THEN At(e) - 1 ELSE 0
                  /\ g.begin_reached <=> At(e) <= 1
                  /\ g.end_reached = e.end_reached
      BY <2>3, BackStepIs
    <2> HIDE DEF e, g, l, K
    <2>5. Claim(i + 1)
      <3>1. CASE ends /\ i = 0
        <4>1. m(i) = 0 /\ m(i + 1) = 0
          BY <2>1, <3>1
        <4>2. ~e.begin_reached /\ e.end_reached /\ At(e) = K
          BY <1>8, <2>3, <3>1, <4>1
        <4> QED
          BY <1>8, <2>1, <2>2, <2>3, <2>4, <3>1, <4>1, <4>2
      <3>2. CASE ~(ends /\ i = 0)
        <4>1. m(i) \in Nat /\ m(i + 1) = m(i) + 1
          BY <2>1, <3>2
        <4>2. ~(e.end_reached /\ At(e) = K)
          BY <2>3, <3>2
        <4>3. CASE e.begin_reached
          BY <1>8, <2>1, <2>2, <2>3, <2>4, <3>2, <4>1, <4>2, <4>3
        <4>4. CASE ~e.begin_reached
          <5> DEFINE x == At(e)
          <5>1. x = (IF l > m(i) THEN l - m(i) ELSE 0) /\ (m(i) = 0 \/ m(i) < l)
            BY <1>8, <2>3, <4>1, <4>4
          <5>2. At(g) = (IF x > 1 THEN x - 1 ELSE 0) /\ (g.begin_reached <=> x <= 1) /\ g.end_reached = e.end_reached
            BY <2>4, <4>2, <4>4
          <5> HIDE DEF x
          <5>3. /\ At(g) = IF l > m(i + 1) THEN l - m(i + 1) ELSE 0
                /\ g.begin_reached <=> m(i + 1) >= 1 /\ m(i + 1) >= l
            <6> HIDE DEF m
            <6> QED
              BY <1>8, <4>1, <5>1, <5>2
          <5>4. ~(g.end_reached /\ At(g) = K)
            <6>1. CASE x = K
              <7>1. At(g) # K
                BY <1>8, <5>2, <6>1
              <7> QED
                BY <7>1
            <6>2. CASE x # K
              <7>1. x <= K
                <8> HIDE DEF m
                <8> QED
                  BY <1>8, <4>1, <5>1
              <7>2. At(g) # K
                <8> HIDE DEF m
                <8> QED
                  BY <1>8, <4>1, <5>1, <5>2, <6>2, <7>1
              <7> QED
                BY <7>2
            <6> QED
              BY <6>1, <6>2
          <5> HIDE DEF m
          <5> QED
            BY <2>1, <2>2, <2>4, <5>3, <5>4
        <4> QED
          BY <4>3, <4>4
      <3> QED
        BY <3>1, <3>2
    <2> HIDE DEF Claim
    <2> QED
      BY <2>1, <2>5
  <1>11. \A i \in 0 .. n : i \in T
    <2> HIDE DEF T
    <2> QED
      BY <1>9, <1>10, UpTo
  <1>12. Claim(n)
    BY <1>11
  <1> DEFINE b == Back[n]  k == m(n)
  <1>13. /\ b \in S /\ At(b) = (IF l > k THEN l - k ELSE 0)
         /\ b.begin_reached <=> k >= 1 /\ k >= l
         /\ k = IF d.end_reached /\ l = K /\ n # 0 THEN n - 1 ELSE n
    BY <1>12
  <1> HIDE DEF b, k, l, K, m, Claim
  <1>14. n # 0 \/ l # 0 => (b.begin_reached <=> At(b) = 0)
    BY <1>8, <1>13
  <1> QED
    BY <1>1, <1>13, <1>14 DEF b, l, K

\* What depends on nothing but the text.
LEMMA SameText ==
    ASSUME NEW d, NEW x, x.text = d.text
    PROVE  /\ Breaks(x) = Breaks(d) /\ Starts(x) = Starts(d) /\ LastLine(x) = LastLine(d)
           /\ \A i : LineOf(x, i) = LineOf(d, i) /\ CharAt(x, i) = CharAt(d, i)
  <1>1. \A i : CharAt(x, i) = CharAt(d, i)
    BY DEF CharAt
  <1>2. Breaks(x) = Breaks(d)
    BY <1>1 DEF Breaks
  <1> QED
    BY <1>1, <1>2 DEF Starts, LastLine, LineOf

\* Where a line starts, and the row it is shown in.
StartOf(d, l) ==
    IF l = 0 THEN 0 ELSE CHOOSE i \in 1 .. Len(d.text) : CharAt(d, i - 1) = "nl" /\ LineOf(d, i) = l
RowOf(d, l) == IF l < Lines(d) - 1 THEN <<StartOf(d, l), d.hscroll>> ELSE Blank

LEMMA StartIs ==
    ASSUME NEW d, IsBox(d), NEW e \in Boxes(d)
    PROVE  StartOf(d, At(e)) = e.page
  <1> DEFINE n == Len(d.text)  p == e.page  l == At(e)
             Q(i) == CharAt(d, i - 1) = "nl" /\ LineOf(d, i) = l
  <1>1. /\ IsText(d.text) /\ p \in Starts(d) /\ l = LineOf(d, p)
    BY BoxesAre, AtIs DEF IsBox
  <1>2. /\ n \in Nat /\ p \in 0 .. n /\ (p # 0 => p - 1 \in Breaks(d))
        /\ \A b \in Nat : b \in Breaks(d) <=> b < n /\ CharAt(d, b) = "nl"
    BY <1>1, TextIs
  <1>3. p = 0 <=> l = 0
    BY <1>1, LineBehind
  <1>4. CASE p = 0
    BY <1>3, <1>4 DEF StartOf
  <1>5. CASE p # 0
    <2>1. StartOf(d, l) = CHOOSE i \in 1 .. n : Q(i)
      BY <1>3, <1>5 DEF StartOf
    <2>2. p \in 1 .. n /\ Q(p)
      BY <1>1, <1>2, <1>5
    <2>3. ASSUME NEW i \in 1 .. n, Q(i) PROVE i = p
      <3>1. i - 1 \in Breaks(d) /\ (i - 1) + 1 = i
        BY <1>2, <2>3
      <3>2. i \in Starts(d)
        BY <3>1 DEF Starts
      <3>3. \A x, y \in Starts(d) : x = y <=> LineOf(d, x) = LineOf(d, y)
        BY <1>1, LinesGrow
      <3> HIDE DEF l, p
      <3> QED
        BY <1>1, <2>3, <3>2, <3>3
    <2> HIDE DEF Q
    <2> QED
      BY <2>1, <2>2, <2>3
  <1> QED
    BY <1>4, <1>5

\* One row of a page.
RowStep(p) ==
    LET row == IF p.page < Len(p.text) THEN <<p.page, p.hscroll>> ELSE Blank
    IN [get_line(p) EXCEPT !.page_length = IF p.end_reached THEN @ ELSE @ + 1, !.rows = Append(@, row)]

LEMMA RowStepIs ==
    ASSUME NEW d, IsBox(d), NEW e \in Boxes(d)
    PROVE  LET g == RowStep(e) IN
           /\ g \in Boxes(d)
           /\ At(g) = IF At(e) < LastLine(d) THEN At(e) + 1 ELSE LastLine(d)
           /\ g.end_reached <=> At(e) = LastLine(d)
           /\ g.begin_reached = e.begin_reached
           /\ g.page_length = IF e.end_reached THEN e.page_length ELSE e.page_length + 1
           /\ g.rows = Append(e.rows, RowOf(d, At(e)))
  <1> DEFINE g == RowStep(e)  c == get_line(e)
             row == IF e.page < Len(e.text) THEN <<e.page, e.hscroll>> ELSE Blank
             len == IF e.end_reached THEN e.page_length ELSE e.page_length + 1
  <1>1. /\ c \in Boxes(d) /\ At(c) = (IF At(e) < LastLine(d) THEN At(e) + 1 ELSE LastLine(d))
        /\ (c.end_reached <=> At(e) = LastLine(d))
        /\ c.begin_reached = e.begin_reached /\ c.page_length = e.page_length /\ c.rows = e.rows
    BY GetLineIs
  <1>2. g = [c EXCEPT !.page_length = IF e.end_reached THEN @ ELSE @ + 1, !.rows = Append(@, row)]
    BY DEF RowStep
  <1>3. row = RowOf(d, At(e)) /\ row \in Int \X Int
    <2>1. /\ e.text = d.text /\ e.hscroll = d.hscroll /\ e.page \in Nat /\ d.hscroll \in Int
          /\ (e.page < Len(e.text) <=> At(e) < LastLine(d)) /\ At(e) \in Nat /\ LastLine(d) \in Nat
          /\ StartOf(d, At(e)) = e.page
      BY BoxesAre, AtIs, StartIs DEF IsBox
    <2>2. Lines(d) = LastLine(d) + 1
      BY DEF Lines, LastLine
    <2>3. Lines(d) - 1 = LastLine(d)
      BY <2>1, <2>2
    <2> QED
      BY <2>1, <2>3 DEF RowOf, Blank
  <1> HIDE DEF row, c, g
  <1>4. /\ DOMAIN c = TextFields /\ c = [f \in TextFields |-> c[f]]
        /\ c.page \in Starts(d) /\ c.begin_reached \in BOOLEAN /\ c.end_reached \in BOOLEAN
        /\ c.page_length \in Nat /\ c.rows \in Seq(Int \X Int)
    <2>1. IsBox(c)
      BY <1>1, BoxesAre
    <2>2. c = [f \in TextFields |-> c[f]]
      BY <2>1 DEF IsBox
    <2> QED
      BY <1>1, <2>2, BoxesAre
  <1>5. /\ DOMAIN g = TextFields /\ g = [f \in TextFields |-> g[f]] /\ g.page = c.page /\ g.end_reached = c.end_reached
        /\ g.begin_reached = c.begin_reached /\ g.page_length = len /\ g.rows = Append(c.rows, row)
        /\ \A f \in TextFields : f \notin Moving => g[f] = c[f]
    BY <1>1, <1>2, <1>4 DEF TextFields, Moving
  <1>6. len \in Nat /\ Append(c.rows, row) \in Seq(Int \X Int)
    BY <1>1, <1>3, <1>4
  <1>7. g \in Boxes(d)
    BY <1>1, <1>4, <1>5, <1>6, BoxMoved
  <1>8. At(g) = At(c)
    BY <1>1, <1>5, <1>7, AtIs
  <1> QED
    BY <1>1, <1>3, <1>5, <1>7, <1>8 DEF g

\* The rows of a page, from the line it is at.
PageOf(u, n) ==
    LET Done[i \in 0 .. n] ==
            IF i = 0 THEN [u EXCEPT !.page_length = 0, !.end_reached = FALSE, !.rows = <<>>]
            ELSE LET p == Done[i - 1]
                     row == IF p.page < Len(p.text) THEN <<p.page, p.hscroll>> ELSE Blank
                 IN [get_line(p) EXCEPT !.page_length = IF p.end_reached THEN @ ELSE @ + 1, !.rows = Append(@, row)]
    IN Done[n]

LEMMA PageOfIs ==
    ASSUME NEW d, IsBox(d), NEW n \in Nat
    PROVE  LET e == PageOf(d, n)  t == At(d)  K == LastLine(d) IN
           /\ e \in Boxes(d)
           /\ At(e) = IF t + n < K THEN t + n ELSE K
           /\ e.end_reached <=> t + n > K
           /\ e.begin_reached = d.begin_reached
           /\ e.page_length = IF n < K + 1 - t THEN n ELSE K + 1 - t
           /\ Len(e.rows) = n /\ \A r \in 1 .. n : e.rows[r] = RowOf(d, t + r - 1)
  <1> DEFINE S == Boxes(d)
             F == [e \in S |-> RowStep(e)]
             s == [d EXCEPT !.page_length = 0, !.end_reached = FALSE, !.rows = <<>>]
             P(g) == g = [i \in 0 .. n |->
                            IF i = 0 THEN s
                            ELSE LET p == g[i - 1]
                                     row == IF p.page < Len(p.text) THEN <<p.page, p.hscroll>> ELSE Blank
                                 IN [get_line(p) EXCEPT !.page_length = IF p.end_reached THEN @ ELSE @ + 1,
                                                        !.rows = Append(@, row)]]
             Done == CHOOSE g : P(g)
  <1>1. PageOf(d, n) = Done[n]
    BY DEF PageOf
  <1>2. d \in S /\ DOMAIN d = TextFields
    BY BoxIs DEF IsBox
  <1>3. /\ s \in S /\ At(s) = At(d) /\ ~s.end_reached /\ s.begin_reached = d.begin_reached /\ s.page_length = 0 /\ s.rows = <<>>
    <2>1. /\ DOMAIN s = TextFields /\ s = [f \in TextFields |-> s[f]] /\ s.page = d.page /\ s.end_reached = FALSE
          /\ s.begin_reached = d.begin_reached /\ s.page_length = 0 /\ s.rows = <<>>
          /\ \A f \in TextFields : f \notin Moving => s[f] = d[f]
      BY DEF IsBox, TextFields, Moving
    <2> HIDE DEF s
    <2>2. <<>> \in Seq(Int \X Int)
      OBVIOUS
    <2>4. /\ s.page \in Starts(d) /\ s.begin_reached \in BOOLEAN /\ s.end_reached \in BOOLEAN /\ s.page_length \in Nat
      <3>1. d.page \in Starts(d) /\ d.begin_reached \in BOOLEAN
        BY DEF IsBox
      <3>2. FALSE \in BOOLEAN /\ 0 \in Nat
        OBVIOUS
      <3> QED
        BY <2>1, <3>1, <3>2
    <2>5. s.rows \in Seq(Int \X Int)
      BY <2>1, <2>2, Zenon
    <2>3. s \in S
      BY <1>2, <2>1, <2>4, <2>5, BoxMoved
    <2> QED
      BY <1>2, <2>1, <2>3, AtIs
  <1>4. F \in [S -> S]
    BY RowStepIs
  <1> HIDE DEF s
  <1>5. ASSUME NEW g, \A i \in 0 .. n : i # 0 => g[i - 1] \in S
        PROVE  P(g) <=> Results(g, F, s, n)
    <2>1. ASSUME NEW i \in 0 .. n, i # 0
          PROVE  F[g[i - 1]] = RowStep(g[i - 1])
      BY <1>5, <2>1
    <2> HIDE DEF F
    <2>2. P(g) <=> g = [i \in 0 .. n |-> IF i = 0 THEN s ELSE RowStep(g[i - 1])]
      BY Zenon DEF RowStep
    <2> HIDE DEF P
    <2> QED
      BY <2>1, <2>2 DEF Results
  <1>6. P(Done)
    <2>1. PICK g \in [0 .. n -> S] : Results(g, F, s, n)
      <3> HIDE DEF F
      <3> QED
        BY <1>2, <1>3, <1>4, ResultsExist
    <2>2. \A i \in 0 .. n : i # 0 => g[i - 1] \in S
      BY <1>2
    <2>3. P(g)
      <3> HIDE DEF F, P
      <3> QED
        BY <1>5, <2>1, <2>2
    <2> HIDE DEF P
    <2> QED
      BY <2>3
  <1>7. Done[0] = s /\ \A i \in 0 .. n : i # 0 => Done[i] = RowStep(Done[i - 1])
    <2> HIDE DEF Done
    <2>1. Done = [i \in 0 .. n |-> IF i = 0 THEN s ELSE RowStep(Done[i - 1])]
      BY <1>6, Zenon DEF RowStep
    <2> HIDE DEF P
    <2>2. \A i \in 0 .. n : Done[i] = IF i = 0 THEN s ELSE RowStep(Done[i - 1])
      BY <2>1
    <2> QED
      BY <1>2, <2>2
  <1> HIDE DEF Done
  <1> DEFINE l == At(d)  K == LastLine(d)
             Claim(i) == /\ Done[i] \in S /\ At(Done[i]) = IF l + i < K THEN l + i ELSE K
                         /\ Done[i].end_reached <=> i # 0 /\ l + i > K
                         /\ Done[i].begin_reached = d.begin_reached
                         /\ Done[i].page_length = IF i < K + 1 - l THEN i ELSE K + 1 - l
                         /\ Len(Done[i].rows) = i /\ \A r \in 1 .. i : Done[i].rows[r] = RowOf(d, l + r - 1)
             T == {i \in 0 .. n : Claim(i)}
  <1>8. l \in 0 .. K /\ K \in Nat \ {0}
    BY <1>2, AtIs
  <1>9. 0 \in T
    <2> HIDE DEF l, K
    <2>1. Claim(0)
      <3>1. Len(<<>>) = 0 /\ 1 .. 0 = {}
        OBVIOUS
      <3>2. (l + 0 < K <=> l < K) /\ l + 0 = l /\ (0 < K + 1 - l) /\ (l < K \/ l = K)
        BY <1>8
      <3> QED
        BY <1>3, <1>7, <3>1, <3>2 DEF l
    <2> HIDE DEF Claim
    <2> QED
      BY <1>2, <2>1
  <1>10. ASSUME NEW i \in 0 .. n, i \in T, i < n PROVE i + 1 \in T
    <2> DEFINE e == Done[i]  g == RowStep(e)
    <2>1. Claim(i) /\ i + 1 \in 0 .. n /\ i + 1 # 0 /\ (i + 1) - 1 = i /\ i \in Nat
      BY <1>2, <1>10
    <2>2. Done[i + 1] = g
      BY <1>7, <2>1
    <2>3. /\ e \in S /\ At(e) = (IF l + i < K THEN l + i ELSE K)
          /\ (e.end_reached <=> i # 0 /\ l + i > K)
          /\ e.begin_reached = d.begin_reached
          /\ e.page_length = (IF i < K + 1 - l THEN i ELSE K + 1 - l)
          /\ Len(e.rows) = i /\ \A r \in 1 .. i : e.rows[r] = RowOf(d, l + r - 1)
      BY <2>1
    <2>4. /\ g \in S /\ At(g) = (IF At(e) < K THEN At(e) + 1 ELSE K)
          /\ (g.end_reached <=> At(e) = K)
          /\ g.begin_reached = e.begin_reached
          /\ g.page_length = (IF e.end_reached THEN e.page_length ELSE e.page_length + 1)
          /\ g.rows = Append(e.rows, RowOf(d, At(e)))
      BY <2>3, RowStepIs
    <2>5. RowOf(d, At(e)) = RowOf(d, l + (i + 1) - 1)
      <3>1. CASE l + i < K
        <4>1. At(e) = l + (i + 1) - 1
          <5> HIDE DEF e, l, K
          <5> QED
            BY <1>8, <2>1, <2>3, <3>1
        <4> QED
          BY <4>1
      <3>2. CASE ~(l + i < K)
        <4>1. /\ ~(At(e) < Lines(d) - 1) /\ ~(l + (i + 1) - 1 < Lines(d) - 1)
          <5>1. Lines(d) = K + 1
            BY DEF Lines, LastLine
          <5>2. At(e) = K
            BY <2>3, <3>2
          <5> HIDE DEF e, l, K
          <5> QED
            BY <1>8, <2>1, <3>2, <5>1, <5>2
        <4> HIDE DEF e, l, K
        <4> QED
          BY <4>1, Zenon DEF RowOf
      <3> QED
        BY <3>1, <3>2
    <2>6. e.rows \in Seq(Int \X Int)
      BY <2>3, BoxesAre
    <2> HIDE DEF e, g, l, K
    <2>7. /\ At(g) = (IF l + (i + 1) < K THEN l + (i + 1) ELSE K)
          /\ (g.end_reached <=> i + 1 # 0 /\ l + (i + 1) > K)
          /\ g.page_length = (IF i + 1 < K + 1 - l THEN i + 1 ELSE K + 1 - l)
      BY <1>8, <2>1, <2>3, <2>4
    <2>8. Len(g.rows) = i + 1 /\ \A r \in 1 .. i + 1 : g.rows[r] = RowOf(d, l + r - 1)
      <3> DEFINE w == RowOf(d, At(e))
      <3>1. g.rows = Append(e.rows, w) /\ Len(e.rows) = i
        BY <2>3, <2>4
      <3> HIDE DEF w
      <3>2. Len(g.rows) = i + 1 /\ g.rows[i + 1] = w /\ \A r \in 1 .. i : g.rows[r] = e.rows[r]
        BY <2>1, <2>6, <3>1
      <3>3. \A r \in 1 .. i + 1 : r = i + 1 \/ r \in 1 .. i
        BY <2>1
      <3> QED
        BY <2>3, <2>5, <3>2, <3>3 DEF w
    <2>9. Claim(i + 1)
      BY <2>2, <2>3, <2>4, <2>7, <2>8
    <2> HIDE DEF Claim
    <2> QED
      BY <2>1, <2>9
  <1>11. \A i \in 0 .. n : i \in T
    <2> HIDE DEF T
    <2> QED
      BY <1>2, <1>9, <1>10, UpTo
  <1>12. Claim(n)
    BY <1>2, <1>11
  <1> QED
    BY <1>1, <1>8, <1>12

\* A box of the same text, at the same place.
LEMMA BoxChanged ==
    ASSUME NEW d, IsBox(d), NEW x, x = [f \in TextFields |-> x[f]], x.text = d.text, x.page \in Starts(d),
           x.begin_reached \in BOOLEAN, x.end_reached \in BOOLEAN, x.page_length \in Nat, x.rows \in Seq(Int \X Int),
           x.boxh \in Nat \ {0}, x.hscroll \in Int
    PROVE  IsBox(x) /\ LastLine(x) = LastLine(d) /\ At(x) = LineOf(d, x.page) /\ (x.page = d.page => At(x) = At(d))
  <1>1. Starts(x) = Starts(d) /\ LastLine(x) = LastLine(d) /\ \A i : LineOf(x, i) = LineOf(d, i)
    BY SameText
  <1>2. IsBox(x)
    BY <1>1 DEF IsBox
  <1> QED
    BY <1>1, <1>2 DEF At

\* The text as it is shown, from the line a reader expects at the top.
TextInv(d) ==
    /\ IsBox(d) /\ d.kind = "text" /\ d.update_text \in BOOLEAN /\ d.vscroll \in Nat /\ d.resizes \in Nat /\ d.top \in Nat
    /\ d.out # Open /\ d.update_text => d.vscroll = d.top
    /\ d.out = Open =>
          /\ d.top <= LastLine(d)
          /\ At(d) = IF d.top + d.boxh < LastLine(d) THEN d.top + d.boxh ELSE LastLine(d)
          /\ d.end_reached <=> d.top + d.boxh > LastLine(d)
          /\ d.begin_reached <=> d.top = 0
          /\ d.page_length = IF d.boxh < LastLine(d) + 1 - d.top THEN d.boxh ELSE LastLine(d) + 1 - d.top
          /\ Len(d.rows) = d.boxh /\ \A r \in 1 .. d.boxh : d.rows[r] = RowOf(d, d.top + r - 1)

\* A text about to be drawn: at the line expected, or behind it if that is
\* too far.
Ready(d) ==
    /\ IsBox(d) /\ d.kind = "text" /\ d.out = Open /\ d.update_text \in BOOLEAN /\ d.vscroll \in Nat /\ d.resizes \in Nat
    /\ d.top \in Nat /\ At(d) = IF d.top < LastLine(d) THEN d.top ELSE LastLine(d)
    /\ ~d.update_text => d.top <= LastLine(d) /\ (d.begin_reached <=> d.top = 0)

\* The last line that can be the first.
LEMMA LastTopIs ==
    ASSUME NEW d, IsBox(d)
    PROVE  /\ LastTop(d) = IF LastLine(d) + 1 > d.boxh THEN LastLine(d) + 1 - d.boxh ELSE 0
           /\ LastTop(d) \in 0 .. LastLine(d)
  <1>1. LastLine(d) \in Nat \ {0} /\ d.boxh \in Nat \ {0}
    BY BoxIs, AtIs DEF IsBox
  <1>2. Lines(d) = LastLine(d) + 1
    BY DEF Lines, LastLine
  <1>3. LastTop(d) = IF Lines(d) - d.boxh <= 0 THEN 0 ELSE Lines(d) - d.boxh
    <2>1. Lines(d) - d.boxh \in Int /\ 0 \in Int
      BY <1>1, <1>2
    <2> QED
      BY <2>1, MinMaxTwo DEF LastTop
  <1> QED
    BY <1>1, <1>2, <1>3

\* Going a page on and back again leads to the line, or to the last that
\* fills the window.
LEMMA UpdatedIs ==
    ASSUME NEW d, IsBox(d)
    PROVE  LET u == back_lines(get_lines(d, d.boxh), d.boxh) IN
           /\ u \in Boxes(d) /\ At(u) = (IF At(d) < LastTop(d) THEN At(d) ELSE LastTop(d))
           /\ u.begin_reached <=> At(u) = 0
  <1> DEFINE h == d.boxh  g == get_lines(d, h)  u == back_lines(g, h)  K == LastLine(d)
             m == IF g.end_reached /\ At(g) = LastLine(g) /\ h # 0 THEN h - 1 ELSE h
  <1>1. h \in Nat \ {0} /\ K \in Nat \ {0} /\ At(d) \in 0 .. K
    BY BoxIs, AtIs DEF IsBox
  <1>2. /\ g \in Boxes(d) /\ At(g) = (IF At(d) + h < K THEN At(d) + h ELSE K)
        /\ (g.end_reached <=> At(d) + h > K)
    BY <1>1, GetLinesIs
  <1>3. IsBox(g) /\ LastLine(g) = K /\ g.boxh = h /\ Starts(g) = Starts(d) /\ g \in Boxes(g)
    BY <1>2, BoxesAre, BoxIs
  <1>4. /\ u \in Boxes(g) /\ At(u) = (IF At(g) > m THEN At(g) - m ELSE 0)
        /\ (u.begin_reached <=> At(u) = 0)
    <2> HIDE DEF g
    <2> QED
      BY <1>1, <1>3, BackLinesIs
  <1>5. u \in Boxes(d)
    <2> HIDE DEF u, g
    <2>1. /\ IsBox(u) /\ DOMAIN u = TextFields /\ u.page \in Starts(d) /\ u.begin_reached \in BOOLEAN /\ u.end_reached \in BOOLEAN
          /\ u.page_length \in Nat /\ u.rows \in Seq(Int \X Int) /\ \A f \in TextFields : f \notin Moving => u[f] = g[f]
      BY <1>3, <1>4, BoxesAre
    <2>2. u = [f \in TextFields |-> u[f]]
      BY <2>1 DEF IsBox
    <2> QED
      BY <1>2, <2>1, <2>2, BoxMoved
  <1>6. LastTop(d) = IF K + 1 > h THEN K + 1 - h ELSE 0
    BY LastTopIs
  <1>7. m = IF g.end_reached /\ At(g) = K THEN h - 1 ELSE h
    BY <1>1, <1>3
  <1> HIDE DEF g, u, h, K, m
  <1>8. At(u) = IF At(d) < LastTop(d) THEN At(d) ELSE LastTop(d)
    BY <1>1, <1>2, <1>4, <1>6, <1>7
  <1> QED
    BY <1>4, <1>5, <1>8 DEF g, u, h

\* The page drawn shows what is expected.
LEMMA PageShown ==
    ASSUME NEW d, Ready(d)
    PROVE  TextInv(print_page(d))
  <1> DEFINE u == IF d.update_text THEN back_lines(get_lines(d, d.boxh), d.boxh) ELSE d
             h == d.boxh  K == LastLine(d)  e == PageOf(u, h)  x == print_page(d)
             t == IF d.update_text THEN Min({d.top, LastTop(d)}) ELSE d.top
  <1>1. /\ IsBox(d) /\ d.kind = "text" /\ d.out = Open /\ d.update_text \in BOOLEAN /\ d.vscroll \in Nat /\ d.resizes \in Nat
        /\ d.top \in Nat /\ At(d) = (IF d.top < K THEN d.top ELSE K)
        /\ (~d.update_text => d.top <= K /\ (d.begin_reached <=> d.top = 0))
    BY DEF Ready
  <1>2. h \in Nat \ {0} /\ K \in Nat \ {0} /\ At(d) \in 0 .. K /\ d \in Boxes(d) /\ LastTop(d) \in 0 .. K
    BY <1>1, BoxIs, AtIs, LastTopIs DEF IsBox
  <1>3. t \in 0 .. K /\ u \in Boxes(d) /\ At(u) = t /\ (u.begin_reached <=> t = 0)
    <2>1. CASE d.update_text
      <3>1. u = back_lines(get_lines(d, d.boxh), d.boxh)
        BY <2>1
      <3>2. /\ u \in Boxes(d) /\ At(u) = (IF At(d) < LastTop(d) THEN At(d) ELSE LastTop(d))
            /\ (u.begin_reached <=> At(u) = 0)
        BY <1>1, <3>1, UpdatedIs
      <3>3. t = IF d.top <= LastTop(d) THEN d.top ELSE LastTop(d)
        <4>1. d.top \in Int /\ LastTop(d) \in Int
          BY <1>1, <1>2
        <4> QED
          BY <2>1, <4>1, MinMaxTwo
      <3> HIDE DEF u, K, t
      <3> QED
        BY <1>1, <1>2, <3>2, <3>3
    <2>2. CASE ~d.update_text
      <3>1. u = d /\ t = d.top
        BY <2>2
      <3> HIDE DEF u, t, K
      <3> QED
        BY <1>1, <1>2, <2>2, <3>1
    <2> QED
      BY <1>1, <2>1, <2>2
  <1>4. x = [e EXCEPT !.top = IF d.update_text THEN Min({@, LastTop(d)}) ELSE @]
    BY DEF print_page, PageOf
  <1> HIDE DEF u, t, x
  <1>5. /\ IsBox(u) /\ LastLine(u) = K /\ u.hscroll = d.hscroll /\ u.boxh = h /\ Starts(u) = Starts(d) /\ u.text = d.text
        /\ \A f \in TextFields : f \notin Moving => u[f] = d[f]
    BY <1>1, <1>3, BoxesAre
  <1>6. /\ e \in Boxes(u) /\ At(e) = (IF t + h < K THEN t + h ELSE K)
        /\ (e.end_reached <=> t + h > K) /\ e.begin_reached = u.begin_reached
        /\ e.page_length = (IF h < K + 1 - t THEN h ELSE K + 1 - t)
        /\ Len(e.rows) = h /\ \A r \in 1 .. h : e.rows[r] = RowOf(u, t + r - 1)
    <2> HIDE DEF h, K
    <2>1. At(u) = t /\ LastLine(u) = K /\ IsBox(u) /\ h \in Nat
      BY <1>2, <1>3, <1>5
    <2> QED
      BY <2>1, PageOfIs
  <1> HIDE DEF e
  <1>7. /\ IsBox(e) /\ LastLine(e) = K /\ e.page \in Starts(d) /\ e.text = d.text /\ DOMAIN e = TextFields
        /\ e.begin_reached \in BOOLEAN /\ e.end_reached \in BOOLEAN
        /\ e.page_length \in Nat /\ e.rows \in Seq(Int \X Int)
        /\ \A f \in TextFields : f \notin Moving => e[f] = d[f]
    BY <1>5, <1>6, BoxesAre
  <1>8. e.kind = d.kind /\ e.out = d.out /\ e.update_text = d.update_text /\ e.vscroll = d.vscroll /\ e.resizes = d.resizes
        /\ e.top = d.top /\ e.boxh = h /\ e.hscroll = d.hscroll
    BY <1>7 DEF TextFields, Moving
  <1>9. /\ x = [f \in TextFields |-> x[f]] /\ x.top = t /\ \A f \in TextFields : f # "top" => x[f] = e[f]
    <2>1. x = [e EXCEPT !.top = t]
      BY <1>4, <1>7, <1>8 DEF t, TextFields
    <2>2. e = [f \in TextFields |-> e[f]]
      BY <1>7 DEF IsBox
    <2> QED
      BY <2>1, <2>2 DEF TextFields
  <1>10. /\ x.text = e.text /\ x.page = e.page /\ x.begin_reached = e.begin_reached /\ x.end_reached = e.end_reached
         /\ x.page_length = e.page_length /\ x.rows = e.rows /\ x.boxh = h /\ x.hscroll = d.hscroll
         /\ x.kind = d.kind /\ x.out = d.out /\ x.update_text = d.update_text /\ x.vscroll = d.vscroll /\ x.resizes = d.resizes
    BY <1>8, <1>9 DEF TextFields
  <1>11. IsBox(x) /\ LastLine(x) = K /\ At(x) = At(e)
    <2>1. x.page \in Starts(e) /\ x.boxh \in Nat \ {0} /\ x.hscroll \in Int
      BY <1>1, <1>2, <1>6, <1>10, BoxesAre, <1>5 DEF IsBox
    <2> QED
      BY <1>7, <1>9, <1>10, <2>1, BoxChanged
  <1>12. \A l : RowOf(x, l) = RowOf(u, l)
    <2>1. /\ x.text = u.text /\ x.hscroll = u.hscroll /\ LastLine(x) = LastLine(u)
          /\ \A i : LineOf(x, i) = LineOf(u, i) /\ CharAt(x, i) = CharAt(u, i)
      BY <1>5, <1>7, <1>10, <1>11, SameText
    <2>2. Lines(x) = Lines(u)
      BY <2>1 DEF Lines, LastLine
    <2>3. \A l : StartOf(x, l) = StartOf(u, l)
      <3> TAKE l
      <3> DEFINE P(i) == CharAt(x, i - 1) = "nl" /\ LineOf(x, i) = l
                 Q(i) == CharAt(u, i - 1) = "nl" /\ LineOf(u, i) = l
      <3>1. \A i : P(i) <=> Q(i)
        BY <2>1
      <3>0. l = 0 => StartOf(x, l) = StartOf(u, l)
        BY DEF StartOf
      <3>2. l # 0 => StartOf(x, l) = (CHOOSE i \in 1 .. Len(u.text) : P(i))
        BY <2>1 DEF StartOf
      <3>3. l # 0 => StartOf(u, l) = (CHOOSE i \in 1 .. Len(u.text) : Q(i))
        BY DEF StartOf
      <3> HIDE DEF P, Q
      <3>4. (CHOOSE i \in 1 .. Len(u.text) : P(i)) = (CHOOSE i \in 1 .. Len(u.text) : Q(i))
        BY <3>1
      <3> QED
        <4> DEFINE c == CHOOSE i \in 1 .. Len(u.text) : P(i)
                   k == CHOOSE i \in 1 .. Len(u.text) : Q(i)
        <4>1. c = k /\ (l # 0 => StartOf(x, l) = c) /\ (l # 0 => StartOf(u, l) = k)
          BY <3>2, <3>3, <3>4
        <4> HIDE DEF c, k
        <4> QED
          BY <3>0, <4>1
    <2> QED
      BY <2>1, <2>2, <2>3 DEF RowOf
  <1> HIDE DEF h, K
  <1>13. t \in Nat /\ t <= K
    BY <1>2, <1>3
  <1> QED
    BY <1>1, <1>3, <1>6, <1>9, <1>10, <1>11, <1>12, <1>13 DEF TextInv, x

\* What a text that is shown has.
LEMMA TextFacts ==
    ASSUME NEW d, TextInv(d)
    PROVE  /\ IsBox(d) /\ DOMAIN d = TextFields /\ d = [f \in TextFields |-> d[f]] /\ d \in Boxes(d)
           /\ d.boxh \in Nat \ {0} /\ d.hscroll \in Int /\ d.page \in Starts(d)
           /\ d.begin_reached \in BOOLEAN /\ d.end_reached \in BOOLEAN /\ d.page_length \in Nat /\ d.rows \in Seq(Int \X Int)
           /\ LastLine(d) \in Nat \ {0} /\ At(d) \in 0 .. LastLine(d) /\ d.kind = "text"
           /\ d.update_text \in BOOLEAN /\ d.vscroll \in Nat /\ d.resizes \in Nat /\ d.top \in Nat
  <1>1. /\ IsBox(d) /\ d.kind = "text" /\ d.update_text \in BOOLEAN /\ d.vscroll \in Nat /\ d.resizes \in Nat /\ d.top \in Nat
    BY DEF TextInv
  <1>2. d = [f \in TextFields |-> d[f]]
    BY <1>1 DEF IsBox
  <1>3. d \in Boxes(d)
    BY <1>1, BoxIs
  <1>4. d.boxh \in Nat \ {0} /\ d.hscroll \in Int /\ d.page \in Starts(d)
        /\ d.begin_reached \in BOOLEAN /\ d.end_reached \in BOOLEAN /\ d.page_length \in Nat /\ d.rows \in Seq(Int \X Int)
    BY <1>1 DEF IsBox
  <1> QED
    BY <1>1, <1>2, <1>3, <1>4, AtIs

\* Going back by what is shown, and x lines more.
LEMMA BackFrom ==
    ASSUME NEW d, TextInv(d), d.out = Open, NEW c, c = [f \in TextFields |-> c[f]],
           \A f \in TextFields : f \notin {"top", "hscroll"} => c[f] = d[f], c.hscroll \in Int,
           NEW x \in Int, x >= 0 \/ (x = -1 /\ ~d.end_reached), NEW n, n = d.page_length + x
    PROVE  LET b == back_lines(c, n) IN
           /\ IsBox(c) /\ LastLine(c) = LastLine(d) /\ b \in Boxes(c)
           /\ At(b) = IF d.top > x THEN d.top - x ELSE 0
           /\ b.begin_reached <=> At(b) = 0
  <1> DEFINE b == back_lines(c, n)  K == LastLine(d)  t == d.top  h == d.boxh
             m == IF c.end_reached /\ At(c) = LastLine(c) /\ n # 0 THEN n - 1 ELSE n
  <1>1. /\ t <= K /\ At(d) = (IF t + h < K THEN t + h ELSE K) /\ (d.end_reached <=> t + h > K)
        /\ d.page_length = (IF h < K + 1 - t THEN h ELSE K + 1 - t) /\ h \in Nat \ {0} /\ K \in Nat \ {0} /\ t \in Nat
    BY TextFacts DEF TextInv
  <1>2. IsBox(c) /\ LastLine(c) = K /\ At(c) = At(d) /\ c.end_reached = d.end_reached
    <2>1. /\ c.text = d.text /\ c.page = d.page /\ c.begin_reached = d.begin_reached /\ c.end_reached = d.end_reached
          /\ c.page_length = d.page_length /\ c.rows = d.rows /\ c.boxh = d.boxh
      BY DEF TextFields
    <2> QED
      BY <2>1, TextFacts, BoxChanged
  <1>3. n \in Nat /\ (n # 0 \/ At(c) # 0)
    <2> HIDE DEF t, h, K
    <2> QED
      BY <1>1, <1>2
  <1>4. /\ b \in Boxes(c) /\ At(b) = (IF At(c) > m THEN At(c) - m ELSE 0) /\ (b.begin_reached <=> At(b) = 0)
    BY <1>2, <1>3, BackLinesIs
  <1>5. m = IF d.end_reached /\ At(d) = K /\ n # 0 THEN n - 1 ELSE n
    BY <1>2
  <1> HIDE DEF t, h, K, m, b
  <1>6. At(b) = IF t > x THEN t - x ELSE 0
    <2>1. CASE t + h > K
      <3>1. d.end_reached /\ At(d) = K /\ x >= 0 /\ n = K + 1 - t + x
        BY <1>1, <2>1
      <3>2. n # 0 /\ m = K - t + x
        BY <1>1, <1>5, <3>1
      <3> QED
        BY <1>1, <1>2, <1>4, <3>1, <3>2
    <2>2. CASE ~(t + h > K)
      <3>1. ~d.end_reached /\ At(d) = t + h /\ n = h + x
        BY <1>1, <2>2
      <3>2. m = h + x
        BY <1>5, <3>1
      <3> QED
        BY <1>1, <1>2, <1>4, <3>1, <3>2
    <2> QED
      BY <2>1, <2>2
  <1> QED
    BY <1>2, <1>4, <1>6 DEF b, K, t

\* A box at the line expected is ready to be drawn.
LEMMA ReadyAt ==
    ASSUME NEW c, IsBox(c), c.kind = "text", c.out = Open, c.update_text \in BOOLEAN, c.vscroll \in Nat, c.resizes \in Nat,
           c.top \in Nat, c.top <= LastLine(c), NEW b \in Boxes(c), At(b) = c.top, b.begin_reached <=> c.top = 0
    PROVE  Ready(b)
  <1>1. /\ IsBox(b) /\ LastLine(b) = LastLine(c) /\ \A f \in TextFields : f \notin Moving => b[f] = c[f]
    BY BoxesAre
  <1>2. /\ b.kind = c.kind /\ b.out = c.out /\ b.update_text = c.update_text /\ b.vscroll = c.vscroll
        /\ b.resizes = c.resizes /\ b.top = c.top
    BY <1>1 DEF TextFields, Moving
  <1>3. LastLine(c) \in Nat
    BY AtIs, BoxIs
  <1> QED
    BY <1>1, <1>2, <1>3 DEF Ready

\* What is changed of a text that is shown.
LEMMA TextTopped ==
    ASSUME NEW d, TextInv(d), d.out = Open, NEW x
    PROVE  LET c == [d EXCEPT !.top = x] IN
           /\ c = [f \in TextFields |-> c[f]] /\ c.top = x /\ c.hscroll = d.hscroll
           /\ c.kind = "text" /\ c.out = Open /\ c.update_text = d.update_text /\ c.vscroll = d.vscroll /\ c.resizes = d.resizes
           /\ \A f \in TextFields : f \notin {"top", "hscroll"} => c[f] = d[f]
  <1>1. d = [f \in TextFields |-> d[f]] /\ d.kind = "text"
    BY TextFacts
  <1> QED
    BY <1>1 DEF TextFields

\* See TextTopped.
LEMMA TextScrolled ==
    ASSUME NEW d, TextInv(d), d.out = Open, NEW x
    PROVE  LET c == [d EXCEPT !.hscroll = x] IN
           /\ c = [f \in TextFields |-> c[f]] /\ c.top = d.top /\ c.hscroll = x
           /\ c.kind = "text" /\ c.out = Open /\ c.update_text = d.update_text /\ c.vscroll = d.vscroll /\ c.resizes = d.resizes
           /\ \A f \in TextFields : f \notin {"top", "hscroll"} => c[f] = d[f]
  <1>1. d = [f \in TextFields |-> d[f]] /\ d.kind = "text"
    BY TextFacts
  <1> QED
    BY <1>1 DEF TextFields

\* The keys that go back from what is shown.
LEMMA UpReady ==
    ASSUME NEW d, TextInv(d), d.out = Open, NEW x \in Int, x >= 0 \/ (x = -1 /\ ~d.end_reached), NEW n, n = d.page_length + x,
           NEW y, y = IF d.top > x THEN d.top - x ELSE 0
    PROVE  Ready(back_lines([d EXCEPT !.top = y], n))
  <1> DEFINE c == [d EXCEPT !.top = y]  b == back_lines(c, n)
  <1>1. /\ c = [f \in TextFields |-> c[f]] /\ c.top = y /\ c.hscroll = d.hscroll
        /\ c.kind = "text" /\ c.out = Open /\ c.update_text = d.update_text /\ c.vscroll = d.vscroll /\ c.resizes = d.resizes
        /\ \A f \in TextFields : f \notin {"top", "hscroll"} => c[f] = d[f]
    BY TextTopped
  <1>2. /\ d.hscroll \in Int /\ d.update_text \in BOOLEAN /\ d.vscroll \in Nat /\ d.resizes \in Nat /\ d.top \in Nat
        /\ d.boxh \in Nat \ {0} /\ LastLine(d) \in Nat
    BY TextFacts
  <1>3. d.top <= LastLine(d) /\ (d.end_reached <=> d.top + d.boxh > LastLine(d))
    BY DEF TextInv
  <1>4. y \in Nat /\ y <= LastLine(d)
    BY <1>2, <1>3
  <1> HIDE DEF c
  <1>5. /\ IsBox(c) /\ LastLine(c) = LastLine(d) /\ b \in Boxes(c)
        /\ At(b) = (IF d.top > x THEN d.top - x ELSE 0) /\ (b.begin_reached <=> At(b) = 0)
    BY <1>1, <1>2, BackFrom
  <1> HIDE DEF b
  <1>6. Ready(b)
    BY <1>1, <1>2, <1>4, <1>5, ReadyAt
  <1> QED
    BY <1>6 DEF b, c

\* The keys that scroll to the left and to the right.
LEMMA AsideReady ==
    ASSUME NEW d, TextInv(d), d.out = Open, NEW z \in Int
    PROVE  Ready(back_lines([d EXCEPT !.hscroll = z], d.page_length))
  <1> DEFINE c == [d EXCEPT !.hscroll = z]  n == d.page_length  b == back_lines(c, n)
  <1>1. /\ c = [f \in TextFields |-> c[f]] /\ c.top = d.top /\ c.hscroll = z
        /\ c.kind = "text" /\ c.out = Open /\ c.update_text = d.update_text /\ c.vscroll = d.vscroll /\ c.resizes = d.resizes
        /\ \A f \in TextFields : f \notin {"top", "hscroll"} => c[f] = d[f]
    BY TextScrolled
  <1>2. /\ d.update_text \in BOOLEAN /\ d.vscroll \in Nat /\ d.resizes \in Nat /\ d.top \in Nat
        /\ LastLine(d) \in Nat /\ n \in Nat
    BY TextFacts
  <1>3. d.top <= LastLine(d) /\ n = d.page_length + 0 /\ 0 \in Int
    BY <1>2 DEF TextInv
  <1> HIDE DEF c, n
  <1>4. /\ IsBox(c) /\ LastLine(c) = LastLine(d) /\ b \in Boxes(c)
        /\ At(b) = (IF d.top > 0 THEN d.top - 0 ELSE 0) /\ (b.begin_reached <=> At(b) = 0)
    BY <1>1, <1>3, BackFrom
  <1> HIDE DEF b
  <1>5. At(b) = c.top
    BY <1>1, <1>2, <1>4
  <1>6. Ready(b)
    BY <1>1, <1>2, <1>3, <1>4, <1>5, ReadyAt
  <1> QED
    BY <1>6 DEF b, c, n

\* The first page, the last and the next.
LEMMA HomeReady ==
    ASSUME NEW d, TextInv(d), d.out = Open
    PROVE  Ready([d EXCEPT !.begin_reached = TRUE, !.page = 0, !.top = 0])
  <1> DEFINE c == [d EXCEPT !.begin_reached = TRUE, !.page = 0, !.top = 0]
  <1>1. d = [f \in TextFields |-> d[f]] /\ d.kind = "text" /\ IsBox(d)
    BY TextFacts
  <1>2. /\ c = [f \in TextFields |-> c[f]] /\ c.top = 0 /\ c.page = 0 /\ c.begin_reached = TRUE
        /\ c.text = d.text /\ c.end_reached = d.end_reached /\ c.page_length = d.page_length /\ c.rows = d.rows
        /\ c.boxh = d.boxh /\ c.hscroll = d.hscroll
        /\ c.kind = "text" /\ c.out = Open /\ c.update_text = d.update_text /\ c.vscroll = d.vscroll /\ c.resizes = d.resizes
    BY <1>1 DEF TextFields
  <1>3. 0 \in Starts(d) /\ LineOf(d, 0) = 0
    <2>1. IsText(d.text)
      BY <1>1 DEF IsBox
    <2>2. 0 \in Starts(d)
      BY <2>1, TextIs
    <2> QED
      BY <2>1, <2>2, LineBehind
  <1> HIDE DEF c
  <1>4. /\ d.boxh \in Nat \ {0} /\ d.hscroll \in Int /\ d.end_reached \in BOOLEAN /\ d.page_length \in Nat
        /\ d.rows \in Seq(Int \X Int) /\ LastLine(d) \in Nat \ {0}
        /\ d.update_text \in BOOLEAN /\ d.vscroll \in Nat /\ d.resizes \in Nat
    BY TextFacts
  <1>5. IsBox(c) /\ LastLine(c) = LastLine(d) /\ At(c) = 0
    <2>1. TRUE \in BOOLEAN
      OBVIOUS
    <2>2. c.page \in Starts(d) /\ LineOf(d, c.page) = 0 /\ c.begin_reached \in BOOLEAN /\ c.end_reached \in BOOLEAN
      BY <1>2, <1>3, <1>4, <2>1
    <2>3. c.page_length \in Nat /\ c.rows \in Seq(Int \X Int) /\ c.boxh \in Nat \ {0} /\ c.hscroll \in Int
      BY <1>2, <1>4
    <2>4. c = [f \in TextFields |-> c[f]] /\ c.text = d.text
      BY <1>2
    <2> QED
      BY <1>1, <2>2, <2>3, <2>4, BoxChanged
  <1> QED
    BY <1>2, <1>4, <1>5 DEF Ready, c

\* See HomeReady.
LEMMA EndReady ==
    ASSUME NEW d, TextInv(d), d.out = Open
    PROVE  Ready(back_lines([d EXCEPT !.end_reached = TRUE, !.page = Len(d.text), !.top = LastTop(d)], d.boxh))
  <1> DEFINE c == [d EXCEPT !.end_reached = TRUE, !.page = Len(d.text), !.top = LastTop(d)]  h == d.boxh  b == back_lines(c, h)
             K == LastLine(d)
             m == IF c.end_reached /\ At(c) = LastLine(c) /\ h # 0 THEN h - 1 ELSE h
  <1>1. d = [f \in TextFields |-> d[f]] /\ d.kind = "text" /\ IsBox(d)
    BY TextFacts
  <1>2. /\ c = [f \in TextFields |-> c[f]] /\ c.top = LastTop(d) /\ c.page = Len(d.text) /\ c.end_reached = TRUE
        /\ c.text = d.text /\ c.begin_reached = d.begin_reached /\ c.page_length = d.page_length /\ c.rows = d.rows
        /\ c.boxh = d.boxh /\ c.hscroll = d.hscroll
        /\ c.kind = "text" /\ c.out = Open /\ c.update_text = d.update_text /\ c.vscroll = d.vscroll /\ c.resizes = d.resizes
    BY <1>1 DEF TextFields
  <1>3. Len(d.text) \in Starts(d) /\ LineOf(d, Len(d.text)) = K
    <2>1. IsText(d.text)
      BY <1>1 DEF IsBox
    <2>2. Len(d.text) \in Starts(d)
      BY <2>1, TextIs
    <2> QED
      BY <2>1, <2>2, LinesGrow
  <1> HIDE DEF c
  <1>4. /\ h \in Nat \ {0} /\ d.hscroll \in Int /\ d.begin_reached \in BOOLEAN /\ d.page_length \in Nat
        /\ d.rows \in Seq(Int \X Int) /\ K \in Nat \ {0}
        /\ d.update_text \in BOOLEAN /\ d.vscroll \in Nat /\ d.resizes \in Nat
    BY TextFacts
  <1>5. IsBox(c) /\ LastLine(c) = K /\ At(c) = K
    <2>1. TRUE \in BOOLEAN
      OBVIOUS
    <2>2. c.page \in Starts(d) /\ LineOf(d, c.page) = K /\ c.begin_reached \in BOOLEAN /\ c.end_reached \in BOOLEAN
      BY <1>2, <1>3, <1>4, <2>1
    <2>3. c.page_length \in Nat /\ c.rows \in Seq(Int \X Int) /\ c.boxh \in Nat \ {0} /\ c.hscroll \in Int
      BY <1>2, <1>4
    <2>4. c = [f \in TextFields |-> c[f]] /\ c.text = d.text
      BY <1>2
    <2> QED
      BY <1>1, <2>2, <2>3, <2>4, BoxChanged
  <1>6. b \in Boxes(c) /\ At(b) = (IF K > m THEN K - m ELSE 0) /\ (b.begin_reached <=> At(b) = 0)
    <2> HIDE DEF h, K
    <2> QED
      BY <1>4, <1>5, BackLinesIs
  <1>7. m = h - 1 /\ LastTop(d) = (IF K + 1 > h THEN K + 1 - h ELSE 0) /\ LastTop(d) \in 0 .. K
    BY <1>1, <1>2, <1>4, <1>5, LastTopIs
  <1> HIDE DEF b, m, K
  <1>8. At(b) = c.top /\ c.top \in Nat /\ c.top <= K
    <2> HIDE DEF h
    <2> QED
      BY <1>2, <1>4, <1>6, <1>7
  <1>9. Ready(b)
    BY <1>2, <1>4, <1>5, <1>6, <1>8, ReadyAt
  <1> QED
    BY <1>9 DEF b, c, h

\* See HomeReady.
LEMMA NextReady ==
    ASSUME NEW d, TextInv(d), d.out = Open, ~d.end_reached
    PROVE  Ready([d EXCEPT !.begin_reached = FALSE, !.top = @ + d.boxh])
  <1> DEFINE c == [d EXCEPT !.begin_reached = FALSE, !.top = @ + d.boxh]
  <1>1. d = [f \in TextFields |-> d[f]] /\ d.kind = "text" /\ IsBox(d)
    BY TextFacts
  <1>2. /\ c = [f \in TextFields |-> c[f]] /\ c.top = d.top + d.boxh /\ c.page = d.page /\ c.begin_reached = FALSE
        /\ c.text = d.text /\ c.end_reached = d.end_reached /\ c.page_length = d.page_length /\ c.rows = d.rows
        /\ c.boxh = d.boxh /\ c.hscroll = d.hscroll
        /\ c.kind = "text" /\ c.out = Open /\ c.update_text = d.update_text /\ c.vscroll = d.vscroll /\ c.resizes = d.resizes
    BY <1>1 DEF TextFields
  <1> HIDE DEF c
  <1>4. /\ d.boxh \in Nat \ {0} /\ d.hscroll \in Int /\ d.end_reached \in BOOLEAN /\ d.page_length \in Nat
        /\ d.rows \in Seq(Int \X Int) /\ LastLine(d) \in Nat \ {0} /\ d.page \in Starts(d) /\ d.top \in Nat
        /\ d.update_text \in BOOLEAN /\ d.vscroll \in Nat /\ d.resizes \in Nat
    BY TextFacts
  <1>5. IsBox(c) /\ LastLine(c) = LastLine(d) /\ At(c) = At(d)
    <2>1. FALSE \in BOOLEAN
      OBVIOUS
    <2> QED
      BY <1>1, <1>2, <1>4, <2>1, BoxChanged
  <1>6. /\ At(d) = (IF d.top + d.boxh < LastLine(d) THEN d.top + d.boxh ELSE LastLine(d))
        /\ ~(d.top + d.boxh > LastLine(d))
    BY DEF TextInv
  <1>7. c.top \in Nat /\ At(c) = c.top /\ c.top <= LastLine(c) /\ c.top # 0
    <2> DEFINE t == d.top  h == d.boxh  K == LastLine(d)
    <2>1. /\ c.top = t + h /\ LastLine(c) = K /\ At(c) = At(d)
          /\ At(d) = (IF t + h < K THEN t + h ELSE K) /\ ~(t + h > K) /\ t \in Nat /\ h \in Nat \ {0} /\ K \in Nat
      BY <1>2, <1>4, <1>5, <1>6
    <2> HIDE DEF t, h, K
    <2> QED
      BY <2>1
  <1> QED
    BY <1>2, <1>4, <1>5, <1>7 DEF Ready, c

\* A key that moves.
LEMMA PagedReady ==
    ASSUME NEW d, TextInv(d), d.out = Open, NEW key \in TextKeys, key \notin {"exit", KEY_ESC, "jump", "sequence"},
           ~Ignored(d, key)
    PROVE  Ready(Paged(d, key))
  <1>1. /\ d.top \in Nat /\ d.boxh \in Nat \ {0} /\ d.page_length \in Nat /\ d.hscroll \in Int
    BY TextFacts
  <1>2. key \in {"home", "end", "up", "ppage", "down", "npage", "0", "left", "right"}
    BY DEF TextKeys, KEY_ESC
  <1>3. CASE key = "home"
    BY <1>3, HomeReady DEF Paged
  <1>4. CASE key = "end"
    BY <1>4, EndReady DEF Paged
  <1>5. CASE key = "up"
    <2> DEFINE y == Max({d.top - 1, 0})  n == d.page_length + 1
    <2>1. y = IF d.top > 1 THEN d.top - 1 ELSE 0
      <3>1. d.top - 1 \in Int /\ 0 \in Int
        BY <1>1
      <3>2. y = IF d.top - 1 <= 0 THEN 0 ELSE d.top - 1
        BY <3>1, MinMaxTwo
      <3> QED
        BY <1>1, <3>2
    <2>2. Paged(d, key) = back_lines([d EXCEPT !.top = y], n)
      <3>1. [d EXCEPT !.top = Max({@ - 1, 0})] = [d EXCEPT !.top = y]
        BY TextFacts DEF TextFields
      <3> QED
        BY <1>5, <3>1 DEF Paged
    <2>3. 1 \in Int /\ 1 >= 0 /\ n = d.page_length + 1
      OBVIOUS
    <2> HIDE DEF y, n
    <2> QED
      BY <2>1, <2>2, <2>3, UpReady
  <1>6. CASE key = "ppage"
    <2> DEFINE y == Max({d.top - d.boxh, 0})  n == d.page_length + d.boxh  h == d.boxh
    <2>1. y = IF d.top > h THEN d.top - h ELSE 0
      <3>1. d.top - d.boxh \in Int /\ 0 \in Int
        BY <1>1
      <3>2. y = IF d.top - d.boxh <= 0 THEN 0 ELSE d.top - d.boxh
        BY <3>1, MinMaxTwo
      <3> QED
        BY <1>1, <3>2
    <2>2. Paged(d, key) = back_lines([d EXCEPT !.top = y], n)
      <3>1. [d EXCEPT !.top = Max({@ - d.boxh, 0})] = [d EXCEPT !.top = y]
        BY TextFacts DEF TextFields
      <3> QED
        BY <1>6, <3>1 DEF Paged
    <2>3. h \in Int /\ h >= 0 /\ n = d.page_length + h
      BY <1>1
    <2> HIDE DEF y, n, h
    <2> QED
      BY <2>1, <2>2, <2>3, UpReady
  <1>7. CASE key = "down"
    <2> DEFINE y == d.top + 1  n == d.page_length - 1
    <2>1. y = IF d.top > -1 THEN d.top - (-1) ELSE 0
      BY <1>1
    <2>2. Paged(d, key) = back_lines([d EXCEPT !.top = y], n)
      <3>1. [d EXCEPT !.top = @ + 1] = [d EXCEPT !.top = y]
        BY TextFacts DEF TextFields
      <3> QED
        BY <1>7, <3>1 DEF Paged
    <2>3. -1 \in Int /\ n = d.page_length + (-1) /\ ~d.end_reached
      BY <1>1, <1>7 DEF Ignored
    <2> HIDE DEF y, n
    <2> QED
      BY <2>1, <2>2, <2>3, UpReady
  <1>8. CASE key = "npage"
    <2>1. ~d.end_reached
      BY <1>8 DEF Ignored
    <2>2. Paged(d, key) = [d EXCEPT !.begin_reached = FALSE, !.top = @ + d.boxh]
      BY <1>8 DEF Paged
    <2> QED
      BY <2>1, <2>2, NextReady
  <1>9. CASE key \in {"0", "left", "right"}
    <2> DEFINE z == CASE key = "0" -> 0 [] key = "left" -> d.hscroll - 1 [] key = "right" -> d.hscroll + 1
               n == d.page_length
    <2>1. z \in Int
      BY <1>1, <1>9
    <2>2. Paged(d, key) = back_lines([d EXCEPT !.hscroll = z], n)
      <3>1. [d EXCEPT !.hscroll = CASE key = "0" -> 0 [] key = "left" -> @ - 1 [] key = "right" -> @ + 1]
              = [d EXCEPT !.hscroll = z]
        BY TextFacts DEF TextFields
      <3> QED
        BY <1>9, <3>1 DEF Paged
    <2> HIDE DEF z
    <2> QED
      BY <2>1, <2>2, AsideReady
  <1> QED
    BY <1>2, <1>3, <1>4, <1>5, <1>6, <1>7, <1>8, <1>9

\* A text that is left.
LEMMA TextLeft ==
    ASSUME NEW d, TextInv(d), d.out = Open, NEW c, c \in {0, 1, Escaped}
    PROVE  LET left == back_lines(d, d.page_length) IN
           /\ d.update_text => TextInv([left EXCEPT !.out = c, !.vscroll = LineOf(left, left.page)])
           /\ ~d.update_text => TextInv([d EXCEPT !.out = c])
  <1> DEFINE left == back_lines(d, d.page_length)  n == d.page_length
             x == [left EXCEPT !.out = c, !.vscroll = LineOf(left, left.page)]
             y == [d EXCEPT !.out = c]
  <1>1. /\ IsBox(d) /\ d \in Boxes(d) /\ d = [f \in TextFields |-> d[f]] /\ n \in Nat /\ n = n + 0 /\ 0 \in Int
        /\ d.boxh \in Nat \ {0} /\ d.hscroll \in Int /\ d.page \in Starts(d)
        /\ d.begin_reached \in BOOLEAN /\ d.end_reached \in BOOLEAN /\ d.page_length \in Nat /\ d.rows \in Seq(Int \X Int)
        /\ d.kind = "text" /\ d.update_text \in BOOLEAN /\ d.vscroll \in Nat /\ d.resizes \in Nat /\ d.top \in Nat
    BY TextFacts
  <1>2. c # Open
    BY DEF Open, Escaped
  <1>3. ASSUME d.update_text PROVE TextInv(x)
    <2>1. left \in Boxes(d) /\ At(left) = (IF d.top > 0 THEN d.top - 0 ELSE 0)
      <3> HIDE DEF n
      <3>1. /\ d = [f \in TextFields |-> d[f]] /\ \A f \in TextFields : f \notin {"top", "hscroll"} => d[f] = d[f]
            /\ n = d.page_length + 0 /\ 0 >= 0 /\ 0 \in Int /\ d.hscroll \in Int
        BY <1>1 DEF n
      <3>2. back_lines(d, n) \in Boxes(d) /\ At(back_lines(d, n)) = (IF d.top > 0 THEN d.top - 0 ELSE 0)
        BY <3>1, BackFrom
      <3> QED
        BY <3>2 DEF n
    <2> HIDE DEF left, n
    <2>2. At(left) = d.top /\ At(left) = LineOf(left, left.page)
      BY <1>1, <2>1 DEF At
    <2>3. /\ IsBox(left) /\ DOMAIN left = TextFields /\ \A f \in TextFields : f \notin Moving => left[f] = d[f]
      BY <1>1, <2>1, BoxesAre
    <2>4. left = [f \in TextFields |-> left[f]] /\ left.page \in Starts(left) /\ left.begin_reached \in BOOLEAN
          /\ left.end_reached \in BOOLEAN /\ left.page_length \in Nat /\ left.rows \in Seq(Int \X Int)
          /\ left.boxh \in Nat \ {0} /\ left.hscroll \in Int
      BY <2>3 DEF IsBox
    <2>5. left.kind = d.kind /\ left.update_text = d.update_text /\ left.resizes = d.resizes /\ left.top = d.top
      BY <2>3 DEF TextFields, Moving
    <2>6. /\ x = [f \in TextFields |-> x[f]] /\ x.out = c /\ x.vscroll = LineOf(left, left.page)
          /\ x.text = left.text /\ x.page = left.page /\ x.begin_reached = left.begin_reached
          /\ x.end_reached = left.end_reached /\ x.page_length = left.page_length /\ x.rows = left.rows
          /\ x.boxh = left.boxh /\ x.hscroll = left.hscroll /\ x.kind = left.kind /\ x.update_text = left.update_text
          /\ x.resizes = left.resizes /\ x.top = left.top
      BY <2>4 DEF TextFields
    <2> HIDE DEF x
    <2>7. IsBox(x)
      BY <2>3, <2>4, <2>6, BoxChanged
    <2> QED
      BY <1>1, <1>2, <2>2, <2>5, <2>6, <2>7 DEF TextInv
  <1>4. ASSUME ~d.update_text PROVE TextInv(y)
    <2>1. /\ y = [f \in TextFields |-> y[f]] /\ y.out = c /\ y.vscroll = d.vscroll
          /\ y.text = d.text /\ y.page = d.page /\ y.begin_reached = d.begin_reached
          /\ y.end_reached = d.end_reached /\ y.page_length = d.page_length /\ y.rows = d.rows
          /\ y.boxh = d.boxh /\ y.hscroll = d.hscroll /\ y.kind = d.kind /\ y.update_text = d.update_text
          /\ y.resizes = d.resizes /\ y.top = d.top
      BY <1>1 DEF TextFields
    <2> HIDE DEF y
    <2>2. IsBox(y)
      BY <1>1, <2>1, BoxChanged
    <2> QED
      BY <1>1, <1>2, <1>4, <2>1, <2>2 DEF TextInv
  <1> QED
    BY <1>3, <1>4

\* The text, whatever key.
LEMMA TextKept ==
    ASSUME NEW key \in TextKeys, dialog_textbox(key), TextInv(dlg)
    PROVE  TextInv(dlg')
  <1> DEFINE d == dlg  left == back_lines(d, d.page_length)
             x == [left EXCEPT !.out = TextResult[key], !.vscroll = LineOf(left, left.page)]
             y == [d EXCEPT !.out = TextResult[key]]
  <1>1. d.out = Open /\ TextInv(d) /\ d.update_text \in BOOLEAN
    BY TextFacts DEF dialog_textbox
  <1>2. dlg' = CASE key \in {"exit", KEY_ESC, "jump"} /\ d.update_text -> x
                 [] key \in {"exit", KEY_ESC} /\ ~d.update_text -> y
                 [] key \notin {"exit", KEY_ESC, "jump", "sequence"} /\ ~Ignored(d, key) -> print_page(Paged(d, key))
                 [] OTHER -> d
    BY DEF dialog_textbox
  <1>3. ASSUME key \in {"exit", KEY_ESC, "jump"}
        PROVE  (d.update_text => TextInv(x)) /\ (~d.update_text => TextInv(y))
    <2> DEFINE c == TextResult[key]
    <2>1. c \in {0, 1, Escaped}
      BY <1>3 DEF TextResult, KEY_ESC
    <2> HIDE DEF c, d
    <2> QED
      BY <1>1, <2>1, TextLeft DEF c
  <1>4. key \notin {"exit", KEY_ESC, "jump", "sequence"} /\ ~Ignored(d, key) => TextInv(print_page(Paged(d, key)))
    <2> HIDE DEF d
    <2> QED
      BY <1>1, PagedReady, PageShown
  <1> HIDE DEF x, y, d
  <1> DEFINE A == key \in {"exit", KEY_ESC, "jump"} /\ d.update_text
             B == key \in {"exit", KEY_ESC} /\ ~d.update_text
             C == key \notin {"exit", KEY_ESC, "jump", "sequence"} /\ ~Ignored(d, key)
             z == print_page(Paged(d, key))
  <1>5. dlg' = CASE A -> x [] B -> y [] C -> z [] OTHER -> d
    BY <1>2
  <1>6. (A => TextInv(x)) /\ (B => TextInv(y)) /\ (C => TextInv(z))
    BY <1>3, <1>4
  <1> HIDE DEF A, B, C, z
  <1> QED
    BY <1>1, <1>5, <1>6

\* A text in a terminal that is resized.
LEMMA TextResized ==
    ASSUME NEW h \in Heights, ResizeText(h), TextInv(dlg)
    PROVE  TextInv(dlg')
  <1> DEFINE d == dlg  n == d.boxh + 4  b == back_lines(d, n)  t == LineOf(b, b.page)
             x == [b EXCEPT !.boxh = h, !.resizes = @ + 1, !.top = LineOf(b, b.page)]
             K == LastLine(d)
  <1>1. /\ IsBox(d) /\ d \in Boxes(d) /\ n \in Nat \ {0} /\ d.hscroll \in Int /\ K \in Nat
        /\ d.kind = "text" /\ d.update_text \in BOOLEAN /\ d.vscroll \in Nat /\ d.resizes \in Nat
    BY TextFacts
  <1>2. dlg' = print_page(x) /\ d.out = Open
    BY DEF ResizeText
  <1>3. h \in Nat \ {0}
    BY LxAssumption
  <1>4. b \in Boxes(d) /\ (b.begin_reached <=> At(b) = 0)
    <2> HIDE DEF d, n
    <2> QED
      BY <1>1, BackLinesIs
  <1> HIDE DEF n, b, d
  <1>5. /\ IsBox(b) /\ LastLine(b) = K /\ DOMAIN b = TextFields /\ \A f \in TextFields : f \notin Moving => b[f] = d[f]
    BY <1>1, <1>4, BoxesAre
  <1>6. /\ b = [f \in TextFields |-> b[f]] /\ b.page \in Starts(b) /\ b.begin_reached \in BOOLEAN
        /\ b.end_reached \in BOOLEAN /\ b.page_length \in Nat /\ b.rows \in Seq(Int \X Int) /\ b.hscroll \in Int
    BY <1>5 DEF IsBox
  <1>7. b.kind = d.kind /\ b.update_text = d.update_text /\ b.resizes = d.resizes /\ b.vscroll = d.vscroll /\ b.out = d.out
    BY <1>5 DEF TextFields, Moving
  <1>8. At(b) = t /\ t \in 0 .. K
    <2>1. At(b) \in 0 .. K
      BY <1>1, <1>4, AtIs
    <2> QED
      BY <2>1 DEF At
  <1> HIDE DEF t
  <1>9. /\ x = [f \in TextFields |-> x[f]] /\ x.boxh = h /\ x.resizes = b.resizes + 1 /\ x.top = t
        /\ x.text = b.text /\ x.page = b.page /\ x.begin_reached = b.begin_reached /\ x.end_reached = b.end_reached
        /\ x.page_length = b.page_length /\ x.rows = b.rows /\ x.hscroll = b.hscroll /\ x.kind = b.kind
        /\ x.update_text = b.update_text /\ x.vscroll = b.vscroll /\ x.out = b.out
    BY <1>6 DEF TextFields, t
  <1> HIDE DEF x
  <1>10. IsBox(x) /\ LastLine(x) = K /\ At(x) = t
    BY <1>3, <1>5, <1>6, <1>8, <1>9, BoxChanged
  <1>11. x.top \in Nat /\ At(x) = (IF x.top < LastLine(x) THEN x.top ELSE LastLine(x)) /\ x.top <= LastLine(x)
         /\ (x.begin_reached <=> x.top = 0)
    <2> HIDE DEF K
    <2> QED
      BY <1>1, <1>4, <1>8, <1>9, <1>10
  <1>12. x.kind = "text" /\ x.out = Open /\ x.update_text \in BOOLEAN /\ x.vscroll \in Nat /\ x.resizes \in Nat
    BY <1>1, <1>2, <1>7, <1>9
  <1>13. Ready(x)
    BY <1>10, <1>11, <1>12 DEF Ready
  <1> QED
    BY <1>2, <1>13, PageShown

\* A new text.
LEMMA TextNew ==
    ASSUME NEW text \in Texts, NEW vscroll \in Nat, NEW hscroll \in Int, NEW boxh \in Nat \ {0}, NEW update \in BOOLEAN,
           update \/ vscroll = 0
    PROVE  TextInv(NewText(text, vscroll, hscroll, boxh, update))
  <1> DEFINE d == [kind |-> "text", text |-> text, page |-> 0, begin_reached |-> vscroll = 0, end_reached |-> FALSE,
                   page_length |-> 0, hscroll |-> hscroll, boxh |-> boxh, update_text |-> update, rows |-> <<>>, out |-> Open,
                   vscroll |-> 0, resizes |-> 0, top |-> vscroll]
             g == get_lines(d, vscroll)  K == LastLine(d)
  <1>1. NewText(text, vscroll, hscroll, boxh, update) = print_page(g)
    BY DEF NewText
  <1>2. /\ d = [f \in TextFields |-> d[f]] /\ d.kind = "text" /\ d.text = text /\ d.page = 0 /\ (d.begin_reached <=> vscroll = 0)
        /\ d.begin_reached \in BOOLEAN /\ d.end_reached = FALSE /\ d.page_length = 0 /\ d.hscroll = hscroll /\ d.boxh = boxh
        /\ d.update_text = update /\ d.rows = <<>> /\ d.out = Open /\ d.vscroll = 0 /\ d.resizes = 0 /\ d.top = vscroll
    BY DEF TextFields
  <1> HIDE DEF d
  <1>3. IsText(d.text)
    BY <1>2, LxAssumption DEF IsText
  <1>4. 0 \in Starts(d) /\ LineOf(d, 0) = 0
    <2>1. 0 \in Starts(d)
      BY <1>3, TextIs
    <2> QED
      BY <1>3, <2>1, LineBehind
  <1>5. d.rows \in Seq(Int \X Int) /\ d.end_reached \in BOOLEAN /\ d.page_length \in Nat
    <2>1. <<>> \in Seq(Int \X Int) /\ FALSE \in BOOLEAN /\ 0 \in Nat
      OBVIOUS
    <2>2. d.rows \in Seq(Int \X Int)
      BY <1>2, <2>1, Zenon
    <2> QED
      BY <1>2, <2>1, <2>2
  <1>6. IsBox(d)
    BY <1>2, <1>3, <1>4, <1>5 DEF IsBox
  <1>7. At(d) = 0 /\ K \in Nat \ {0} /\ d \in Boxes(d)
    <2>1. At(d) = 0
      BY <1>2, <1>4 DEF At
    <2> QED
      BY <1>6, <2>1, BoxIs, AtIs
  <1>8. g \in Boxes(d) /\ At(g) = (IF 0 + vscroll < K THEN 0 + vscroll ELSE K) /\ g.begin_reached = d.begin_reached
    BY <1>6, <1>7, GetLinesIs
  <1> HIDE DEF g
  <1>9. IsBox(g) /\ LastLine(g) = K /\ \A f \in TextFields : f \notin Moving => g[f] = d[f]
    BY <1>6, <1>8, BoxesAre
  <1>10. /\ g.kind = d.kind /\ g.out = d.out /\ g.update_text = d.update_text /\ g.vscroll = d.vscroll
         /\ g.resizes = d.resizes /\ g.top = d.top
    BY <1>9 DEF TextFields, Moving
  <1>11. At(g) = (IF g.top < LastLine(g) THEN g.top ELSE LastLine(g)) /\ (~update => g.top <= LastLine(g))
         /\ (g.begin_reached <=> g.top = 0)
    <2> HIDE DEF K
    <2> QED
      BY <1>2, <1>7, <1>8, <1>9, <1>10
  <1>12. Ready(g)
    BY <1>2, <1>9, <1>10, <1>11 DEF Ready
  <1> QED
    BY <1>1, <1>12, PageShown

\* A text that is shown again.
LEMMA TextReopened ==
    ASSUME NEW text \in Texts, ReopenText(text), TextInv(dlg)
    PROVE  TextInv(dlg')
  <1>1. dlg' = NewText(text, dlg.vscroll, dlg.hscroll, dlg.boxh, TRUE)
    BY DEF ReopenText
  <1>2. dlg.vscroll \in Nat /\ dlg.hscroll \in Int /\ dlg.boxh \in Nat \ {0} /\ TRUE \in BOOLEAN
    BY TextFacts
  <1>3. \A update \in BOOLEAN : update => TextInv(NewText(text, dlg.vscroll, dlg.hscroll, dlg.boxh, update))
    BY <1>2, TextNew
  <1> QED
    BY <1>1, <1>3, Zenon

\* What the text shows.
LEMMA TextIsShown ==
    ASSUME TextInv(dlg)
    PROVE  TextShown
  <1> DEFINE d == dlg
  <1>1. /\ d.begin_reached \in BOOLEAN /\ d.end_reached \in BOOLEAN /\ d.boxh \in Nat \ {0} /\ d.top \in Nat
        /\ d.rows \in Seq(Int \X Int) /\ LastLine(d) \in Nat
    BY TextFacts
  <1>2. CASE d.out # Open
    BY <1>2 DEF TextInv, TextShown
  <1>3. CASE d.out = Open
    <2>1. /\ d.end_reached <=> d.top + d.boxh > LastLine(d)
          /\ d.begin_reached <=> d.top = 0
          /\ Len(d.rows) = d.boxh /\ \A r \in 1 .. d.boxh : d.rows[r] = RowOf(d, d.top + r - 1)
      BY <1>3 DEF TextInv
    <2>2. Lines(d) = LastLine(d) + 1
      BY DEF Lines, LastLine
    <2>3. d.begin_reached = (d.top = 0) /\ d.end_reached = (d.top + d.boxh >= Lines(d))
      BY <1>1, <2>1, <2>2
    <2>4. d.rows = [r \in 1 .. d.boxh |-> RowOf(d, d.top + r - 1)]
      <3> DEFINE rows == d.rows  n == d.boxh  R(r) == RowOf(d, d.top + r - 1)
      <3>1. rows \in Seq(Int \X Int) /\ Len(rows) = n /\ \A r \in 1 .. n : rows[r] = R(r)
        BY <1>1, <2>1
      <3> HIDE DEF rows, n, R
      <3>2. rows = [r \in 1 .. n |-> rows[r]]
        BY <3>1
      <3>3. rows = [r \in 1 .. n |-> R(r)]
        BY <3>1, <3>2
      <3> QED
        BY <3>3 DEF rows, n, R
    <2>5. \A l : RowOf(d, l) = IF l < Lines(d) - 1 THEN <<StartOf(d, l), d.hscroll>> ELSE Blank
      BY DEF RowOf
    <2> QED
      BY <1>3, <2>3, <2>4, Zenon DEF TextShown, RowOf, StartOf
  <1> QED
    BY <1>2, <1>3

(***************************************************************************)
(* Any of the dialogs.                                                     *)
(***************************************************************************)
DlgInv(d) == MenuInv(d) \/ ListInv(d) \/ LeftInv(d) \/ InputInv(d) \/ TextInv(d)

\* The invariant of a kind of dialog holds of those of that kind alone.
LEMMA KindIs ==
    ASSUME NEW d
    PROVE  /\ MenuInv(d) => d.kind = "menu"
           /\ ListInv(d) => d.kind = "list"
           /\ LeftInv(d) => d.kind = "left"
           /\ InputInv(d) => d.kind = "input"
           /\ TextInv(d) => d.kind = "text"
  <1>1. InputInv(d) => d.kind = "input"
    BY InputFacts DEF InputInv, IsInput
  <1> QED
    BY <1>1 DEF MenuInv, IsMenu, ListInv, IsChecklist, LeftInv, TextInv

\* See KindIs.
LEMMA InvOfKind ==
    ASSUME NEW d, DlgInv(d)
    PROVE  /\ d.kind = "menu" => MenuInv(d)
           /\ d.kind = "list" => ListInv(d)
           /\ d.kind = "left" => LeftInv(d)
           /\ d.kind = "input" => InputInv(d)
           /\ d.kind = "text" => TextInv(d)
  BY KindIs DEF DlgInv

\* The menu, whatever key.
LEMMA MenuIsKept ==
    ASSUME NEW key, dialog_menu(key), DlgInv(dlg)
    PROVE  DlgInv(dlg')
  <1> DEFINE d == dlg
             A == Moves(d, key)
             B == ~A /\ key \in {"left", "tab"}
             C == ~A /\ key \in DOMAIN MenuCode \cup {"enter"}
             D == ~A /\ key \in {"e", KEY_ESC}
             m == MenuMoved(d, key)  t == Turned(d, key, 5)  z == [d EXCEPT !.out = Escaped]
             l == Left(d, IF key = "enter" THEN d.button ELSE MenuCode[key])
  <1>1. MenuInv(d)
    BY InvOfKind DEF dialog_menu
  <1>2. dlg' = CASE A -> m [] B -> t [] C -> l [] D -> z [] OTHER -> d
    BY DEF dialog_menu
  <1>3. A => MenuInv(m)
    BY <1>1, MenuMovedInv
  <1>4. MenuInv(t) /\ MenuInv(z)
    BY <1>1, MenuTurnedInv
  <1>5. LeftInv(l)
    <2> DEFINE c == IF key = "enter" THEN d.button ELSE MenuCode[key]
    <2> HIDE DEF c
    <2>1. LeftInv(Left(d, c))
      BY <1>1, MenuLeft
    <2> QED
      BY <2>1 DEF c
  <1>6. (A => DlgInv(m)) /\ (B => DlgInv(t)) /\ (C => DlgInv(l)) /\ (D => DlgInv(z)) /\ DlgInv(d)
    <2> HIDE DEF A, B, C, D, m, t, z, l
    <2> QED
      BY <1>3, <1>4, <1>5 DEF DlgInv
  <1> HIDE DEF A, B, C, D, m, t, z, l, d
  <1> QED
    BY <1>2, <1>6

\* What holds of the dialogs makes them faithful.
LEMMA DlgIsFaithful ==
    ASSUME DlgInv(dlg)
    PROVE  DialogsFaithful
  <1>1. CASE MenuInv(dlg)
    <2>1. dlg.kind = "menu" /\ RowsShown /\ MenuKept
      BY <1>1, KindIs DEF MenuInv, Rows, RowsShown, MenuKept
    <2> QED
      BY <2>1 DEF DialogsFaithful
  <1>2. CASE ListInv(dlg)
    <2>1. dlg.kind = "list" /\ RowsShown /\ (dlg.chosen # -1 => dlg.rows[dlg.choice] = <<dlg.chosen, 1>>)
      BY <1>2, KindIs DEF ListInv, Rows, RowsShown
    <2> QED
      BY <2>1 DEF DialogsFaithful
  <1>3. CASE LeftInv(dlg)
    <2>1. dlg.kind = "left" /\ dlg.lit = {dlg.chosen}
      BY <1>3, KindIs DEF LeftInv
    <2> QED
      BY <2>1 DEF DialogsFaithful
  <1>4. CASE InputInv(dlg)
    <2>1. dlg.kind = "input" /\ InputShown
      BY <1>4, KindIs, InputIsShown
    <2> QED
      BY <2>1 DEF DialogsFaithful
  <1>5. CASE TextInv(dlg)
    <2>1. dlg.kind = "text" /\ TextShown
      BY <1>5, KindIs, TextIsShown
    <2> QED
      BY <2>1 DEF DialogsFaithful
  <1> QED
    BY <1>1, <1>2, <1>3, <1>4, <1>5 DEF DlgInv

\* The dialogs as they are opened.
LEMMA DlgInitIs ==
    ASSUME NEW d \in dlgInit
    PROVE  DlgInv(d)
  <1>1. Counts \subseteq Nat \ {0} /\ Heights \subseteq Nat \ {0}
    BY LxAssumption
  <1>2. ASSUME NEW n \in Counts, NEW s \in -1 .. n - 1, NEW h \in Heights
        PROVE  MenuInv(NewMenu(n, s, 0, h, Nothing))
    <2>1. n \in Nat \ {0} /\ h \in Nat \ {0} /\ 0 \in Int /\ Nothing.n # n
      BY <1>1 DEF Nothing
    <2> QED
      BY <2>1, MenuNew
  <1>3. ASSUME NEW n \in Counts, NEW t \in 0 .. n - 1, NEW h \in Heights
        PROVE  ListInv(NewList(n, t, h))
    BY <1>1, ListNew
  <1>4. ASSUME NEW t \in Texts, NEW h \in Heights, NEW u \in BOOLEAN
        PROVE  TextInv(NewText(t, 0, 0, h, u))
    <2>1. h \in Nat \ {0} /\ 0 \in Nat /\ 0 \in Int
      BY <1>1
    <2> QED
      BY <2>1, TextNew
  <1>5. CASE d \in NewMenus
    <2>1. PICK n \in Counts : d \in {NewMenu(n, s, 0, h, Nothing) : s \in -1 .. n - 1, h \in Heights}
      BY <1>5 DEF NewMenus
    <2>2. PICK s \in -1 .. n - 1, h \in Heights : d = NewMenu(n, s, 0, h, Nothing)
      BY <2>1
    <2> QED
      BY <1>2, <2>2 DEF DlgInv
  <1>6. CASE d \in NewLists
    <2>1. PICK n \in Counts : d \in {NewList(n, t, h) : t \in 0 .. n - 1, h \in Heights}
      BY <1>6 DEF NewLists
    <2>2. PICK t \in 0 .. n - 1, h \in Heights : d = NewList(n, t, h)
      BY <2>1
    <2> QED
      BY <1>3, <2>2 DEF DlgInv
  <1>7. CASE d \in NewInputs
    BY <1>7, InputNew DEF DlgInv, NewInputs
  <1>8. CASE d \in NewTexts
    <2>1. PICK t \in Texts, h \in Heights, u \in BOOLEAN : d = NewText(t, 0, 0, h, u)
      BY <1>8 DEF NewTexts
    <2> QED
      BY <1>4, <2>1 DEF DlgInv
  <1> QED
    BY <1>5, <1>6, <1>7, <1>8 DEF dlgInit

\* A terminal changes its size once at most, and makes a menu no larger.
TerminalShrinks == MaxResizes \in {0, 1} /\ \A h \in Nat \ {0} : Resized(h) \subseteq 1 .. h

\* Every step keeps what holds of the dialogs.
LEMMA DlgNextIs ==
    ASSUME TerminalShrinks, DlgInv(dlg), dlgNext
    PROVE  DlgInv(dlg')
  <1>1. ASSUME NEW key \in MenuKeys, dialog_menu(key) PROVE DlgInv(dlg')
    BY <1>1, MenuIsKept
  <1>2. ASSUME NEW key \in ListKeys, dialog_checklist(key) PROVE DlgInv(dlg')
    <2>1. ListInv(dlg)
      BY <1>2, InvOfKind DEF dialog_checklist
    <2> QED
      BY <1>2, <2>1, ListKept DEF DlgInv
  <1>3. ASSUME NEW key \in InputKeys, dialog_inputbox(key) PROVE DlgInv(dlg')
    <2>1. InputInv(dlg)
      BY <1>3, InvOfKind DEF dialog_inputbox
    <2> QED
      BY <1>3, <2>1, InputKept DEF DlgInv
  <1>4. ASSUME NEW key \in TextKeys, dialog_textbox(key) PROVE DlgInv(dlg')
    <2>1. TextInv(dlg)
      BY <1>4, InvOfKind DEF dialog_textbox
    <2> QED
      BY <1>4, <2>1, TextKept DEF DlgInv
  <1>5. ASSUME NEW h \in Resized(IF dlg.kind = "menu" THEN dlg.height ELSE 0), ResizeMenu(h) PROVE DlgInv(dlg')
    <2>1. dlg.kind = "menu" /\ dlg.resizes < MaxResizes /\ MenuInv(dlg)
          /\ dlg' = [OpenMenu(dlg, h) EXCEPT !.resizes = @ + 1, !.last = Nothing]
      BY <1>5, InvOfKind DEF ResizeMenu
    <2>2. dlg.height \in Nat \ {0} /\ dlg.resizes \in Nat
      BY <2>1 DEF MenuInv, IsMenu, Sized
    <2>3. dlg.resizes = 0 /\ h \in 1 .. dlg.height
      BY <2>1, <2>2 DEF TerminalShrinks
    <2> QED
      BY <2>1, <2>3, MenuResized DEF DlgInv
  <1>6. ASSUME ResizeList PROVE DlgInv(dlg')
    <2>1. ListInv(dlg) /\ dlg.out = Open /\ dlg' = [OpenList(dlg) EXCEPT !.resizes = @ + 1]
      BY <1>6, InvOfKind DEF ResizeList
    <2> QED
      BY <2>1, ListResized DEF DlgInv
  <1>7. ASSUME ResizeInput PROVE DlgInv(dlg')
    <2>1. InputInv(dlg) /\ dlg' = [OpenInput(dlg) EXCEPT !.resizes = @ + 1]
      BY <1>7, InvOfKind DEF ResizeInput
    <2> QED
      BY <2>1, InputResized DEF DlgInv
  <1>8. ASSUME NEW h \in Heights, ResizeText(h) PROVE DlgInv(dlg')
    <2>1. TextInv(dlg)
      BY <1>8, InvOfKind DEF ResizeText
    <2> QED
      BY <1>8, <2>1, TextResized DEF DlgInv
  <1>9. ASSUME NEW n \in Counts, NEW selected \in -1 .. n - 1, Reopen(n, selected) PROVE DlgInv(dlg')
    <2>1. /\ LeftInv(dlg) /\ n \in Nat \ {0}
          /\ dlg' = NewMenu(n, selected, dlg.s_scroll, dlg.height, [n |-> dlg.n, item |-> dlg.chosen, scroll |-> dlg.s_scroll])
      BY <1>9, InvOfKind, LxAssumption DEF Reopen
    <2> QED
      BY <2>1, MenuReopened DEF DlgInv
  <1>10. ASSUME NEW text \in Texts, ReopenText(text) PROVE DlgInv(dlg')
    <2>1. TextInv(dlg)
      BY <1>10, InvOfKind DEF ReopenText
    <2> QED
      BY <1>10, <2>1, TextReopened DEF DlgInv
  <1> QED
    BY <1>1, <1>2, <1>3, <1>4, <1>5, <1>6, <1>7, <1>8, <1>9, <1>10 DEF dlgNext

\* Each dialog shows what it would act on, whatever keys are pressed, for
\* every number of items, height, line and text (dialog_menu of menubox.c,
\* dialog_checklist of checklist.c, dialog_inputbox of inputbox.c and
\* dialog_textbox of textbox.c).
THEOREM DialogsAlwaysFaithful == TerminalShrinks /\ dlgSpec => []DialogsFaithful
  <1> SUFFICES ASSUME TerminalShrinks PROVE dlgSpec => []DialogsFaithful
    OBVIOUS
  <1>1. dlg \in dlgInit => DlgInv(dlg)
    BY DlgInitIs
  <1>2. DlgInv(dlg) /\ [dlgNext]_dlg => DlgInv(dlg)'
    <2> SUFFICES ASSUME DlgInv(dlg), [dlgNext]_dlg PROVE DlgInv(dlg')
      OBVIOUS
    <2>1. CASE dlgNext
      BY <2>1, DlgNextIs
    <2>2. CASE UNCHANGED dlg
      BY <2>2
    <2> QED
      BY <2>1, <2>2
  <1>3. DlgInv(dlg) => DialogsFaithful
    BY DlgIsFaithful
  <1> QED
    BY <1>1, <1>2, <1>3, PTL DEF dlgSpec
=============================================================================

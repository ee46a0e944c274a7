----------------------------- MODULE KconfExpr -----------------------------
(***************************************************************************)
(* The expressions of Kconfig's dependencies (nemu/tools/kconfig/expr.c):  *)
(* three-valued formulas over symbols, and the simplifications menu_-      *)
(* finalize applies to them.  An expression is a record; rewriting in      *)
(* place is modelled by returning the new tree, and where two pointers     *)
(* into one tree are compared (expr_eliminate_dups1), by paths into it.    *)
(***************************************************************************)
EXTENDS Integers, Sequences, FiniteSets

CONSTANTS
    SymType,    \* symbol -> "bool", "tristate", "int", "hex", "string", "unknown"
    Literals    \* string -> [rank, dec, hex, any]: what strcmp and strtoll make of it

no  == 0
mod == 1
yes == 2

EXPR_AND(a, b) == IF a < b THEN a ELSE b
EXPR_OR(a, b)  == IF a < b THEN b ELSE a
EXPR_NOT(a)    == 2 - a

Relations == {"=", "!=", "<", "<=", ">", ">="}

NullExpr == [op |-> "null"]
Sym(s) == [op |-> "sym", sym |-> s]
Not(e) == [op |-> "not", left |-> e]
Two(op, a, b) == [op |-> op, left |-> a, right |-> b]
Comp(op, s, t) == [op |-> op, sym |-> s, rsym |-> t]

expr_alloc_and(a, b) ==
    IF a = NullExpr THEN b ELSE IF b = NullExpr THEN a ELSE Two("and", a, b)
expr_alloc_or(a, b) ==
    IF a = NullExpr THEN b ELSE IF b = NullExpr THEN a ELSE Two("or", a, b)

expr_is_yes(e) == e = NullExpr \/ e = Sym("y")

-----------------------------------------------------------------------------
(* Evaluation, given the current value [tri, val] of every symbol. *)

\* expr_parse_string: a kind, and a number unless the kind is "string".
expr_parse_string(str, type) ==
    CASE type \in {"bool", "tristate"} ->
            [kind |-> "signed",
             n |-> IF str = "n" THEN 0 ELSE IF str = "m" THEN 1 ELSE IF str = "y" THEN 2 ELSE -1]
      [] OTHER ->
            LET r == Literals[str][IF type = "int" THEN "dec" ELSE IF type = "hex" THEN "hex" ELSE "any"]
            IN [kind |-> IF ~r.ok THEN "string" ELSE IF type = "hex" THEN "unsigned" ELSE "signed",
                n |-> r.n]

Sign(a, b) == IF a < b THEN -1 ELSE IF a = b THEN 0 ELSE 1

\* As numbers when both are numbers, otherwise by strcmp.
CompareParsed(x, y, k1, k2) ==
    IF "string" \in {k1.kind, k2.kind} THEN Sign(Literals[x].rank, Literals[y].rank) ELSE Sign(k1.n, k2.n)

\* The sign of the comparison of two symbols' string values.
Compare(s, t, strs) ==
    IF SymType[s] = "string" /\ SymType[t] = "string"
    THEN Sign(Literals[strs[s]].rank, Literals[strs[t]].rank)
    ELSE CompareParsed(strs[s], strs[t], expr_parse_string(strs[s], SymType[s]), expr_parse_string(strs[t], SymType[t]))

Holds(op, c) ==
    CASE op = "=" -> c = 0 [] op = "!=" -> c # 0 [] op = "<" -> c < 0
      [] op = "<=" -> c <= 0 [] op = ">" -> c > 0 [] op = ">=" -> c >= 0

\* tri and strs are what sym_calc_value and sym_get_string_value have left.
RECURSIVE expr_calc_value(_, _, _)
expr_calc_value(e, tri, strs) ==
    CASE e.op = "null" -> yes
      [] e.op = "sym" -> tri[e.sym]
      [] e.op = "not" -> EXPR_NOT(expr_calc_value(e.left, tri, strs))
      [] e.op = "and" -> EXPR_AND(expr_calc_value(e.left, tri, strs), expr_calc_value(e.right, tri, strs))
      [] e.op = "or" -> EXPR_OR(expr_calc_value(e.left, tri, strs), expr_calc_value(e.right, tri, strs))
      [] e.op \in Relations -> IF Holds(e.op, Compare(e.sym, e.rsym, strs)) THEN yes ELSE no

RECURSIVE SymsIn(_)
SymsIn(e) ==
    CASE e.op = "null" -> <<>>
      [] e.op = "sym" -> <<e.sym>>
      [] e.op = "not" -> SymsIn(e.left)
      [] e.op \in {"and", "or"} -> SymsIn(e.left) \o SymsIn(e.right)
      [] e.op \in Relations -> <<e.sym, e.rsym>>

-----------------------------------------------------------------------------
(* Equality and elimination of equal operands. *)

IsSym(e, s) == e.op = "sym" /\ e.sym = s
Neutral(type) == IF type = "or" THEN Sym("n") ELSE Sym("y")
Absorbing(type) == IF type = "or" THEN Sym("y") ELSE Sym("n")

RECURSIVE expr_eliminate_yn(_)
expr_eliminate_yn(e) ==
    IF e.op \notin {"and", "or"} THEN e
    ELSE LET l == expr_eliminate_yn(e.left)
             r == expr_eliminate_yn(e.right)
         IN CASE l = Absorbing(e.op) -> l
              [] l = Neutral(e.op) -> r
              [] r = Absorbing(e.op) /\ l # Neutral(e.op) -> r
              [] r = Neutral(e.op) /\ l # Absorbing(e.op) -> l
              [] OTHER -> Two(e.op, l, r)

RECURSIVE expr_eq(_, _)
RECURSIVE EliminateLeaves(_, _, _)
\* __expr_eliminate_eq: both trees, with equal leaves replaced by the neutral symbol.
EliminateLeaves(type, a, b) ==
    IF a.op = type
    THEN LET l == EliminateLeaves(type, a.left, b)
             r == EliminateLeaves(type, a.right, l[2])
         IN <<Two(type, l[1], r[1]), r[2]>>
    ELSE IF b.op = type
    THEN LET l == EliminateLeaves(type, a, b.left)
             r == EliminateLeaves(type, l[1], b.right)
         IN <<r[1], Two(type, l[2], r[2])>>
    ELSE IF (a = b /\ (IsSym(a, "y") \/ IsSym(a, "n"))) \/ ~expr_eq(a, b)
    THEN <<a, b>>
    ELSE <<Neutral(type), Neutral(type)>>

\* The level of the first tree, then that of the second; p is the pair of trees.
FirstLevel(p) == IF p[1].op \in {"and", "or"} THEN EliminateLeaves(p[1].op, p[1], p[2]) ELSE p
SecondLevel(p) ==
    IF p[1].op # p[2].op /\ p[2].op \in {"and", "or"} THEN EliminateLeaves(p[2].op, p[1], p[2]) ELSE p
BothShort(p) == <<expr_eliminate_yn(p[1]), expr_eliminate_yn(p[2])>>

expr_eliminate_eq(a, b) ==
    IF a = NullExpr \/ b = NullExpr THEN <<a, b>> ELSE BothShort(SecondLevel(FirstLevel(<<a, b>>)))

SameSymbol(p) == p[1].op = "sym" /\ p[1] = p[2]

expr_eq(a, b) ==
    IF a = NullExpr \/ b = NullExpr THEN expr_is_yes(a) /\ expr_is_yes(b)
    ELSE /\ a.op = b.op
         /\ CASE a.op \in {"and", "or"} -> SameSymbol(expr_eliminate_eq(a, b))
              [] a.op = "not" -> expr_eq(a.left, b.left)
              [] OTHER -> a = b

-----------------------------------------------------------------------------
(* Joining two operands of || or &&; NullExpr when there is no shorter form. *)

\* The symbol an operand is about, or "" when it has another form.
Subject(e, inner) ==
    CASE e.op \in {"=", "!=", "sym"} -> e.sym
      [] e.op = "not" -> IF e.left.op \in inner THEN e.left.sym ELSE ""
      [] OTHER -> ""

\* e1 op1 x and e2 op2 y, in either order of the two operands.
Pair(a, b, op, S) ==
    /\ a.op = op /\ b.op = op
    /\ {a.rsym, b.rsym} = S
\* one operand is the symbol itself, the other compares it with s
Plain(a, b, op, s) == \/ a.op = "sym" /\ b.op = op /\ b.rsym = s
                      \/ b.op = "sym" /\ a.op = op /\ a.rsym = s
IsConst(s) == SymType[s] = "unknown"

JoinSubject(a, b) ==
    LET s == Subject(a, {"=", "!=", "sym"})
    IN IF s # "" /\ s = Subject(b, {"sym"}) /\ SymType[s] \in {"bool", "tristate"} THEN s ELSE ""

\* Two different operands that are both about the symbol s.
JoinedOr(a, b, s) ==
    LET tri == SymType[s] = "tristate"
    IN CASE s = "" -> NullExpr
         [] s # "" ->
            CASE tri /\ Pair(a, b, "=", {"y", "m"}) -> Comp("!=", s, "n")
              [] tri /\ Pair(a, b, "=", {"y", "n"}) -> Comp("!=", s, "m")
              [] tri /\ Pair(a, b, "=", {"m", "n"}) -> Comp("!=", s, "y")
              [] ~tri /\ {a, b} = {Sym(s), Not(Sym(s))} -> Sym("y")
              [] OTHER -> NullExpr

expr_join_or(a, b) == IF expr_eq(a, b) THEN a ELSE JoinedOr(a, b, JoinSubject(a, b))

JoinedAnd(a, b, s) ==
    LET tri == SymType[s] = "tristate"
        Differ(x, y) == IF x # y THEN Comp("=", s, x) ELSE Sym("n")
    IN CASE s = "" -> NullExpr
         [] s # "" ->
            CASE Plain(a, b, "=", "y") -> Comp("=", s, "y")
              [] Plain(a, b, "!=", "n") -> Sym(s)
              [] Plain(a, b, "!=", "m") -> Comp("=", s, "y")
              [] tri /\ a.op = "=" /\ b.op = "!=" /\ IsConst(a.rsym) /\ IsConst(b.rsym) -> Differ(a.rsym, b.rsym)
              [] tri /\ a.op = "!=" /\ b.op = "=" /\ IsConst(a.rsym) /\ IsConst(b.rsym) -> Differ(b.rsym, a.rsym)
              [] tri /\ Pair(a, b, "!=", {"y", "n"}) -> Comp("=", s, "m")
              [] tri /\ Pair(a, b, "!=", {"y", "m"}) -> Comp("=", s, "n")
              [] tri /\ Pair(a, b, "!=", {"m", "n"}) -> Comp("=", s, "y")
              [] OTHER -> NullExpr

expr_join_and(a, b) == IF expr_eq(a, b) THEN a ELSE JoinedAnd(a, b, JoinSubject(a, b))

-----------------------------------------------------------------------------
(* expr_eliminate_dups: the operands of one level, each against each. *)

RECURSIVE At(_, _)
At(e, p) == IF p = <<>> THEN e ELSE At(e[Head(p)], Tail(p))
RECURSIVE Put(_, _, _)
Put(e, p, x) == IF p = <<>> THEN x ELSE [e EXCEPT ![Head(p)] = Put(@, Tail(p), x)]

\* The operands at p and q, joined: t takes the place of the second.
PutJoined(type, r, p, q, t) ==
    IF t = NullExpr THEN r ELSE [e |-> Put(Put(r.e, p, Neutral(type)), q, t), n |-> r.n + 1]
JoinAt(type, r, p, q) ==
    PutJoined(type, r, p, q, IF type = "or" THEN expr_join_or(At(r.e, p), At(r.e, q))
                             ELSE expr_join_and(At(r.e, p), At(r.e, q)))

\* r is the tree with trans_count; p and q are the paths of *ep1 and *ep2.
RECURSIVE expr_eliminate_dups1(_, _, _, _)
expr_eliminate_dups1(type, r, p, q) ==
    IF At(r.e, p).op = type
    THEN expr_eliminate_dups1(type, expr_eliminate_dups1(type, r, p \o <<"left">>, q), p \o <<"right">>, q)
    ELSE IF At(r.e, q).op = type
    THEN expr_eliminate_dups1(type, expr_eliminate_dups1(type, r, p, q \o <<"left">>), p, q \o <<"right">>)
    ELSE IF p = q THEN r
    ELSE LET op == At(r.e, p).op
         IN JoinAt(type, IF op \in {"and", "or"} THEN expr_eliminate_dups1(op, r, p, p) ELSE r, p, q)

RECURSIVE expr_eliminate_dups(_)
UntilNone(r) == IF r.n = 0 THEN r.e ELSE expr_eliminate_dups(expr_eliminate_yn(r.e))
expr_eliminate_dups(e) ==
    IF e.op \notin {"and", "or"} THEN e
    ELSE UntilNone(expr_eliminate_dups1(e.op, [e |-> e, n |-> 0], <<>>, <<>>))

-----------------------------------------------------------------------------
(* Transformations. *)

Converse == [x \in Relations |->
    CASE x = "=" -> "!=" [] x = "!=" -> "=" [] x = "<=" -> ">"
      [] x = ">=" -> "<" [] x = "<" -> ">=" [] x = ">" -> "<="]

\* A boolean symbol compared with a constant.
BoolRelation(e) ==
    CASE e.rsym = "n" -> IF e.op = "=" THEN Not(Sym(e.sym)) ELSE Sym(e.sym)
      [] e.rsym = "m" -> IF e.op = "=" THEN Sym("n") ELSE Sym("y")
      [] e.rsym = "y" -> IF e.op = "=" THEN Sym(e.sym) ELSE Not(Sym(e.sym))
      [] OTHER -> e

RECURSIVE expr_transform(_)
expr_transform(e) ==
    CASE e.op \in {"and", "or"} -> Two(e.op, expr_transform(e.left), expr_transform(e.right))
      [] e.op \in {"=", "!="} -> IF SymType[e.sym] = "bool" THEN BoolRelation(e) ELSE e
      [] e.op = "not" ->
            LET l == expr_transform(e.left)
            IN CASE l.op = "not" -> expr_transform(l.left)
                 [] l.op \in Relations -> [l EXCEPT !.op = Converse[l.op]]
                 [] l.op = "or" -> expr_transform(Two("and", Not(l.left), Not(l.right)))
                 [] l.op = "and" -> expr_transform(Two("or", Not(l.left), Not(l.right)))
                 [] IsSym(l, "y") -> Sym("n")
                 [] IsSym(l, "m") -> Sym("m")
                 [] IsSym(l, "n") -> Sym("y")
                 [] OTHER -> Not(l)
      [] OTHER -> e

RECURSIVE expr_trans_bool(_)
expr_trans_bool(e) ==
    CASE e.op \in {"and", "or"} -> Two(e.op, expr_trans_bool(e.left), expr_trans_bool(e.right))
      [] e.op = "not" -> Not(expr_trans_bool(e.left))
      [] e.op = "!=" /\ SymType[e.sym] = "tristate" /\ e.rsym = "n" -> Sym(e.sym)
      [] OTHER -> e

\* e compared with the constant s; type is "=" or "!=".  (For s = "m" the C code
\* leaves && and || alone; its callers pass "n" only.)
RECURSIVE expr_trans_compare(_, _, _)
expr_trans_compare(e, type, s) ==
    LET Negated(x) == IF type = "!=" THEN Not(x) ELSE x
        Parts(op) == Two(op, expr_trans_compare(e.left, "=", s), expr_trans_compare(e.right, "=", s))
    IN CASE e = NullExpr -> Negated(Sym(s))
         [] e.op = "and" -> Negated(CASE s = "y" -> Parts("and") [] s = "n" -> Parts("or") [] OTHER -> e)
         [] e.op = "or" -> Negated(CASE s = "y" -> Parts("or") [] s = "n" -> Parts("and") [] OTHER -> e)
         [] e.op = "not" -> expr_trans_compare(e.left, IF type = "=" THEN "!=" ELSE "=", s)
         [] e.op = "sym" -> Comp(type, e.sym, s)
         [] OTHER -> CASE s = "y" -> Negated(e)
                       [] s = "m" -> IF type = "=" THEN Sym("n") ELSE Sym("y")
                       [] s = "n" -> IF type = "=" THEN Not(e) ELSE e

expr_contains_symbol(e, s) == \E i \in DOMAIN SymsIn(e) : SymsIn(e)[i] = s

RECURSIVE expr_depends_symbol(_, _)
expr_depends_symbol(e, s) ==
    \/ e.op = "and" /\ (expr_depends_symbol(e.left, s) \/ expr_depends_symbol(e.right, s))
    \/ e.op = "sym" /\ e.sym = s
    \/ e.op = "=" /\ e.sym = s /\ e.rsym \in {"y", "m"}
    \/ e.op = "!=" /\ e.sym = s /\ e.rsym = "n"

=============================================================================

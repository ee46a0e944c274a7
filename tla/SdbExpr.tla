------------------------------ MODULE SdbExpr ------------------------------
(***************************************************************************)
(* The expression evaluator of NEMU's debugger (nemu/src/monitor/sdb/      *)
(* expr.c): from the tokens make_token recognizes to the value eval()      *)
(* returns, or to a failed assertion.  A token is its type and, for a      *)
(* number or a register, its value.                                        *)
(*                                                                         *)
(* Its reference is C, as in the repository's own test (test_expr with the *)
(* expressions gen-expr has gcc evaluate): an input is an expression tree, *)
(* printed as C is written, and the value of the tree is what is expected. *)
(***************************************************************************)
EXTENDS Integers, Sequences

CONSTANT MemWord(_)    \* what vaddr_read returns

\* No value of the small expressions: an assertion has failed, NEMU has exited.
Abort == 1000000

(***************************************************************************)
(* C's integer operators.  Values are small: nothing overflows.            *)
(***************************************************************************)
Truth(b) == IF b THEN 1 ELSE 0
Abs(x) == IF x < 0 THEN -x ELSE x
Quotient(x, y) == LET q == Abs(x) \div Abs(y)
                  IN IF (x < 0) # (y < 0) THEN -q ELSE q

Apply(op, x, y) ==
    CASE op = "or" -> Truth(x # 0 \/ y # 0)
      [] op = "and" -> Truth(x # 0 /\ y # 0)
      [] op = "eq" -> Truth(x = y)
      [] op = "le" -> Truth(x <= y)
      [] op = "+" -> x + y
      [] op = "-" -> x - y
      [] op = "*" -> x * y
      [] op = "/" -> IF y = 0 THEN Abort ELSE Quotient(x, y)
      [] op = "neg" -> -y
      [] op = "deref" -> MemWord(y)

(***************************************************************************)
(* The evaluator.  Types of tokens: "num" stands for decimal and           *)
(* hexadecimal numbers and registers, "le" for the four comparisons.       *)
(***************************************************************************)
Precedence(type) ==
    CASE type = "or" -> 1
      [] type = "and" -> 2
      [] type = "eq" -> 3
      [] type = "le" -> 4
      [] type \in {"+", "-"} -> 5
      [] type \in {"*", "/"} -> 6
      [] type \in {"neg", "deref"} -> 7
      [] OTHER -> 100

\* expr(): a minus or a star that does not follow an operand is unary.
Classify(tokens) ==
    [i \in DOMAIN tokens |->
        IF /\ tokens[i].type \in {"*", "-"}
           /\ i = 1 \/ tokens[i - 1].type \notin {"num", ")"}
        THEN [tokens[i] EXCEPT !.type = IF @ = "*" THEN "deref" ELSE "neg"]
        ELSE tokens[i]]

\* How many parentheses are open after the tokens p .. i.
Depth(tokens, p, i) ==
    LET d[j \in p - 1 .. i] ==
          IF j < p THEN 0
          ELSE d[j - 1] + (IF tokens[j].type = "(" THEN 1
                           ELSE IF tokens[j].type = ")" THEN -1 ELSE 0)
    IN d[i]

\* Mutation: the parentheses at the ends need not match each other.
check_parenthesesEnds(tokens, p, q) == tokens[p].type = "(" /\ tokens[q].type = ")"

check_parentheses(tokens, p, q) ==
    /\ tokens[p].type = "(" /\ tokens[q].type = ")"
    /\ \A i \in p + 1 .. q - 1 : Depth(tokens, p + 1, i) >= 0
    /\ Depth(tokens, p + 1, q - 1) = 0

Outer(tokens, p, q) ==
    {i \in p .. q : tokens[i].type \notin {"(", ")"} /\ Depth(tokens, p, i) = 0}

\* The last one of the lowest precedence, except that of * and / the first
\* one is taken.  0: there is none.
find_main_operator(tokens, p, q) ==
    LET outer == Outer(tokens, p, q)
        prec(i) == Precedence(tokens[i].type)
        lowest == {i \in outer : \A j \in outer : prec(i) <= prec(j)}
    IN IF outer = {} THEN 0
       ELSE CHOOSE i \in lowest :
               \A j \in lowest : IF prec(i) = 6 THEN i <= j ELSE i >= j

RECURSIVE Eval(_, _, _)

\* Both operands are evaluated, also of && and ||.
EvalOperator(tokens, p, q) ==
    LET op == find_main_operator(tokens, p, q)
        type == tokens[op].type
        val1 == IF type \in {"neg", "deref"} THEN 0 ELSE Eval(tokens, p, op - 1)
        val2 == Eval(tokens, op + 1, q)
    IN IF op = 0 \/ Precedence(type) = 100 THEN Abort
       ELSE IF val1 = Abort \/ val2 = Abort THEN Abort
       ELSE Apply(type, val1, val2)

Eval(tokens, p, q) ==
    IF p > q THEN Abort
    ELSE IF p = q THEN IF tokens[p].type = "num" THEN tokens[p].val ELSE Abort
    ELSE IF check_parentheses(tokens, p, q) THEN Eval(tokens, p + 1, q - 1)
    ELSE EvalOperator(tokens, p, q)

expr(tokens) == Eval(Classify(tokens), 1, Len(tokens))

(***************************************************************************)
(* The reference: expression trees, how C writes them and what they mean.  *)
(* C's levels, from the standard: the looser an operator binds the lower.  *)
(***************************************************************************)
Num(n) == [op |-> "num", val |-> n]
Unary(op, a) == [op |-> op, arg |-> a]
Binary(op, a, b) == [op |-> op, lhs |-> a, rhs |-> b]

CLevels == <<{"or"}, {"and"}, {"eq"}, {"le"}, {"+", "-"}, {"*", "/"}, {"neg", "deref"}, {"num", "paren"}>>
Level(t) == CHOOSE n \in DOMAIN CLevels : t.op \in CLevels[n]
IsUnary(t) == Level(t) = 7
IsProduct(t) == Level(t) = 6

Tok(type) == [type |-> type, val |-> 0]
Parens(s) == <<Tok("(")>> \o s \o <<Tok(")")>>

\* A binary operator takes operands of its own level on the left only.
RECURSIVE Written(_)
Written(t) ==
    LET operand(u, least) == IF Level(u) < least THEN Parens(Written(u)) ELSE Written(u)
    IN CASE t.op = "num" -> <<[type |-> "num", val |-> t.val]>>
         [] t.op = "paren" -> Parens(Written(t.arg))
         [] t.op = "neg" -> <<Tok("-")>> \o operand(t.arg, 7)
         [] t.op = "deref" -> <<Tok("*")>> \o operand(t.arg, 7)
         [] OTHER -> operand(t.lhs, Level(t)) \o <<Tok(t.op)>> \o operand(t.rhs, Level(t) + 1)

RECURSIVE Meaning(_)
Meaning(t) ==
    CASE t.op = "num" -> t.val
      [] t.op = "paren" -> Meaning(t.arg)
      [] IsUnary(t) -> LET y == Meaning(t.arg)
                       IN IF y = Abort THEN Abort ELSE Apply(t.op, 0, y)
      [] OTHER -> LET x == Meaning(t.lhs)
                      y == Meaning(t.rhs)
                  IN IF x = Abort \/ y = Abort THEN Abort ELSE Apply(t.op, x, y)

(***************************************************************************)
(* Where the evaluator leaves C: of the unary operators in front of one    *)
(* operand it applies the last one only, and a chain of multiplications    *)
(* and divisions it groups from the right.  Without a division in the      *)
(* chain that makes no difference.                                         *)
(***************************************************************************)
RECURSIVE Divides(_)
Divides(t) == IsProduct(t) /\ (t.op = "/" \/ Divides(t.lhs))

RECURSIVE Straight(_)
Straight(t) ==
    CASE t.op = "num" -> TRUE
      [] t.op = "paren" -> Straight(t.arg)
      [] IsUnary(t) -> ~IsUnary(t.arg) /\ Straight(t.arg)
      [] OTHER -> /\ Straight(t.lhs) /\ Straight(t.rhs)
                  /\ ~(IsProduct(t) /\ IsProduct(t.lhs) /\ Divides(t))

\* The chain  t op b  grouped from the right: what stands left of op keeps its
\* first operand, and the rest of it is grouped with b.
RECURSIVE Chained(_, _, _)
Chained(t, op, b) ==
    IF IsProduct(t) THEN Binary(t.op, t.lhs, Chained(t.rhs, op, b)) ELSE Binary(op, t, b)

RECURSIVE Regrouped(_)
Regrouped(t) ==
    CASE t.op = "num" -> t
      [] t.op = "paren" -> Unary("paren", Regrouped(t.arg))
      [] IsUnary(t) -> IF IsUnary(t.arg) THEN Regrouped(t.arg) ELSE Unary(t.op, Regrouped(t.arg))
      [] IsProduct(t) -> Chained(Regrouped(t.lhs), t.op, Regrouped(t.rhs))
      [] OTHER -> Binary(t.op, Regrouped(t.lhs), Regrouped(t.rhs))

(***************************************************************************)
(* test_expr: expr() computes what C does: precedence, associativity,      *)
(* unary operators and parentheses come out as the compiler has them,      *)
(* except in those two cases, where the value is that of the other tree.   *)
(***************************************************************************)
test_expr(tree) ==
    expr(Written(tree)) = Meaning(IF Straight(tree) THEN tree ELSE Regrouped(tree))

=============================================================================

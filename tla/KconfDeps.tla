----------------------------- MODULE KconfDeps -----------------------------
(***************************************************************************)
(* The search for recursive dependencies that ends the reading of the      *)
(* Kconfig files (sym_check_deps and its helpers in symbol.c, called for   *)
(* every symbol by conf_parse): a depth-first walk with two flags per      *)
(* symbol, SYMBOL_CHECK while a symbol is on the way down and              *)
(* SYMBOL_CHECKED once it has been visited, and a stack from which the     *)
(* error message is printed.                                               *)
(*                                                                         *)
(* Of a symbol's expressions only the symbols they mention matter, in the  *)
(* order the walk meets them: dir_dep, rev_dep, implied, then for each     *)
(* property that is no choice, select or imply its condition and, if it is *)
(* the default of a symbol that is no choice, its value.                   *)
(***************************************************************************)
EXTENDS Sequences, FiniteSets, SequencesExt

CONSTANTS
    Symbols,
    Choice,    \* a choice symbol
    Values     \* the symbols of the choice

NoSym == "NULL"
RECURSIVE sym_check_deps(_, _, _)

(***************************************************************************)
(* A state of the walk: the flags, the stack (check_top is its end), the   *)
(* symbol a recursion was found at, and the message printed for it: the    *)
(* symbols of the stack from the first occurrence of last_sym counted from *)
(* the top, which are followed by last_sym again.                          *)
(***************************************************************************)
Flags == [check |-> {}, checked |-> {}]
InitWalk == [flags |-> Flags, stack |-> <<>>, sym2 |-> NoSym, reports |-> <<>>]

dep_stack_insert(w, s) == [w EXCEPT !.stack = Append(@, s)]
dep_stack_remove(w) == [w EXCEPT !.stack = Front(@)]

sym_check_print_recursive(w, s) ==
    LET stack == IF s \in Values THEN Append(w.stack, s) ELSE w.stack
        last == IF s \in Values THEN Choice ELSE s
        at == {i \in DOMAIN stack : stack[i] = last}
        from == CHOOSE i \in at : \A j \in at : j <= i
    IN IF at = {} THEN [w EXCEPT !.reports = Append(@, <<>>)]
       ELSE [w EXCEPT !.reports = Append(@, Append(SubSeq(stack, from, Len(stack)), last))]

\* sym_check_expr_deps over all expressions of s: stop at the first recursion.
sym_check_expr_deps(refs, s, w) ==
    FoldLeft(LAMBDA v, r : IF v.sym2 # NoSym THEN v ELSE sym_check_deps(refs, r, v), w, refs[s])

sym_check_sym_deps(refs, s, w) ==
    dep_stack_remove(sym_check_expr_deps(refs, s, dep_stack_insert(w, s)))

Raise(w, set) == [w EXCEPT !.flags.check = @ \cup set, !.flags.checked = @ \cup set]
Lower(w, set) == [w EXCEPT !.flags.check = @ \ set]

\* Mutation: the flags of the values stay up after the check.
sym_check_choice_depsKeeps(refs, w) ==
    LET a == Raise(dep_stack_insert(w, Choice), Values \cup {Choice})
        b == Lower(sym_check_sym_deps(refs, Choice, a), {Choice})
        c == FoldLeft(LAMBDA v, s : IF v.sym2 # NoSym THEN v ELSE sym_check_sym_deps(refs, s, v), b, SetToSeq(Values))
    IN dep_stack_remove(c)

\* The choice first, with all values marked, then the values, with the choice
\* no longer marked: a value may depend on its choice.
sym_check_choice_deps(refs, w) ==
    LET a == Raise(dep_stack_insert(w, Choice), Values \cup {Choice})
        b == Lower(sym_check_sym_deps(refs, Choice, a), {Choice})
        c == FoldLeft(LAMBDA v, s : IF v.sym2 # NoSym THEN v ELSE sym_check_sym_deps(refs, s, v), b, SetToSeq(Values))
        d == Lower(c, Values)
    IN dep_stack_remove([d EXCEPT !.sym2 = IF @ \in Values THEN Choice ELSE @])

sym_check_deps(refs, s, w) ==
    CASE s \in w.flags.check -> [sym_check_print_recursive(w, s) EXCEPT !.sym2 = s]
      [] s \notin w.flags.check /\ s \in w.flags.checked -> w
      [] s \notin w.flags.check \cup w.flags.checked /\ s \in Values ->
             dep_stack_remove(sym_check_deps(refs, Choice, dep_stack_insert(w, s)))
      [] s \notin w.flags.check \cup w.flags.checked /\ s = Choice -> sym_check_choice_deps(refs, w)
      [] OTHER -> Lower(sym_check_sym_deps(refs, s, Raise(w, {s})), {s})

\* conf_parse: every symbol in the order of the hash table.
CheckAll(refs, order) ==
    FoldLeft(LAMBDA w, s : sym_check_deps(refs, s, [w EXCEPT !.sym2 = NoSym]), InitWalk, order)

(***************************************************************************)
(* What the values depend on.  The mode of the choice needs what the       *)
(* choice mentions; which value is selected, which every value needs,      *)
(* needs the mode and what the values mention.  Needs is finer than Mixed, *)
(* in which a mention of the choice is one of the selected value too; a    *)
(* value's mention of its own choice is one of the mode in both.           *)
(***************************************************************************)
Mention(r) == IF r \in Values THEN "selected" ELSE r
Needs(refs) ==
    UNION {{<<s, Mention(r)>> : r \in ToSet(refs[s])} : s \in Symbols \ Values}
    \cup {<<"selected", Mention(r)>> : r \in UNION {ToSet(refs[v]) : v \in Values}}
    \cup {<<"selected", Choice>>}
Mixed(refs) == Needs(refs) \cup {<<p[1], "selected">> : p \in {q \in Needs(refs) : q[2] = Choice /\ q[1] # "selected"}}

Closure(rel) ==
    LET step(r) == r \cup {<<pq[1][1], pq[2][2]>> : pq \in {x \in r \X r : x[1][2] = x[2][1]}}
        f[n \in 0..3] == IF n = 0 THEN rel ELSE step(f[n - 1])
    IN f[3]
Cyclic(rel) == \E p \in Closure(rel) : p[1] = p[2]

\* The message: each symbol mentions the next, is part of the next or
\* contains it.
Explains(refs, report) ==
    /\ Len(report) > 1
    /\ \A i \in 1..Len(report) - 1 :
           \/ report[i + 1] \in ToSet(refs[report[i]])
           \/ report[i] \in Values /\ report[i + 1] = Choice
           \/ report[i] = Choice /\ report[i + 1] \in Values \cup {Choice}

\* The walk finds a recursion exactly where there is one.  One through a
\* mention of the choice from outside is found or not depending on the order.
WalkCorrect(refs, order) ==
    LET w == CheckAll(refs, order)
    IN /\ Cyclic(Needs(refs)) => w.reports # <<>>
       /\ w.reports # <<>> => Cyclic(Mixed(refs))
       /\ w.stack = <<>> /\ w.flags.check = {}
       /\ \A i \in DOMAIN w.reports : Explains(refs, w.reports[i])
=============================================================================

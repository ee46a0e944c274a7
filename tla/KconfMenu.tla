----------------------------- MODULE KconfMenu -----------------------------
(***************************************************************************)
(* The menu tree of a Kconfig file (nemu/tools/kconfig/menu.c): how the    *)
(* parser's tree is turned, by menu_finalize, into the one the front ends  *)
(* walk, with every dependency propagated down to the properties.          *)
(*                                                                         *)
(* A node is [id, sym, dep, visibility, props, kids]; sym is "" for menus, *)
(* comments and ifs.  A property is [type, expr, vis], its types "prompt", *)
(* "menu" and "comment" being the node's prompt.  A symbol has one prompt. *)
(***************************************************************************)
EXTENDS KconfExpr, SequencesExt

CONSTANTS
    modules_sym,    \* the symbol with "option modules", or "n"
    ChoiceSyms,        \* the symbols that stand for a choice
    Optional        \* the choices that are optional

\* f itself: as a table, which TLC does not evaluate again at every use.
Table(f) == f @@ <<>>

IsChoice(s) == s \in ChoiceSyms

RECURSIVE rewrite_m(_)
rewrite_m(e) ==
    CASE e.op = "not" -> Not(rewrite_m(e.left))
      [] e.op \in {"and", "or"} -> Two(e.op, rewrite_m(e.left), rewrite_m(e.right))
      [] e.op = "sym" /\ e.sym = "m" -> Two("and", e, Sym(modules_sym))
      [] OTHER -> e

IsPrompt(p) == p.type \in {"prompt", "menu", "comment"}
HasPrompt(n) == \E i \in DOMAIN n.props : IsPrompt(n.props[i])
Prompt(n) == n.props[CHOOSE i \in DOMAIN n.props : IsPrompt(n.props[i])]

\* menu_add_prompt: the "visible if" of every enclosing menu joins the prompt.
RECURSIVE menu_add_prompt(_, _)
menu_add_prompt(n, outer) ==
    [n EXCEPT !.props = Table([i \in DOMAIN @ |->
                            IF @[i].type # "prompt" THEN @[i]
                            ELSE [@[i] EXCEPT !.vis = FoldLeft(expr_alloc_and, @, outer)]]),
              !.kids = Table([i \in DOMAIN @ |->
                            menu_add_prompt(@[i], <<n.visibility>> \o outer)])]

-----------------------------------------------------------------------------
(* menu_finalize.  acc collects what other nodes contribute to a symbol.   *)

Simplified(parent, e) ==
    expr_eliminate_dups(expr_alloc_and(parent, expr_transform(rewrite_m(e))))

\* The condition of one property of h, below the node's own dependency.
ForType(s, d) == IF s # "" /\ SymType[s] # "tristate" THEN expr_trans_bool(d) ELSE d
PropVisible(h, basedep, p) == ForType(h.sym, Simplified(basedep, p.vis))

\* select and imply reach into the symbol they name.
ReachInto(s, acc, p) ==
    LET more(e) == expr_alloc_or(e, expr_alloc_and(Sym(s), p.vis))
    IN CASE p.type = "select" -> [acc EXCEPT !.rev[p.expr.sym] = more(@)]
         [] p.type = "imply" -> [acc EXCEPT !.imp[p.expr.sym] = more(@)]
         [] OTHER -> acc

\* r is [kids, acc]; h joins the kids with its properties as they are below dep.
AddKid(r, h) == [kids |-> Append(r.kids, h), acc |-> FoldLeft(LAMBDA a, p : ReachInto(h.sym, a, p), r.acc, h.props)]
Below(h, dep) ==
    [h EXCEPT !.dep = dep,
              !.props = Table([i \in DOMAIN @ |-> [@[i] EXCEPT !.vis = PropVisible(h, dep, h.props[i])]])]
Propagate(parentdep, r, h) == AddKid(r, Below(h, Simplified(parentdep, h.dep)))

Nonzero(e) == expr_eliminate_dups(expr_transform(expr_trans_compare(e, "!=", "n")))

\* m follows symbol node h and depends on it: it belongs into h's submenu.
Submenu(h, m) ==
    LET dep == IF HasPrompt(m) THEN Prompt(m).vis ELSE m.dep
        basedep == IF HasPrompt(h) THEN Prompt(h).vis ELSE NullExpr
    IN /\ expr_contains_symbol(dep, h.sym)
       /\ \/ expr_depends_symbol(dep, h.sym)
          \/ expr_is_yes(expr_eliminate_eq(Nonzero(dep), Nonzero(basedep))[2])

\* A member of choice c; bool members of a tristate choice need c = y.
JoinChoice(c, h) ==
    IF SymType[c] = "tristate" /\ SymType[h.sym] # "tristate"
    THEN LET more(e) == expr_alloc_and(Comp("=", c, "y"), e)
         IN [h EXCEPT !.dep = more(@),
                      !.props = Table([i \in DOMAIN @ |-> [@[i] EXCEPT !.vis = more(@)]])]
    ELSE h

\* The last loop: choice members are entered, and the children of a node without
\* prompt move up behind it.
RECURSIVE Flatten(_, _, _, _)
Flatten(c, todo, done, acc) ==
    IF todo = <<>> THEN [kids |-> done, acc |-> acc]
    ELSE LET h == Head(todo)
             joins == IsChoice(c) /\ h.sym # "" /\ acc.choice[h.sym] = ""
             g == IF joins THEN JoinChoice(c, h) ELSE h
             acc1 == IF joins THEN [acc EXCEPT !.choice[h.sym] = c, !.members[c] = Append(@, h.sym)]
                     ELSE acc
         IN IF HasPrompt(g) THEN Flatten(c, Tail(todo), Append(done, g), acc1)
            ELSE Flatten(c, g.kids \o Tail(todo), Append(done, [g EXCEPT !.kids = <<>>]), acc1)

RECURSIVE menu_finalize(_, _, _)

RECURSIVE FinalizeList(_, _)
FinalizeList(list, acc) ==
    IF list = <<>> THEN [kids |-> <<>>, acc |-> acc]
    ELSE LET h == menu_finalize(Head(list), Tail(list), acc)
             t == FinalizeList(h.rest, h.acc)
         IN [kids |-> <<h.node>> \o t.kids, acc |-> t.acc]

\* Automatic submenus: h takes the nodes after it that depend on it.
RECURSIVE Absorb(_, _, _)
Absorb(h, rest, acc) ==
    IF rest = <<>> \/ ~Submenu(h, Head(rest)) THEN [kids |-> <<>>, rest |-> rest, acc |-> acc]
    ELSE LET m == menu_finalize(Head(rest), Tail(rest), acc)
             t == Absorb(h, m.rest, m.acc)
         IN [t EXCEPT !.kids = <<m.node>> \o @]

Finalized(r) == FinalizeList(r.kids, r.acc)

\* The children of node h as menu_finalize(h) leaves them, before the last loop.
Children(h, rest, acc) ==
    IF h.kids # <<>>
    THEN LET parentdep == IF IsChoice(h.sym) THEN Sym(h.sym) ELSE h.dep
         IN Finalized(FoldLeft(LAMBDA r, k : Propagate(parentdep, r, k), [kids |-> <<>>, acc |-> acc], h.kids))
            @@ [rest |-> rest]
    ELSE IF h.sym # ""
    THEN [Absorb(h, rest, acc) EXCEPT !.acc.dir[h.sym] = expr_alloc_or(@, h.dep)]
    ELSE [kids |-> <<>>, rest |-> rest, acc |-> acc]

\* rest is the list behind h; a choice that is not optional cannot be set to n.
LastLoop(h, c) == Flatten(h.sym, c.kids, <<>>, c.acc) @@ [rest |-> c.rest]
Closed(h, f) ==
    LET must == IsChoice(h.sym) /\ h.sym \notin Optional /\ HasPrompt(h)
    IN [node |-> [h EXCEPT !.kids = f.kids], rest |-> f.rest,
        acc |-> IF must
                THEN [f.acc EXCEPT !.rev[h.sym] =
                         expr_alloc_or(@, expr_alloc_and(Prompt(h).vis, Sym("m")))]
                ELSE f.acc]
menu_finalize(h, rest, acc) == Closed(h, LastLoop(h, Children(h, rest, acc)))

-----------------------------------------------------------------------------
(* The result: a table of nodes and a table of symbols. *)

RECURSIVE Preorder(_)
Preorder(n) == <<n>> \o FlattenSeq([i \in DOMAIN n.kids |-> Preorder(n.kids[i])])

NoAcc == LET none == [s \in DOMAIN SymType |-> NullExpr]
         IN [rev |-> none, imp |-> none, dir |-> none,
             choice |-> [s \in DOMAIN SymType |-> ""], members |-> [c \in ChoiceSyms |-> <<>>]]

\* order is the walk of the tree, node and sym the tables.
Tables(all, acc) ==
    LET defs(s) == SelectSeq(all, LAMBDA n : n.sym = s)
        props(s) == FlattenSeq([i \in DOMAIN defs(s) |-> defs(s)[i].props])
        pick(s, t) == SelectSeq(props(s), LAMBDA p : p.type = t)
    IN [order |-> Table([i \in DOMAIN all |-> all[i].id]),
        node |-> Table([x \in {all[i].id : i \in DOMAIN all} |->
                    LET n == all[CHOOSE i \in DOMAIN all : all[i].id = x]
                    IN [sym |-> n.sym, visibility |-> n.visibility, prompt |-> HasPrompt(n),
                        ptype |-> IF HasPrompt(n) THEN Prompt(n).type ELSE "",
                        pvis |-> IF HasPrompt(n) THEN Prompt(n).vis ELSE NullExpr,
                        parent |-> LET up == {i \in DOMAIN all : \E j \in DOMAIN all[i].kids : all[i].kids[j].id = x}
                                   IN IF up = {} THEN "" ELSE all[CHOOSE i \in up : TRUE].id,
                        kids |-> Table([i \in DOMAIN n.kids |-> n.kids[i].id])]]),
        sym |-> Table([s \in {all[i].sym : i \in DOMAIN all} \ {""} |->
                    [prompts |-> SelectSeq(props(s), IsPrompt), defaults |-> pick(s, "default"),
                     ranges |-> pick(s, "range"), props |-> props(s),
                     dir |-> acc.dir[s], rev |-> acc.rev[s], imp |-> acc.imp[s],
                     choice |-> acc.choice[s],
                     members |-> IF IsChoice(s) THEN acc.members[s] ELSE <<>>]])]
Parsed(r) == Tables(Preorder(r.node), r.acc)
conf_parse(raw) == Parsed(menu_finalize(menu_add_prompt(raw, <<>>), <<>>, NoAcc))

=============================================================================

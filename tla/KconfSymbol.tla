---------------------------- MODULE KconfSymbol ----------------------------
(***************************************************************************)
(* The symbol table of a Kconfig process (nemu/tools/kconfig/symbol.c):    *)
(* values are calculated on demand and cached until SYMBOL_VALID is        *)
(* cleared.  st is the table; functions that change it return the new one, *)
(* or [st, v] when they also have a result.  SYMBOL_CHANGED, which only    *)
(* tells graphical front ends what to redraw, is left out.                 *)
(***************************************************************************)
EXTENDS KconfMenu

CONSTANTS
    Raw,          \* version of the Kconfig file -> the parser's tree
    SymOrder,     \* for_all_symbols: the defined symbols in the order of the hash table
    Allnoconfig_y \* the symbols with "option allnoconfig_y"

VARIABLE rootmenu   \* what conf_parse has made of the Kconfig files

Defined == DOMAIN rootmenu.sym
Def(s) == rootmenu.sym[s]
IsChoiceValue(s) == Def(s).choice # ""
for_all_symbols == SelectSeq(SymOrder, LAMBDA s : s \in Defined)

\* reset is no variable of the code: see Settle in KconfData.
NewSymbol == [valid |-> FALSE, write |-> FALSE, need |-> FALSE, tri |-> no, val |-> "", vis |-> no,
              dir |-> no, rev |-> no, imp |-> no, user |-> FALSE, utri |-> no, uval |-> ""]
NewTable == [modules_val |-> no, changes |-> 1, reset |-> FALSE, sym |-> Table([s \in DOMAIN rootmenu.sym |-> NewSymbol])]

\* Constants, numbers and undefined symbols keep no state.
Stateless(s) == s \notin Defined
Tri(st, s) == IF Stateless(s) THEN CASE s = "y" -> yes [] s = "m" -> mod [] OTHER -> no
              ELSE st.sym[s].tri
Val(st, s) == IF Stateless(s) THEN s ELSE st.sym[s].val
Type(s) == IF Stateless(s) THEN "unknown" ELSE SymType[s]

sym_get_type(st, s) ==
    IF SymType[s] = "tristate"
       /\ (st.modules_val = no \/ (IsChoiceValue(s) /\ st.sym[s].vis = yes))
    THEN "bool" ELSE SymType[s]

TriName(t) == IF t = no THEN "n" ELSE IF t = mod THEN "m" ELSE "y"
sym_get_string_value(st, s) ==
    IF Type(s) \in {"bool", "tristate"}
    THEN IF Tri(st, s) = mod /\ Tri(st, modules_sym) = no THEN "n" ELSE TriName(Tri(st, s))
    ELSE Val(st, s)

\* strtoll of a string that need not be a number
Number(str, type) ==
    IF str = "" THEN 0 ELSE IF type = "hex" THEN Literals[str].hex.n ELSE Literals[str].dec.n

RECURSIVE sym_calc_value(_, _)

RECURSIVE CalcAll(_, _)
CalcAll(st, syms) == IF syms = <<>> THEN st ELSE CalcAll(sym_calc_value(st, Head(syms)), Tail(syms))

\* The value of an expression whose symbols have been calculated.
ValueOf(st, e) ==
    expr_calc_value(e, [s \in DOMAIN SymType |-> Tri(st, s)],
                       [s \in DOMAIN SymType |-> sym_get_string_value(st, s)])

\* expr_calc_value with its side effects: both operands are always calculated.
Valued(st, e) == [st |-> st, v |-> ValueOf(st, e)]
Calc(st, e) == Valued(CalcAll(st, SymsIn(e)), e)

\* The first property whose condition holds: sym_get_default_prop, sym_get_range_prop.
RECURSIVE FirstVisible(_, _)
ThisOrLater(c, props) ==
    IF c.v # no THEN [st |-> c.st, found |-> TRUE, prop |-> Head(props), v |-> c.v]
    ELSE FirstVisible(c.st, Tail(props))
FirstVisible(st, props) ==
    IF props = <<>> THEN [st |-> st, found |-> FALSE] ELSE ThisOrLater(Calc(st, Head(props).vis), props)

-----------------------------------------------------------------------------
(* sym_calc_visibility *)

Promote(st, s, t) == IF t = mod /\ sym_get_type(st, s) = "bool" THEN yes ELSE t

PromptVisible(st, s, t) ==
    LET hidden == /\ IsChoiceValue(s) /\ SymType[s] = "tristate" /\ t = mod
                  /\ Tri(st, Def(s).choice) = yes
    IN IF hidden THEN no
       ELSE IF t = mod /\ (SymType[s] # "tristate" \/ st.modules_val = no) THEN yes ELSE t

Shown(c, s) == [c.st EXCEPT !.sym[s].vis = PromptVisible(c.st, s, c.v)]
Visibility(st, s) ==
    IF Def(s).prompts = <<>> THEN [st EXCEPT !.sym[s].vis = no] ELSE Shown(Calc(st, Def(s).prompts[1].vis), s)

\* dir_dep, rev_dep and implied of a symbol that is no choice value
Dependency(c, s, dep) == [c.st EXCEPT !.sym[s][dep] = Promote(c.st, s, c.v)]
OrNo(e) == IF e = NullExpr THEN Sym("n") ELSE e
Dependencies(st, s) ==
    IF IsChoiceValue(s) THEN st
    ELSE Dependency(Calc(Dependency(Calc(Dependency(Calc(st, Def(s).dir), s, "dir"),
                                         OrNo(Def(s).rev)), s, "rev"),
                         OrNo(Def(s).imp)), s, "imp")

sym_calc_visibility(st, s) == Dependencies(Visibility(st, s), s)

-----------------------------------------------------------------------------
(* Choices *)

RECURSIVE ChoiceDefault(_, _, _)
DefaultOrLater(p, c, props) ==
    LET d == Head(props).expr.sym
    IN IF p.v # no /\ p.st.sym[d].vis # no THEN [st |-> p.st, v |-> d] ELSE ChoiceDefault(p.st, c, Tail(props))
ChoiceDefault(st, c, props) ==
    LET shown == SelectSeq(Def(c).members, LAMBDA m : st.sym[m].vis # no)
    IN IF props = <<>> THEN [st |-> st, v |-> IF shown = <<>> THEN "" ELSE shown[1]]
       ELSE DefaultOrLater(Calc(st, Head(props).vis), c, props)

\* the first visible default, or the first visible member; "" when there is none
sym_choice_default(st, c) == ChoiceDefault(st, c, Def(c).defaults)

\* The member that is y: the user's when it is visible.  The choice counts as set
\* by the user only when all its visible members are.
SetByUser(st, c) ==
    [st EXCEPT !.sym[c].user = @ /\ \A m \in ToSet(Def(c).members) : st.sym[m].vis # no => st.sym[m].user]
ByDefault(d, c) == [d.st EXCEPT !.sym[c].val = d.v, !.sym[c].tri = IF d.v = "" THEN no ELSE @]
Chosen(st, c) ==
    LET u == st.sym[c].uval
    IN IF u # "" /\ st.sym[u].vis # no THEN [st EXCEPT !.sym[c].val = u]
       ELSE ByDefault(sym_choice_default(st, c), c)
sym_calc_choice(st, c) == Chosen(SetByUser(FoldLeft(sym_calc_visibility, st, Def(c).members), c), c)

set_all_choice_values(st, c) ==
    LET m == ToSet(Def(c).members)
    IN [st EXCEPT !.sym = Table([s \in DOMAIN @ |->
           IF s = c THEN [@[s] EXCEPT !.user = TRUE, !.valid = FALSE, !.need = FALSE]
           ELSE IF s \in m /\ ~@[s].user THEN [@[s] EXCEPT !.utri = no] ELSE @[s]])]

-----------------------------------------------------------------------------
(* sym_calc_value *)

\* The value of the default f that was found.
Limited(e, v) == [e EXCEPT !.v = EXPR_AND(@, v)]
DefaultValue(f) == IF f.found THEN Limited(Calc(f.st, f.prop.expr), f.v) ELSE [st |-> f.st, v |-> no]

SetTri(st, s, v, write) == [st EXCEPT !.sym[s].tri = Promote(st, s, v), !.sym[s].write = @ \/ write]

\* A bool or tristate from its default, or implied, or selected: then it is to be saved.
DefaultTri(d, s) ==
    LET x == d.st.sym[s]
        v == IF x.imp # no THEN EXPR_AND(EXPR_OR(d.v, x.imp), x.dir) ELSE d.v
    IN SetTri(d.st, s, EXPR_OR(v, x.rev), x.rev # no \/ d.v # no \/ x.imp # no)

NewTri(st, s) ==
    LET x == st.sym[s]
    IN IF IsChoiceValue(s) /\ x.vis = yes
       THEN SetTri(st, s, IF Val(st, Def(s).choice) = s THEN yes ELSE no, FALSE)
       ELSE IF x.vis # no /\ x.user THEN SetTri(st, s, EXPR_OR(EXPR_AND(x.utri, x.vis), x.rev), FALSE)
       ELSE IF IsChoice(s) THEN SetTri(st, s, x.rev, x.rev # no)
       ELSE DefaultTri(DefaultValue(FirstVisible(st, Def(s).defaults)), s)

\* An int, hex or string.
CopyVal(st, s, from) == [st EXCEPT !.sym[s].val = Val(st, from), !.sym[s].write = TRUE]
DefaultVal(f, s) ==
    IF f.found THEN CopyVal(sym_calc_value(f.st, f.prop.expr.sym), s, f.prop.expr.sym) ELSE f.st
NewVal(st, s) ==
    IF st.sym[s].vis # no /\ st.sym[s].user THEN [st EXCEPT !.sym[s].val = st.sym[s].uval]
    ELSE DefaultVal(FirstVisible(st, Def(s).defaults), s)

\* The bounds e.sym and e.rsym have been calculated.
Clamped(st, s, e) ==
    LET n(x) == Number(Val(st, x), SymType[s])
        lo == n(e.sym)
        hi == n(e.rsym)
        cur == Number(st.sym[s].val, SymType[s])
        out(k) == CHOOSE str \in DOMAIN Literals :
                      IF SymType[s] = "int" THEN Literals[str].dec = [ok |-> TRUE, n |-> k]
                      ELSE Literals[str].hex = [ok |-> TRUE, n |-> k] /\ ~Literals[str].dec.ok
    IN IF cur < lo THEN [st EXCEPT !.sym[s].val = out(lo)]
       ELSE IF cur > hi THEN [st EXCEPT !.sym[s].val = out(hi)]
       ELSE st

Bounds(f) == CalcAll(f.st, <<f.prop.expr.sym, f.prop.expr.rsym>>)
RangeFound(f, s) == IF f.found THEN Clamped(Bounds(f), s, f.prop.expr) ELSE f.st
sym_validate_range(st, s) ==
    IF SymType[s] \in {"int", "hex"} THEN RangeFound(FirstVisible(st, Def(s).ranges), s) ELSE st

\* The choice has been decided: its members are saved with it.
MembersWritten(st, c) ==
    [st EXCEPT !.sym = Table([s \in DOMAIN @ |->
        IF s \in ToSet(Def(c).members) /\ @[c].write /\ @[s].vis # no
        THEN [@[s] EXCEPT !.write = TRUE] ELSE @[s]])]

\* The steps of sym_calc_value, in their order.
NeededChoice(st, s) ==
    IF IsChoiceValue(s) /\ st.sym[s].need
    THEN sym_calc_value([st EXCEPT !.sym[s].need = FALSE], Def(s).choice) ELSE st
MarkValid(st, s) == [st EXCEPT !.sym[s].valid = TRUE, !.sym[s].write = FALSE]
ClearValue(st, s) == [st EXCEPT !.sym[s].write = st.sym[s].vis # no, !.sym[s].tri = no, !.sym[s].val = ""]
NewValue(st, s) == IF SymType[s] \in {"bool", "tristate"} THEN NewTri(st, s) ELSE NewVal(st, s)
DecideChoice(st, s) == IF IsChoice(s) /\ st.sym[s].tri = yes THEN sym_calc_choice(st, s) ELSE st
NoteModules(st, s) == IF s = modules_sym THEN [st EXCEPT !.modules_val = st.sym[s].tri] ELSE st
GiveNeeded(st, s) == IF st.sym[s].need THEN set_all_choice_values(st, s) ELSE st
EndChoice(st, s) == IF IsChoice(s) THEN GiveNeeded(MembersWritten(st, s), s) ELSE st

WithValue(st, s) == DecideChoice(NewValue(ClearValue(sym_calc_visibility(MarkValid(st, s), s), s), s), s)
sym_calc_value(st, s) ==
    IF Stateless(s) \/ st.sym[s].valid THEN st
    ELSE EndChoice(NoteModules(sym_validate_range(WithValue(NeededChoice(st, s), s), s), s), s)

sym_clear_all_valid(st) ==
    sym_calc_value([st EXCEPT !.changes = @ + 1,
                              !.sym = Table([s \in DOMAIN @ |-> [@[s] EXCEPT !.valid = FALSE]])], modules_sym)

-----------------------------------------------------------------------------
(* Setting values: [st, ok] *)

sym_is_changeable(st, s) == st.sym[s].vis > st.sym[s].rev

sym_tristate_within_range(st, s, v) ==
    /\ st.sym[s].vis # no
    /\ sym_get_type(st, s) \in {"bool", "tristate"}
    /\ ~(sym_get_type(st, s) = "bool" /\ v = mod)
    /\ st.sym[s].vis > st.sym[s].rev
    /\ IF IsChoiceValue(s) /\ st.sym[s].vis = yes THEN v = yes
       ELSE v >= st.sym[s].rev /\ v <= st.sym[s].vis

\* Selecting a member sets the choice, and no member is new any more.
SelectMember(st, s) ==
    LET c == Def(s).choice
        m == ToSet(Def(c).members)
    IN [st EXCEPT !.sym = Table([x \in DOMAIN @ |->
           IF x = c THEN [@[x] EXCEPT !.uval = s, !.user = TRUE]
           ELSE IF x \in m /\ @[x].vis # no THEN [@[x] EXCEPT !.user = TRUE] ELSE @[x]])]

\* Mutation: the values calculated before stay valid.
sym_set_tristate_valueKeeps(st, s, v) ==
    LET st1 == [st EXCEPT !.sym[s].user = TRUE]
        st2 == IF IsChoiceValue(s) /\ v = yes THEN SelectMember(st1, s) ELSE st1
    IN IF Tri(st, s) # v /\ ~sym_tristate_within_range(st, s, v) THEN [st |-> st, ok |-> FALSE]
       ELSE [st |-> [st2 EXCEPT !.sym[s].utri = v, !.sym[s].valid = FALSE], ok |-> TRUE]

sym_set_tristate_value(st, s, v) ==
    LET st1 == [st EXCEPT !.sym[s].user = TRUE]
        st2 == IF IsChoiceValue(s) /\ v = yes THEN SelectMember(st1, s) ELSE st1
        st3 == [st2 EXCEPT !.sym[s].utri = v]
    IN IF Tri(st, s) # v /\ ~sym_tristate_within_range(st, s, v) THEN [st |-> st, ok |-> FALSE]
       ELSE [st |-> IF Tri(st, s) # v THEN sym_clear_all_valid(st3) ELSE st3, ok |-> TRUE]

\* n, m, y, n ...: the first of the following values that can be set, or the old one again.
sym_toggle_tristate_value(st, s) ==
    LET next(k) == (Tri(st, s) + k) % 3
        can(k) == k = 3 \/ sym_tristate_within_range(st, s, next(k))
        first == CHOOSE k \in 1..3 : can(k) /\ \A j \in 1..k - 1 : ~can(j)
    IN sym_set_tristate_value(st, s, next(first)).st

sym_string_valid(type, str) ==
    CASE type = "string" -> TRUE
      [] type = "int" -> str # "" /\ Literals[str].dec.ok
      [] type = "hex" -> str # "" /\ Literals[str].hex.ok
      [] OTHER -> str \in {"y", "m", "n"}

\* For int and hex.  [st, ok]: the bounds are calculated on the way.
Within(st, s, str, e) ==
    LET n(x) == Number(x, SymType[s])
    IN [st |-> st, ok |-> n(Val(st, e.sym)) <= n(str) /\ n(str) <= n(Val(st, e.rsym))]
WithinFound(f, s, str) == IF f.found THEN Within(Bounds(f), s, str, f.prop.expr) ELSE [st |-> f.st, ok |-> TRUE]
sym_string_within_range(st, s, str) ==
    IF SymType[s] = "string" \/ ~sym_string_valid(SymType[s], str)
    THEN [st |-> st, ok |-> SymType[s] = "string"]
    ELSE WithinFound(FirstVisible(st, Def(s).ranges), s, str)

TriOf(str) == IF str = "n" THEN no ELSE IF str = "m" THEN mod ELSE yes

\* (the 0x that is put before a hex number is part of the literal)
StoreString(r, s, str) ==
    LET st == [r.st EXCEPT !.sym[s].user = TRUE, !.sym[s].uval = str]
    IN IF ~r.ok THEN r
       ELSE [st |-> IF r.st.sym[s].uval = str THEN st ELSE sym_clear_all_valid(st), ok |-> TRUE]
sym_set_string_value(st, s, str) ==
    IF SymType[s] \in {"bool", "tristate"} THEN sym_set_tristate_value(st, s, TriOf(str))
    ELSE StoreString(sym_string_within_range(st, s, str), s, str)

\* What the symbol would be if the user had not set it.  [st, v]
TriText(d, s) ==
    LET v == EXPR_OR(d.v, d.st.sym[s].rev)
        nomod == SymType[s] = "bool" \/ (~IsChoiceValue(s) /\ Tri(d.st, modules_sym) = no)
    IN [d EXCEPT !.v = TriName(EXPR_OR(IF v = mod /\ nomod THEN yes ELSE v, d.st.sym[s].imp))]
ValText(st, from) == [st |-> st, v |-> Val(st, from)]
DefaultText(f, s) ==
    IF SymType[s] \in {"bool", "tristate"} THEN TriText(DefaultValue(f), s)
    ELSE IF f.found THEN ValText(sym_calc_value(f.st, f.prop.expr.sym), f.prop.expr.sym)
    ELSE [st |-> f.st, v |-> ""]
sym_get_string_default(st, s) ==
    DefaultText(FirstVisible(sym_calc_value(sym_calc_visibility(st, s), modules_sym), Def(s).defaults), s)

-----------------------------------------------------------------------------
(* Menus *)

RECURSIVE menu_is_visible(_, _)
\* Some child of the node is visible: the first one found ends the search.
RECURSIVE AnyVisible(_, _)
ThisOrNext(h, kids) == IF h.v THEN h ELSE AnyVisible(h.st, Tail(kids))
AnyVisible(st, kids) ==
    IF kids = <<>> THEN [st |-> st, v |-> FALSE] ELSE ThisOrNext(menu_is_visible(st, Head(kids)), kids)

menu_is_empty(st, x) == [AnyVisible(st, rootmenu.node[x].kids) EXCEPT !.v = ~@]

\* [st, v].  A hidden symbol with a visible child is marked as set by the user.
SymVisible(st, s) == [st |-> st, v |-> st.sym[s].vis]
NodePrompt(st, n) == IF n.sym # "" THEN SymVisible(sym_calc_value(st, n.sym), n.sym) ELSE Calc(st, n.pvis)
MarkUser(a, s) == [a EXCEPT !.st.sym[s].user = @ \/ a.v]
PromptOrKid(p, n) ==
    IF p.v # no THEN [st |-> p.st, v |-> TRUE]
    ELSE IF n.sym = "" \/ Tri(p.st, n.sym) = no THEN [st |-> p.st, v |-> FALSE]
    ELSE MarkUser(AnyVisible(p.st, n.kids), n.sym)
UnlessHidden(c, n) == IF c.v = no THEN [st |-> c.st, v |-> FALSE] ELSE PromptOrKid(NodePrompt(c.st, n), n)
menu_is_visible(st, x) ==
    LET n == rootmenu.node[x]
    IN IF n.prompt THEN UnlessHidden(Calc(st, n.visibility), n) ELSE [st |-> st, v |-> FALSE]

menu_get_parent_menu(x) ==
    LET RECURSIVE up(_)
        up(y) == IF rootmenu.node[y].ptype = "menu" THEN y ELSE up(rootmenu.node[y].parent)
    IN up(x)

=============================================================================

----------------------------- MODULE KconfData -----------------------------
(***************************************************************************)
(* Reading and writing configurations (nemu/tools/kconfig/confdata.c).     *)
(* A configuration file is a sequence of lines [name, value]; the value    *)
(* "n" is written "# CONFIG_X is not set".  NoFile: there is none.         *)
(***************************************************************************)
EXTENDS KconfSymbol

NoFile == <<[name |-> "", value |-> "no file"]>>

-----------------------------------------------------------------------------
(* Reading *)

\* conf_set_sym_val: whether the value is of the symbol's type, and the new default.
ValueFits(s, value) ==
    CASE SymType[s] = "tristate" -> value \in {"y", "m", "n"}
      [] SymType[s] = "bool" -> value \in {"y", "n"}
      [] OTHER -> value # "n" /\ sym_string_valid(SymType[s], value)

conf_set_sym_val(x, s, value) ==
    IF SymType[s] \in {"bool", "tristate"} THEN [x EXCEPT !.has = TRUE, !.tri = TriOf(value)]
    ELSE [x EXCEPT !.has = TRUE, !.val = value]

\* A choice's mode is the largest of its members'; the last member that is y is chosen.
ChoiceLine(d, s, c) ==
    LET t == d.def[s].tri
        d1 == CASE t = mod /\ d.def[c].tri = yes -> [d EXCEPT !.def[c].has = FALSE, !.warned = TRUE]
                [] t = yes -> [d EXCEPT !.def[c].val = s, !.warned = @ \/ d.def[c].tri # no]
                [] OTHER -> d
    IN [d1 EXCEPT !.def[c].tri = EXPR_OR(@, t)]

\* One line; "n" for a symbol that is no bool is a comment without effect.
ReadLine(d, line) ==
    LET s == line.name
        d1 == [d EXCEPT !.def[s] = conf_set_sym_val(@, s, line.value), !.warned = @ \/ d.def[s].has]
    IN IF s \notin Defined THEN [d EXCEPT !.missing = @ \cup {s}]
       ELSE IF ~ValueFits(s, line.value) THEN [d EXCEPT !.warned = @ \/ line.value # "n"]
       ELSE IF IsChoiceValue(s) THEN ChoiceLine(d1, s, Def(s).choice) ELSE d1

\* conf_read_simple: the values a file gives, for S_DEF_USER and S_DEF_AUTO alike.
conf_read_simple(lines) ==
    FoldLeft(ReadLine, [def |-> [s \in Defined |-> [has |-> IsChoice(s), tri |-> no, val |-> ""]],
                        missing |-> {}, warned |-> FALSE], lines)

Invalidated(st) == [st EXCEPT !.sym = Table([s \in DOMAIN @ |-> [@[s] EXCEPT !.valid = FALSE]])]

\* S_DEF_USER: the values become the user's.  Names that are not known any more count
\* as changes.
LoadUser(st, lines) ==
    LET d == conf_read_simple(lines)
    IN [Invalidated(st) EXCEPT
          !.changes = @ + Cardinality(d.missing),
          !.sym = Table([s \in DOMAIN @ |-> [@[s] EXCEPT !.user = d.def[s].has, !.utri = d.def[s].tri,
                                                  !.uval = d.def[s].val]])]

\* The calculated value of s is what the file said, or both say nothing.
Agrees(st, s) ==
    LET x == st.sym[s]
    IN \/ IsChoice(s)
       \/ /\ x.user /\ x.write
          /\ IF SymType[s] \in {"bool", "tristate"} THEN x.utri = x.tri ELSE x.uval = x.val
       \/ ~x.user /\ ~x.write

\* The second loop of conf_read: values of invisible symbols are forgotten unless the
\* file is out of date, and numbers out of range are.  What has been calculated from
\* such a number stays valid: reset remembers that this has happened.
Forget(unsaved, r, s) ==
    IF r.st.sym[s].vis = no /\ ~unsaved /\ ~r.reset THEN [r EXCEPT !.st.sym[s].user = FALSE] ELSE r
InRangeOrReset(w, r, s) ==
    IF w.ok THEN [r EXCEPT !.st = w.st]
    ELSE [st |-> [w.st EXCEPT !.sym[s].valid = FALSE, !.sym[s].user = FALSE], reset |-> TRUE]
Settle(unsaved, r, s) ==
    IF ~r.st.sym[s].user \/ IsChoiceValue(s) THEN r
    ELSE IF SymType[s] \in {"bool", "tristate"} THEN Forget(unsaved, r, s)
    ELSE InRangeOrReset(sym_string_within_range(Forget(unsaved, r, s).st, s, r.st.sym[s].uval), r, s)

\* conf_read of a file that exists: nothing is left to save when the file agrees
\* with what is calculated from it.
Unsaved(st) == \E s \in Defined : ~Agrees(st, s)
SettleAll(st, unsaved) ==
    FoldLeft(LAMBDA q, s : Settle(unsaved, q, s), [st |-> st, reset |-> FALSE], for_all_symbols)
CountChanges(r, old) == [r.st EXCEPT !.reset = r.reset, !.changes = @ + (IF old \/ r.reset THEN 1 ELSE 0)]
Compared(st, warned) == CountChanges(SettleAll(st, Unsaved(st)), warned \/ Unsaved(st))
conf_read(st, lines) ==
    Compared(CalcAll(sym_calc_value(LoadUser([st EXCEPT !.changes = 0], lines), modules_sym), for_all_symbols),
             conf_read_simple(lines).warned)

\* ... and of one that does not.
conf_read_none(st) == sym_calc_value([st EXCEPT !.changes = 1], modules_sym)

-----------------------------------------------------------------------------
(* Writing *)

Line(st, s) == [name |-> s, value |-> sym_get_string_value(st, s)]

\* One node of the walk of conf_write: r is [st, lines].
WriteSymbol(st, lines, s) == [st |-> st, lines |-> IF st.sym[s].write THEN Append(lines, Line(st, s)) ELSE lines]
WriteNode(r, x) ==
    LET s == rootmenu.node[x].sym
        fresh == \A i \in DOMAIN r.lines : r.lines[i].name # s
    IN IF s = "" THEN [r EXCEPT !.st = menu_is_visible(r.st, x).st]
       ELSE IF IsChoice(s) \/ ~fresh THEN r
       ELSE WriteSymbol(sym_calc_value(r.st, s), r.lines, s)

\* conf_write: [st, lines], the lines being the new file.
conf_write(st) ==
    [FoldLeft(WriteNode, [st |-> IF st.changes = 0 THEN sym_clear_all_valid(st) ELSE st, lines |-> <<>>],
              Tail(rootmenu.order)) EXCEPT !.st.changes = 0]

\* The rest of conf_write_defconfig's walk, step by step: what is not to be written, cannot be
\* changed, is what it would be by default, or is chosen by default, is left out.
SaveLine(st, lines, s) == [st |-> st, lines |-> Append(lines, Line(st, s))]
Leave(st, lines) == [st |-> st, lines |-> lines]
SaveMember(cd, lines, s) ==
    IF /\ Def(s).choice \notin Optional /\ s = cd.v
       /\ SymType[s] = "bool" /\ Tri(cd.st, s) = yes
    THEN Leave(cd.st, lines) ELSE SaveLine(cd.st, lines, s)

\* Mutation: a symbol that is n is taken for one that is not set.
SaveUnlessDefaultSkipsN(d, lines, s) ==
    IF sym_get_string_value(d.st, s) \in {"n", d.v} THEN Leave(d.st, lines)
    ELSE IF IsChoiceValue(s) THEN SaveMember(sym_choice_default(d.st, Def(s).choice), lines, s)
    ELSE SaveLine(d.st, lines, s)

SaveUnlessDefault(d, lines, s) ==
    IF sym_get_string_value(d.st, s) = d.v THEN Leave(d.st, lines)
    ELSE IF IsChoiceValue(s) THEN SaveMember(sym_choice_default(d.st, Def(s).choice), lines, s)
    ELSE SaveLine(d.st, lines, s)

SaveChangeable(st, lines, s) ==
    IF sym_is_changeable(st, s) THEN SaveUnlessDefault(sym_get_string_default(st, s), lines, s) ELSE Leave(st, lines)
SaveSymbol(st, lines, s) ==
    IF st.sym[s].write THEN SaveChangeable([st EXCEPT !.sym[s].write = FALSE], lines, s) ELSE Leave(st, lines)

\* conf_write_defconfig: only the symbols that differ from their default.
DefaultNode(r, x) ==
    LET s == rootmenu.node[x].sym
    IN IF s = "" THEN [r EXCEPT !.st = menu_is_visible(r.st, x).st]
       ELSE IF IsChoice(s) THEN r
       ELSE SaveSymbol(sym_calc_value(r.st, s), r.lines, s)

conf_write_defconfig(st) ==
    FoldLeft(DefaultNode, [st |-> sym_clear_all_valid(st), lines |-> <<>>], Tail(rootmenu.order))

\* Mutation: a symbol that is not in auto.conf is taken for unchanged.
TouchedOld(st, auto) ==
    LET d == conf_read_simple(IF auto = NoFile THEN <<>> ELSE auto)
    IN {s \in Defined \ ChoiceSyms : d.def[s].has /\
           IF SymType[s] \in {"bool", "tristate"} THEN st.sym[s].tri # d.def[s].tri ELSE st.sym[s].val # d.def[s].val}

\* The symbols whose dependency file conf_touch_deps touches: those whose value differs
\* from the one in auto.conf, and those auto.conf has and Kconfig has not.
Touched(st, auto) ==
    LET d == conf_read_simple(IF auto = NoFile THEN <<>> ELSE auto)
        differs(s) ==
            LET x == st.sym[s]
                old == d.def[s]
                tri == SymType[s] \in {"bool", "tristate"}
            IN IF x.write THEN IF old.has THEN IF tri THEN x.tri # old.tri ELSE x.val # old.val
                               ELSE ~tri \/ x.tri # no
               ELSE old.has
    IN {s \in Defined \ ChoiceSyms : differs(s)} \cup d.missing

\* Mutation: SYMBOL_WRITE is not looked at.
AutoLinesAll(st) ==
    LET w == SelectSeq(for_all_symbols, LAMBDA s : ~IsChoice(s))
        all == [i \in DOMAIN w |-> Line(st, w[i])]
    IN SelectSeq(all, LAMBDA l : l.value # "n")

\* conf_touch_deps and the loop that writes .tmpconfig both calculate every symbol.
\* auto.conf leaves out what is n; autoconf.h has the same values.
AutoLines(st) ==
    LET w == SelectSeq(for_all_symbols, LAMBDA s : ~IsChoice(s) /\ st.sym[s].write)
        all == [i \in DOMAIN w |-> Line(st, w[i])]
    IN SelectSeq(all, LAMBDA l : ~(SymType[l.name] \in {"bool", "tristate"} /\ l.value = "n"))

Calculated(st) == CalcAll(sym_calc_value(Invalidated(st), modules_sym), for_all_symbols)

-----------------------------------------------------------------------------
(* The modes that set every symbol: "yes", "mod", "no", "default" and "random". *)

\* The value a new bool or tristate gets; in mode "random", any of the type.
NewValues(mode, s) ==
    CASE mode = "yes" -> {yes} [] mode = "mod" -> {mod}
      [] mode = "no" -> {IF s \in Allnoconfig_y THEN yes ELSE no}
      [] mode = "random" -> IF SymType[s] = "tristate" THEN {no, mod, yes} ELSE {no, yes}

IsNew(st, s) == ~st.sym[s].user /\ ~st.sym[s].valid /\ sym_get_type(st, s) \in {"bool", "tristate"}

\* The tables after the first loop of conf_set_all_new_symbols.
Assigned(st, mode) ==
    LET new == {s \in Defined : IsNew(st, s)}
    IN IF mode = "default" THEN {st}
       ELSE {[st EXCEPT !.sym = Table([s \in DOMAIN @ |->
                IF s \notin new THEN @[s]
                ELSE [@[s] EXCEPT !.utri = f[s], !.user = ~(IsChoice(s) /\ mode = "random")]])] :
             f \in {g \in [new -> {no, mod, yes}] : \A s \in new : g[s] \in NewValues(mode, s)}}

randomize_choice_values(st, c, m) ==
    IF st.sym[c].tri # yes THEN st
    ELSE [st EXCEPT !.sym = Table([s \in DOMAIN @ |->
            IF s = c THEN [@[s] EXCEPT !.user = TRUE, !.valid = FALSE, !.uval = m]
            ELSE IF s \in ToSet(Def(c).members)
            THEN [@[s] EXCEPT !.user = TRUE, !.valid = FALSE, !.utri = IF s = m THEN yes ELSE no]
            ELSE @[s]])]

NeedChoiceValues(st, mode) ==
    IF mode = "random" THEN st
    ELSE [st EXCEPT !.sym = Table([s \in DOMAIN @ |->
        IF (IsChoice(s) /\ ~@[s].user) \/ IsChoiceValue(s) THEN [@[s] EXCEPT !.need = TRUE] ELSE @[s]])]

\* The second loop, over the choices that are still new; m, of pick, is the random member.
\* r is [st, changed].
SetNewChoice(mode, m, st, changed, s) ==
    IF mode = "random"
    THEN [st |-> randomize_choice_values(st, s, m), changed |-> changed \/ st.sym[s].tri = yes]
    ELSE [st |-> set_all_choice_values(st, s), changed |-> TRUE]
SetChoice(mode, pick, r, s) ==
    IF ~IsChoice(s) \/ r.st.sym[s].user THEN r
    ELSE SetNewChoice(mode, pick[s], sym_calc_value(r.st, s), r.changed, s)

\* The possible results of one call; changed is its has_changed.
conf_set_all_new_symbols(st, mode) ==
    {FoldLeft(LAMBDA r, s : SetChoice(mode, pick, r, s),
              [st |-> NeedChoiceValues(sym_clear_all_valid(a), mode),
               changed |-> mode # "default" /\ \E s \in Defined : IsNew(st, s)],
              for_all_symbols) :
        a \in Assigned(st, mode),
        pick \in {p \in [Defined \cap ChoiceSyms -> Defined] :
                    \A c \in DOMAIN p : p[c] \in ToSet(Def(c).members)}}

conf_rewrite_mod_or_yes(st, mode) ==
    LET old == IF mode = "y2m" THEN yes ELSE mod
    IN sym_clear_all_valid([st EXCEPT !.sym = Table([s \in DOMAIN @ |->
          IF sym_get_type(st, s) = "tristate" /\ @[s].utri = old
          THEN [@[s] EXCEPT !.utri = IF mode = "y2m" THEN mod ELSE yes] ELSE @[s]])])

=============================================================================

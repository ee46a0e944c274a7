-------------------------- MODULE KconfPreprocess --------------------------
(***************************************************************************)
(* The macro language of the Kconfig files (nemu/tools/kconfig/            *)
(* preprocess.c): variables of two flavours, built-in and user-defined     *)
(* functions, and the environment.  The environment variables whose values *)
(* were used are remembered, and env_write_dep writes them to              *)
(* auto.conf.cmd: the build runs kconfig again when one of them changes.   *)
(*                                                                         *)
(* A text, between the end the lexer gives it and the next, is a sequence  *)
(* of atoms and of references $(part,part,...); what a text expands to is  *)
(* a sequence of atoms.                                                    *)
(***************************************************************************)
EXTENDS Integers, Sequences, FiniteSetsExt, SequencesExt

CONSTANTS
    MaxDepth,       \* of calls of one function: 1000 in the source
    ShellBuf,       \* what do_shell reads of a command's output: 255 characters in the source
    Output(_)       \* what a shell command prints, an external

Lit(a) == [ref |-> FALSE, atom |-> a, parts |-> <<>>]
Open(parts) == [ref |-> TRUE, atom |-> "(", parts |-> parts]    \* no ')' up to the end of the text
Ref(parts) == [ref |-> TRUE, atom |-> "", parts |-> parts]
Dangling == <<Ref(<<>>)>>   \* the value of a variable that has been freed, or is not set yet
Literal(atoms) == [i \in DOMAIN atoms |-> Lit(atoms[i])]

(***************************************************************************)
(* A state: variable_list with the depth of each variable's expansion,     *)
(* env_list, the result of the last expansion, and the message pperror has *)
(* stopped the program with.  missed is history: the variables asked for   *)
(* that the environment did not have.                                      *)
(***************************************************************************)
NoError == "none"
InitPp == [vars |-> <<>>, env |-> <<>>, out |-> <<>>, err |-> NoError, missed |-> {}]
pperror(st, what) == IF st.err # NoError THEN st ELSE [st EXCEPT !.err = what, !.out = <<>>]
Yield(st, atoms) == [st EXCEPT !.out = atoms]

RECURSIVE expand_string_with_args(_, _, _, _)

\* Mutation: the value is not remembered.
env_expandForgets(st, name, getenv) ==
    CASE name \in DOMAIN st.env -> Yield(st, st.env[name])
      [] name \notin DOMAIN st.env /\ name \notin DOMAIN getenv -> [st EXCEPT !.out = <<>>, !.missed = @ \cup {name}]
      [] OTHER -> Yield(st, getenv[name])

env_expand(st, name, getenv) ==
    CASE name \in DOMAIN st.env -> Yield(st, st.env[name])
      [] name \notin DOMAIN st.env /\ name \notin DOMAIN getenv -> [st EXCEPT !.out = <<>>, !.missed = @ \cup {name}]
      [] OTHER -> [st EXCEPT !.out = getenv[name], !.env = @ @@ (name :> getenv[name])]

\* do_shell: the trailing new lines go, the others become spaces.
do_shell(argv) ==
    LET read == SubSeq(Output(argv[1]), 1, Min({Len(Output(argv[1])), ShellBuf}))
        kept == {i \in DOMAIN read : read[i] # "\n"}
        text == IF kept = {} THEN <<>> ELSE SubSeq(read, 1, Max(kept))
    IN [i \in DOMAIN text |-> IF text[i] = "\n" THEN " " ELSE text[i]]

Arity == (<<"error-if">> :> 2) @@ (<<"warning-if">> :> 2) @@ (<<"info">> :> 1) @@ (<<"shell">> :> 1)
         @@ (<<"filename">> :> 0) @@ (<<"lineno">> :> 0)

function_expand(st, name, argv) ==
    CASE Len(argv) < Arity[name] -> pperror(st, "too few")
      [] Len(argv) > Arity[name] -> pperror(st, "too many")
      [] OTHER ->
           CASE name = <<"error-if">> -> IF argv[1] = <<"y">> THEN pperror(st, "error-if") ELSE Yield(st, <<>>)
             [] name = <<"shell">> -> Yield(st, do_shell(argv))
             [] name \in {<<"info">>, <<"warning-if">>} -> Yield(st, <<>>)
             [] name \in {<<"filename">>, <<"lineno">>} -> Yield(st, name)   \* the place in the Kconfig file

variable_expand(st, name, argv, getenv) ==
    LET v == st.vars[name]
        down == [st EXCEPT !.vars[name].exp_count = @ + 1]
        inner == expand_string_with_args(down, v.value, argv, getenv)
    IN CASE argv = <<>> /\ v.exp_count > 0 -> pperror(st, "recursive variable")
         [] (argv # <<>> \/ v.exp_count = 0) /\ v.exp_count > MaxDepth -> pperror(st, "too deep")
         [] OTHER -> CASE v.flavor = "recursive" -> [inner EXCEPT !.vars[name].exp_count = @ - 1]
                       [] v.flavor = "simple" /\ v.value = Dangling -> pperror(st, "undefined")
                       [] OTHER -> Yield(st, [i \in DOMAIN v.value |-> v.value[i].atom])

\* eval_clause: an argument of the function that is being expanded, a variable
\* or function of the Kconfig files, a built-in function, the environment.
Call(st, name, argv, getenv) ==
    CASE name \in DOMAIN st.vars -> variable_expand(st, name, argv, getenv)
      [] name \notin DOMAIN st.vars /\ name \in DOMAIN Arity -> function_expand(st, name, argv)
      [] name \notin DOMAIN st.vars \cup DOMAIN Arity /\ argv = <<>> /\ name # <<>> -> env_expand(st, name, getenv)
      [] OTHER -> Yield(st, <<>>)

IsArgument(parts, n) == Len(parts) = 1 /\ parts[1] = <<Lit(ToString(n))>>

\* The name and the arguments are expanded from left to right.
Expanded(st, parts, argv, getenv) ==
    FoldLeft(LAMBDA s, text : LET x == expand_string_with_args(s.st, text, argv, getenv)
                              IN [st |-> x, done |-> Append(s.done, x.out)],
             [st |-> st, done |-> <<>>], parts)

eval_clause(st, parts, argv, getenv) ==
    IF \E n \in DOMAIN argv : IsArgument(parts, n)
    THEN Yield(st, argv[CHOOSE n \in DOMAIN argv : IsArgument(parts, n)])
    ELSE LET x == Expanded(st, parts, argv, getenv)
         IN IF x.st.err # NoError THEN x.st ELSE Call(x.st, x.done[1], Tail(x.done), getenv)

expand_dollar(st, item, argv, getenv) ==
    IF item.atom = "(" THEN pperror(st, "unterminated") ELSE eval_clause(st, item.parts, argv, getenv)

expand_string_with_args(st, text, argv, getenv) ==
    FoldLeft(LAMBDA s, item :
               CASE s.err # NoError -> s
                 [] s.err = NoError /\ ~item.ref -> [s EXCEPT !.out = Append(@, item.atom)]
                 [] OTHER -> LET x == expand_dollar(s, item, argv, getenv) IN [x EXCEPT !.out = s.out \o @],
             Yield(st, <<>>), text)
expand_string(st, text, getenv) == expand_string_with_args(st, text, <<>>, getenv)

(***************************************************************************)
(* variable_add: += keeps the flavour of a variable that exists and makes  *)
(* a new one recursive; the value of a simple variable is expanded here.   *)
(* By then the variable has its new flavour and its old value is freed: a  *)
(* text that mentions the variable it defines with := reads a value that   *)
(* is undefined, and the model follows the program no further.             *)
(***************************************************************************)
variable_add(st, name, text, flavor, getenv) ==
    LET old == name \in DOMAIN st.vars
        kind == CASE flavor # "append" -> flavor
                  [] flavor = "append" /\ old -> st.vars[name].flavor
                  [] flavor = "append" /\ ~old -> "recursive"
        entry == [flavor |-> kind, value |-> Dangling, exp_count |-> 0]
        added == IF flavor = "append" /\ old THEN st ELSE [st EXCEPT !.vars = (name :> entry) @@ @]
        x == IF kind = "simple" THEN expand_string(added, text, getenv) ELSE Yield(st, <<>>)
        value == IF kind = "simple" THEN Literal(x.out) ELSE text
        whole == IF flavor = "append" /\ old THEN st.vars[name].value \o <<Lit(" ")>> \o value ELSE value
    IN IF x.err # NoError THEN x
       ELSE [x EXCEPT !.vars = (name :> [entry EXCEPT !.value = whole]) @@ @]

\* The assignments of a Kconfig file one after the other, and a text used in it.
Assign(st, a, getenv) == IF st.err # NoError THEN st ELSE variable_add(st, a.name, a.text, a.flavor, getenv)
Preprocess(script, text, getenv) ==
    LET st == FoldLeft(LAMBDA s, a : Assign(s, a, getenv), InitPp, script)
    IN IF st.err # NoError THEN st ELSE expand_string(st, text, getenv)

(***************************************************************************)
(* env_write_dep and the make that reads what it writes: kconfig runs      *)
(* again when a remembered variable has another value, where make takes a  *)
(* variable that is not set for an empty one.                              *)
(***************************************************************************)
InMake(env, n) == IF n \in DOMAIN env THEN env[n] ELSE <<>>
Unnoticed(st, env) == \A n \in DOMAIN st.env : InMake(env, n) = st.env[n]

SameResult(st, u) == st.out = u.out /\ st.vars = u.vars /\ st.err = u.err

Environments(names, values) == UNION {[set -> values] : set \in SUBSET names}

(***************************************************************************)
(* "We need to remember all referenced environment variables": whatever    *)
(* change of the environment goes unnoticed, the same text comes out.      *)
(***************************************************************************)
AllRemembered(script, text, getenv, names, values) ==
    LET st == Preprocess(script, text, getenv)
    IN st.err = NoError =>
         \A e \in Environments(names, values) :
             Unnoticed(st, e) => SameResult(st, Preprocess(script, text, e))

(***************************************************************************)
(* What holds: so it is for every environment in which those variables     *)
(* are still not set that were asked for and not set before; they are the  *)
(* ones that are not remembered.  Every expansion ends with all depths     *)
(* back at 0.                                                              *)
(***************************************************************************)
EnvDepsSufficient(script, text, getenv, names, values) ==
    LET st == Preprocess(script, text, getenv)
    IN st.err = NoError =>
         /\ \A n \in DOMAIN st.vars : st.vars[n].exp_count = 0
         /\ \A e \in Environments(names, values) :
                Unnoticed(st, e) /\ DOMAIN e \cap st.missed = {}
                    => SameResult(st, Preprocess(script, text, e))

\* A simple variable that is assigned once keeps the value it was given.
SimpleKeeps(script, getenv) ==
    \A i \in DOMAIN script :
        LET before == FoldLeft(LAMBDA s, a : Assign(s, a, getenv), InitPp, SubSeq(script, 1, i - 1))
            then == expand_string(before, script[i].text, getenv)
            after == Preprocess(script, <<Ref(<<Literal(script[i].name)>>)>>, getenv)
        IN (/\ script[i].flavor = "simple" /\ after.err = NoError
            /\ \A j \in DOMAIN script : script[j].name = script[i].name => i = j)
           => after.out = then.out
=============================================================================

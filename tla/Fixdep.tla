------------------------------- MODULE Fixdep -------------------------------
(***************************************************************************)
(* fixdep (nemu/tools/fixdep/fixdep.c): after a compilation it reads the   *)
(* dependency file of the compiler and the files named there, and replaces *)
(* the dependency on the header with the whole configuration by one on a   *)
(* file per CONFIG_ word used, the file kconfig touches when that symbol   *)
(* changes (conf_touch_dep in kconfig/confdata.c).                         *)
(*                                                                         *)
(* A text is a sequence of atoms: "CONFIG_", letters and digits, "_",      *)
(* "MODULE", and " " for everything else.                                  *)
(***************************************************************************)
EXTENDS Integers, Sequences, FiniteSets, SequencesExt

IsWordChar(c) == c # " "   \* isalnum(c) || c == '_': the atom starts, and ends, with such a character

RECURSIVE WordEnd(_, _)
WordEnd(text, q) == IF q <= Len(text) /\ IsWordChar(text[q]) THEN WordEnd(text, q + 1) ELSE q

\* Without the ending "_MODULE".
StripModule(name) ==
    IF Len(name) > 1 /\ SubSeq(name, Len(name) - 1, Len(name)) = <<"_", "MODULE">>
    THEN SubSeq(name, 1, Len(name) - 2) ELSE name

(***************************************************************************)
(* use_config: a word already in the hash table is not printed again.  The *)
(* table compares names, so what the hash is does not matter.              *)
(***************************************************************************)
use_config(used, name) == IF name \in ToSet(used) THEN used ELSE Append(used, name)

\* parse_config_file from position p: the words used, in order.
RECURSIVE ParseFrom(_, _, _)

NextWord(text, p, used) ==
    LET q == WordEnd(text, p + 1)
        name == StripModule(SubSeq(text, p + 1, q - 1))
    IN ParseFrom(text, q, IF name # <<>> THEN use_config(used, name) ELSE used)

ParseFrom(text, p, used) ==
    LET at == {i \in p..Len(text) : text[i] = "CONFIG_"}
        first == CHOOSE i \in at : \A j \in at : i <= j
    IN CASE at = {} -> used
         [] at # {} /\ first > 1 /\ IsWordChar(text[first - 1]) -> ParseFrom(text, first + 1, used)
         [] OTHER -> NextWord(text, first, used)
parse_config_file(used, text) == ParseFrom(text, 1, used)

\* print_dep and conf_touch_dep: the path of a symbol's file.  Both make '_' a
\* '/' and the letters small; print_dep writes no '/' after a '/', and two are
\* one to the file system.
Slash(name) == [i \in DOMAIN name |-> IF name[i] = "_" THEN "/" ELSE name[i]]
print_dep(name) ==
    LET s == <<"/">> \o Slash(name)
    IN FoldLeft(LAMBDA path, i : IF s[i] = "/" /\ s[i - 1] = "/" THEN path ELSE Append(path, s[i]),
                <<>>, [i \in 1..Len(name) |-> i + 1])
conf_touch_dep(name) == Slash(name)
OnDisk(path) ==
    LET s == <<"/">> \o path
    IN SelectSeq([i \in 1..Len(path) |-> IF s[i + 1] = "/" /\ s[i] = "/" THEN "" ELSE s[i + 1]], LAMBDA c : c # "")

(***************************************************************************)
(* parse_dep_file over the tokens of the dependency file: targets (they    *)
(* end in ':'), the two ignored headers, and files with their texts.       *)
(***************************************************************************)
InitDep == [first |-> FALSE, saw |-> FALSE, source |-> {}, deps |-> <<>>, used |-> <<>>]

DepToken(d, token, files) ==
    CASE token = "target" -> [d EXCEPT !.first = TRUE]
      [] token = "autoconf.h" -> d
      [] OTHER ->
           [d EXCEPT !.first = FALSE, !.saw = @ \/ d.first,
                     !.source = IF d.first /\ ~d.saw THEN {token} ELSE @,
                     !.deps = IF d.first THEN @ ELSE Append(@, token),
                     !.used = parse_config_file(@, files[token])]
parse_dep_file(tokens, files) == FoldLeft(LAMBDA d, token : DepToken(d, token, files), InitDep, tokens)

(***************************************************************************)
(* What the build needs: a symbol whose name stands in one of the files as *)
(* CONFIG_<name>, or as CONFIG_<name>_MODULE when it is built as a module, *)
(* not as a part of a longer word, has its file watched once, as the path  *)
(* kconfig touches; every other file is a dependency.  (A symbol whose own *)
(* name ends in _MODULE is taken for a module of the shorter name.)        *)
(***************************************************************************)
SymbolOf(name) ==
    IF \E n \in 1..Len(name) - 2 : SubSeq(name, n + 1, Len(name)) = <<"_", "MODULE">>
    THEN SubSeq(name, 1, Len(name) - 2) ELSE name

Uses(text, name) ==
    \E i \in DOMAIN text :
        /\ text[i] = "CONFIG_" /\ (i = 1 \/ ~IsWordChar(text[i - 1]))
        /\ i + Len(name) <= Len(text)
        /\ SubSeq(text, i + 1, i + Len(name)) = name
        /\ i + Len(name) = Len(text) \/ ~IsWordChar(text[i + Len(name) + 1])

DepsWatched(tokens, files, names) ==
    LET d == parse_dep_file(tokens, files)
        read == {x \in ToSet(tokens) : x \in DOMAIN files}
        paths == {print_dep(d.used[i]) : i \in DOMAIN d.used}
    IN /\ \A f \in read, n \in names : Uses(files[f], n) => OnDisk(conf_touch_dep(SymbolOf(n))) \in paths
       /\ IsInjective(d.used)
       /\ read \subseteq d.source \cup ToSet(d.deps) \/ Len(SelectSeq(tokens, LAMBDA x : x = "target")) > 1
       /\ d.saw <=> \E i \in 1..Len(tokens) - 1, j \in 2..Len(tokens) :
                       /\ i < j /\ tokens[i] = "target" /\ tokens[j] \in DOMAIN files
=============================================================================

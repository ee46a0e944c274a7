------------------------------- MODULE Kconf -------------------------------
(***************************************************************************)
(* Configuring and building NEMU: the Kconfig front ends conf.c and        *)
(* mconf.c, each run of which is a process with a symbol table of its own, *)
(* and the files they leave behind for each other and for make.  Between   *)
(* runs .config may be edited by hand and the Kconfig files may change; a  *)
(* run may be killed between any two of its changes to the files.          *)
(***************************************************************************)
EXTENDS KconfData

CONSTANTS
    HandConfigs,   \* .config files as edited by hand or left by another version
    Seeds,         \* the files KCONFIG_ALLCONFIG may name
    Modes,         \* the options conf is called with, "menuconfig" standing for mconf
    Repeated,      \* bound: those that are also called after another run
    Answers,       \* what the user types for numbers
    BuildAfterKill,\* make may run after a sync has been killed
    MaxRuns, MaxEdits, MaxKills, MaxDepth   \* bounds: processes, answers and keys, kills, open menus

VARIABLES
    fs,     \* [file, old, def, auto, header, touched]: file is .config and one more, old
            \* their .old; touched: whose include/config/x.h is newer than the objects
    proc,   \* the running process
    obj,    \* symbol -> the value the objects that use it were compiled with
    left    \* [runs, edits, kills] that may still happen

vars == <<rootmenu, fs, proc, obj, left>>

Versions == {conf_parse(Raw[v]) : v \in DOMAIN Raw}   \* the Kconfig files, parsed
Names == {s \in DOMAIN SymType : SymType[s] # "unknown" /\ s \notin ChoiceSyms}
RootId == "root"

\* The value an object sees in autoconf.h.
InHeader(lines, s) ==
    IF lines # NoFile /\ \E i \in DOMAIN lines : lines[i].name = s
    THEN lines[CHOOSE i \in DOMAIN lines : lines[i].name = s].value ELSE "n"

Files == {"config", "alt"}

NoTable == <<>>
Idle == [pc |-> "idle", mode |-> "", st |-> NoTable, work |-> <<>>, root |-> "", cnt |-> 0,
         menus |-> <<>>, all |-> FALSE, file |-> "config", then |-> "auto", lines |-> <<>>]

Init ==
    /\ rootmenu \in Versions
    /\ fs \in {[file |-> [f \in Files |-> IF f = "config" THEN c ELSE NoFile],
                old |-> [f \in Files |-> NoFile], def |-> NoFile, auto |-> NoFile,
                header |-> NoFile, touched |-> {}] : c \in HandConfigs \cup {NoFile}}
    /\ proc = Idle
    /\ obj = [s \in Names |-> "n"]
    /\ left = [runs |-> MaxRuns, edits |-> MaxEdits, kills |-> MaxKills]

\* conf_read(NULL): the table after reading .config.
ReadConfig ==
    IF fs.file["config"] = NoFile THEN conf_read_none(NewTable)
    ELSE conf_read(NewTable, fs.file["config"])

Call(op, x) == [op |-> op, x |-> x, new |-> FALSE]

MayStart(mode) ==
    /\ proc.pc = "idle" /\ left.runs > 0
    /\ mode \in IF left.runs = MaxRuns THEN Modes ELSE Modes \cap Repeated

Starts(pc, mode, st) ==
    /\ left' = [left EXCEPT !.runs = @ - 1]
    /\ proc' = [Idle EXCEPT !.pc = pc, !.mode = mode, !.st = st,
                            !.work = CASE mode = "oldaskconfig" -> <<Call("conf", RootId)>>
                                       [] pc = "ask" /\ mode # "oldaskconfig" -> <<Call("check", RootId)>>
                                       [] OTHER -> <<>>,
                            !.root = IF mode = "oldaskconfig" THEN RootId ELSE "",
                            !.menus = IF pc = "menu" THEN <<RootId>> ELSE <<>>]
    /\ UNCHANGED <<rootmenu, fs, obj>>

-----------------------------------------------------------------------------
(* conf.c: main, by option *)

ConfDefconfig ==
    /\ MayStart("defconfig") /\ fs.def # NoFile
    /\ \E r \in conf_set_all_new_symbols(conf_read(NewTable, fs.def), "default") :
           Starts("write", "defconfig", r.st)

ConfSavedefconfig == MayStart("savedefconfig") /\ Starts("savedef", "savedefconfig", ReadConfig)

ConfOlddefconfig == MayStart("olddefconfig") /\ Starts("write", "olddefconfig", ReadConfig)

\* KCONFIG_ALLCONFIG may name a file that fixes some of the values.
Seeded == {NewTable} \cup {LoadUser(NewTable, c) : c \in Seeds}

ConfAll ==
    \E m \in {<<"allnoconfig", "no">>, <<"allyesconfig", "yes">>, <<"allmodconfig", "mod">>,
              <<"alldefconfig", "default">>} :
        /\ MayStart(m[1])
        /\ \E st \in Seeded : \E r \in conf_set_all_new_symbols(st, m[2]) : Starts("write", m[1], r.st)

\* (bound: only with such a file, which leaves less to chance, where there is a .config)
ConfRand ==
    /\ MayStart("randconfig")
    /\ \E st \in Seeded : /\ st = NewTable => fs.file["config"] = NoFile
                          /\ Starts("random", "randconfig", st)

\* "Really nothing to do in this loop"
RandStep ==
    /\ proc.pc = "random"
    /\ \E r \in conf_set_all_new_symbols(proc.st, "random") :
           proc' = [proc EXCEPT !.st = r.st, !.pc = IF r.changed THEN @ ELSE "write"]
    /\ UNCHANGED <<rootmenu, fs, obj, left>>

ConfRewrite ==
    \E m \in {<<"yes2modconfig", "y2m">>, <<"mod2yesconfig", "m2y">>} :
        MayStart(m[1]) /\ Starts("write", m[1], conf_rewrite_mod_or_yes(ReadConfig, m[2]))

ConfAsk ==
    \E m \in {"oldconfig", "oldaskconfig", "syncconfig", "listnewconfig"} : MayStart(m) /\ Starts("ask", m, ReadConfig)

\* syncconfig with KCONFIG_NOSILENTUPDATE: .config must need no update and is not written.
ConfSyncOnly ==
    /\ MayStart("syncconfig")
    /\ \E st \in {ReadConfig} :
          IF st.changes > 0 THEN Starts("idle", "", NoTable) ELSE Starts("ask", "synconly", st)

-----------------------------------------------------------------------------
(* The dialogue of oldconfig: work is the stack of calls still to make. *)

Node(x) == rootmenu.node[x]
Kids(op, x) == [i \in DOMAIN Node(x).kids |-> Call(op, Node(x).kids[i])]
Top == Head(proc.work)
At_(op) == proc.pc = "ask" /\ proc.work # <<>> /\ Top.op = op

\* The call on top is replaced by others; the table becomes st.
Instead(st, items) == proc' = [proc EXCEPT !.st = st, !.work = items \o Tail(@)]
Quiet == UNCHANGED <<rootmenu, fs, obj, left>>

IsNewSym(st, s) == ~st.sym[s].user /\ (sym_is_changeable(st, s) \/ (IsChoice(s) /\ st.sym[s].tri = yes))

check_conf ==
    /\ At_("check") /\ Quiet
    /\ \E r \in {menu_is_visible(proc.st, Top.x)} :
       LET s == Node(Top.x).sym
           root == menu_get_parent_menu(Top.x)
       IN IF ~r.v THEN Instead(r.st, <<>>)
          ELSE IF s # "" /\ IsNewSym(r.st, s) /\ proc.mode # "listnewconfig"
          THEN proc' = [proc EXCEPT !.st = r.st, !.cnt = @ + 1, !.root = root,
                                    !.work = <<Call("conf", root)>> \o Kids("check", Top.x) \o Tail(@)]
          ELSE Instead(r.st, Kids("check", Top.x))

conf ==
    /\ At_("conf") /\ Quiet
    /\ \E r \in {menu_is_visible(proc.st, Top.x)} :
       LET s == Node(Top.x).sym
       IN CASE ~r.v -> Instead(r.st, <<>>)
            [] r.v /\ Node(Top.x).ptype = "menu" /\ proc.mode # "oldaskconfig" /\ proc.root # Top.x ->
                 Instead(r.st, <<Call("check", Top.x)>>)
            [] OTHER ->
                 IF s = "" THEN Instead(r.st, Kids("conf", Top.x))
                 ELSE IF IsChoice(s)
                 THEN Instead(r.st, (IF sym_is_changeable(r.st, s) THEN <<Call("sym", Top.x)>> ELSE <<>>)
                                    \o <<[Call("choice", Top.x) EXCEPT !.new = ~r.st.sym[s].user],
                                         Call("choicekids", Top.x)>>)
                 ELSE Instead(r.st, <<Call("sym", Top.x)>> \o Kids("conf", Top.x))

\* conf_askvalue: nothing is asked when the symbol is fixed or has a value already.
conf_askvalue(st, s) ==
    /\ sym_is_changeable(st, s)
    /\ proc.mode = "oldaskconfig" \/ ~st.sym[s].user

\* conf_sym and conf_string, when nothing is asked ...
NotAsked ==
    /\ At_("sym") /\ Quiet
    /\ \E st \in {sym_calc_value(proc.st, Node(Top.x).sym)} :
          ~conf_askvalue(st, Node(Top.x).sym) /\ Instead(st, <<>>)

\* ... and when the user answers.  An answer that cannot be set is asked again.
Replies(s) == IF SymType[s] \in {"bool", "tristate"} THEN {"n", "m", "y"} ELSE Answers
Answer ==
    /\ At_("sym") /\ left.edits > 0
    /\ LET s == Node(Top.x).sym
       IN \E st \in {sym_calc_value(proc.st, s)} :
            /\ conf_askvalue(st, s)
            /\ \E a \in Replies(s) \cup {sym_get_string_value(st, s)} :
                 \E r \in {sym_set_string_value(st, s, a)} : Instead(r.st, IF r.ok THEN <<>> ELSE <<Top>>)
    /\ left' = [left EXCEPT !.edits = @ - 1]
    /\ UNCHANGED <<rootmenu, fs, obj>>

\* The symbols shown for a choice, and the table after their visibility is calculated.
AddMember(m, list, k) == [st |-> m.st, list |-> IF m.v /\ Node(k).sym # "" THEN Append(list, k) ELSE list]
Members(st, x) ==
    FoldLeft(LAMBDA r, k : AddMember(menu_is_visible(r.st, k), r.list, k), [st |-> st, list |-> <<>>], Node(x).kids)

\* The list of a choice: one entry is taken as it is, an old choice keeps its value,
\* otherwise the user picks one.
conf_choice ==
    /\ At_("choice")
    /\ LET c == Node(Top.x).sym
       IN \E st \in {sym_calc_value(proc.st, c)} :
            \/ st.sym[c].tri # yes /\ Instead(st, <<>>) /\ Quiet
            \/ st.sym[c].tri = yes /\ \E m \in {Members(st, Top.x)} :
                 LET keep == {i \in DOMAIN m.list : Node(m.list[i]).sym = m.st.sym[c].val}
                     asked == Len(m.list) # 1 /\ (Top.new \/ proc.mode = "oldaskconfig")
                     picks == IF asked THEN DOMAIN m.list ELSE IF Len(m.list) = 1 THEN {1} ELSE keep
                 IN /\ \E i \in picks :
                         Instead(sym_set_tristate_value(m.st, Node(m.list[i]).sym, yes).st, Kids("conf", m.list[i]))
                    /\ asked => left.edits > 0
                    /\ left' = [left EXCEPT !.edits = IF asked THEN @ - 1 ELSE @]
                    /\ UNCHANGED <<rootmenu, fs, obj>>

ChoiceKids ==
    /\ At_("choicekids") /\ Quiet
    /\ Instead(proc.st, IF proc.st.sym[Node(Top.x).sym].tri = mod THEN Kids("conf", Top.x) ELSE <<>>)

\* "Update until a loop caused no more changes"
AskAgain ==
    /\ proc.pc = "ask" /\ proc.work = <<>> /\ Quiet
    /\ proc' = IF proc.cnt > 0 \/ proc.mode = "oldaskconfig"
               THEN [proc EXCEPT !.cnt = 0, !.work = <<Call("check", RootId)>>,
                                 !.mode = IF @ = "oldaskconfig" THEN "oldconfig" ELSE @]
               ELSE IF proc.mode = "listnewconfig" THEN Idle
               ELSE [proc EXCEPT !.pc = IF proc.mode = "synconly" THEN "auto" ELSE "write", !.root = ""]

-----------------------------------------------------------------------------
(* mconf.c *)

Mconf == MayStart("menuconfig") /\ Starts("menu", "menuconfig", ReadConfig)

\* build_conf: the nodes listed in a menu, with [st]; a choice that is y shows none of
\* its members but the submenu of the chosen one.
Current == proc.menus[Len(proc.menus)]
AddItem(st, items, x) == [st |-> st, items |-> IF x = Current THEN items ELSE Append(items, x)]
RECURSIVE build_conf(_, _)
AddKids(r, x) == FoldLeft(LAMBDA a, k : build_conf(a, k), r, Node(x).kids)
ShowChoice(m, items, x) ==
    LET s == Node(x).sym
        chosen == SelectSeq(m.list, LAMBDA k : Node(k).sym = m.st.sym[s].val)
    IN IF m.st.sym[s].tri # yes THEN AddKids(AddItem(m.st, items, x), x)
       ELSE IF chosen = <<>> \/ Node(chosen[1]).kids = <<>> THEN AddItem(m.st, items, x)
       ELSE build_conf(AddItem(m.st, items, x), chosen[1])
ShowNode(v, items, x) ==
    LET n == Node(x)
    IN IF IF proc.all THEN ~n.prompt ELSE ~v.v THEN [st |-> v.st, items |-> items]
       ELSE IF n.ptype = "menu" /\ x # Current THEN AddItem(menu_is_empty(v.st, x).st, items, x)
       ELSE IF IsChoice(n.sym) THEN ShowChoice(Members(v.st, x), items, x)
       ELSE AddKids(AddItem(v.st, items, x), x)
build_conf(r, x) == ShowNode(menu_is_visible(r.st, x), r.items, x)

Listed == build_conf([st |-> proc.st, items |-> <<>>], Current)   \* [st, items]

\* The tag of an item: t for what has a tristate value that keys may change, s for
\* strings and numbers, m for menus.
Tag(st, x) ==
    LET s == Node(x).sym
    IN IF s = "" THEN IF Node(x).ptype = "menu" THEN "m" ELSE ":"
       ELSE IF IsChoice(s)
       THEN IF sym_is_changeable(st, s) \/ \E k \in ToSet(Members(st, x).list) : Node(k).sym = st.sym[s].val
            THEN "t" ELSE ":"
       ELSE IF SymType[s] \in {"bool", "tristate"}
       THEN IF IsChoiceValue(s) /\ st.sym[s].tri = yes THEN ":" ELSE "t"
       ELSE "s"

InMenu == proc.pc = "menu"
Edits == left.edits > 0 /\ left' = [left EXCEPT !.edits = @ - 1] /\ UNCHANGED <<rootmenu, fs, obj>>
Becomes(st) == Edits /\ proc' = [proc EXCEPT !.st = st]

\* y (which falls back on m), n, m and the space bar on an item
YesOrMod(r, s) == IF r.ok THEN r.st ELSE sym_set_tristate_value(r.st, s, mod).st
KeyResult(st, s, key) ==
    CASE key = "y" -> YesOrMod(sym_set_tristate_value(st, s, yes), s)
      [] key = "n" -> sym_set_tristate_value(st, s, no).st
      [] key = "m" -> sym_set_tristate_value(st, s, mod).st
      [] key = " " -> sym_toggle_tristate_value(st, s)

MenuKey ==
    /\ InMenu
    /\ \E l \in {Listed} :
         \E i \in DOMAIN l.items, key \in {"y", "n", "m", " "} :
            /\ Tag(l.st, l.items[i]) = "t"
            /\ Becomes(KeyResult(l.st, Node(l.items[i]).sym, key))

\* Enter on a choice that is y: the radio list.
MenuChoice ==
    /\ InMenu
    /\ \E l \in {Listed} :
         \E x \in ToSet(l.items) :
            /\ IsChoice(Node(x).sym) /\ Tag(l.st, x) = "t" /\ l.st.sym[Node(x).sym].tri = yes
            /\ \E m \in {Members(l.st, x)} : \E k \in ToSet(m.list) :
                 Becomes(sym_set_tristate_value(m.st, Node(k).sym, yes).st)

MenuString ==
    /\ InMenu
    /\ \E l \in {Listed} :
         \E i \in DOMAIN l.items, a \in Answers :
            /\ Tag(l.st, l.items[i]) = "s"
            /\ Becomes(sym_set_string_value(l.st, Node(l.items[i]).sym, a).st)

MenuEnter ==
    /\ InMenu /\ Quiet /\ Len(proc.menus) < MaxDepth
    /\ \E l \in {Listed} :
         \E i \in DOMAIN l.items :
            /\ Node(l.items[i]).ptype = "menu"
            /\ proc' = [proc EXCEPT !.st = l.st, !.menus = Append(@, l.items[i])]

\* Z: show_all_options
MenuShowAll == InMenu /\ Edits /\ proc' = [proc EXCEPT !.all = ~@]

\* search_conf: the menu of a symbol found, or of its nearest visible ancestor.
MenuSearch ==
    /\ InMenu /\ Quiet
    /\ \E x \in DOMAIN rootmenu.node, seen \in {{y \in DOMAIN rootmenu.node : menu_is_visible(proc.st, y).v}} :
         LET RECURSIVE location(_)
             location(y) == IF y = RootId \/ y \in seen THEN y ELSE location(Node(y).parent)
             up == location(Node(x).parent)
             target == IF x \in seen THEN x ELSE up
         IN /\ Node(x).sym # "" /\ Node(x).prompt
            /\ up # RootId
            /\ Len(proc.menus) < MaxDepth
            /\ proc' = [proc EXCEPT !.menus = Append(@, Node(target).parent)]

\* Esc in a submenu.
MenuLeave ==
    /\ InMenu /\ Len(proc.menus) > 1 /\ Quiet
    /\ proc' = [proc EXCEPT !.menus = Front(@)]

\* conf_load and conf_save: the file becomes the one that is saved on exit.
MenuLoad ==
    /\ InMenu
    /\ \E f \in {g \in Files : fs.file[g] # NoFile} :
         /\ Edits
         /\ proc' = [proc EXCEPT !.st = [conf_read(proc.st, fs.file[f]) EXCEPT !.changes = 1], !.file = f]

MenuSave ==
    /\ InMenu
    /\ \E f \in Files :
         /\ Edits
         /\ proc' = [proc EXCEPT !.pc = "write", !.then = "menu", !.file = f]

\* handle_exit, after the root menu is left or on SIGINT: saving is offered when
\* something has changed.
MenuExit ==
    /\ InMenu /\ Quiet
    /\ \/ proc' = Idle
       \/ proc.st.changes > 0 /\ proc' = [proc EXCEPT !.pc = "write", !.menus = <<>>]

-----------------------------------------------------------------------------
(* Writing the files.  A file that is the same is left alone. *)

WriteSame ==
    /\ proc.pc = "write" /\ Quiet
    /\ \E w \in {conf_write(proc.st)} :
          /\ w.lines = fs.file[proc.file]
          /\ proc' = [proc EXCEPT !.pc = proc.then, !.then = "auto", !.st = w.st]

\* Mutation: .config is removed, and not kept as .config.old.
WriteOldUnlink ==
    /\ proc.pc = "write"
    /\ \E w \in {conf_write(proc.st)} :
          /\ w.lines # fs.file[proc.file]
          /\ proc' = [proc EXCEPT !.pc = "rename", !.st = w.st, !.lines = w.lines]
    /\ fs' = [fs EXCEPT !.file[proc.file] = NoFile]
    /\ UNCHANGED <<rootmenu, obj, left>>

\* rename(".config", ".config.old") ...
WriteOld ==
    /\ proc.pc = "write"
    /\ \E w \in {conf_write(proc.st)}, f \in {proc.file} :
          /\ w.lines # fs.file[f]
          /\ proc' = [proc EXCEPT !.pc = "rename", !.st = w.st, !.lines = w.lines]
          /\ fs' = IF fs.file[f] = NoFile THEN fs ELSE [fs EXCEPT !.old[f] = fs.file[f], !.file[f] = NoFile]
    /\ UNCHANGED <<rootmenu, obj, left>>

\* ... and rename(".config.tmp", ".config")
WriteNew ==
    /\ proc.pc = "rename"
    /\ fs' = [fs EXCEPT !.file[proc.file] = proc.lines]
    /\ proc' = [proc EXCEPT !.pc = proc.then, !.then = "auto", !.lines = <<>>]
    /\ UNCHANGED <<rootmenu, obj, left>>

SaveDef ==
    /\ proc.pc = "savedef"
    /\ fs' = [fs EXCEPT !.def = conf_write_defconfig(proc.st).lines]
    /\ proc' = Idle
    /\ UNCHANGED <<rootmenu, obj, left>>

Syncs == {"syncconfig", "synconly"}

\* conf_write_autoconf: only syncconfig replaces an auto.conf that is there.
SkipAuto ==
    /\ proc.pc = "auto" /\ proc.mode \notin Syncs /\ fs.auto # NoFile
    /\ proc' = Idle /\ Quiet

TouchDeps ==
    /\ proc.pc = "auto" /\ (proc.mode \in Syncs \/ fs.auto = NoFile)
    /\ \E st \in {Calculated(proc.st)} :
          /\ fs' = [fs EXCEPT !.touched = @ \cup Touched(st, fs.auto)]
          /\ proc' = [proc EXCEPT !.pc = "header", !.st = st, !.lines = AutoLines(st)]
    /\ UNCHANGED <<rootmenu, obj, left>>

RenameHeader ==
    /\ proc.pc = "header"
    /\ fs' = [fs EXCEPT !.header = proc.lines]
    /\ proc' = [proc EXCEPT !.pc = "autoconf"]
    /\ UNCHANGED <<rootmenu, obj, left>>

RenameAuto ==
    /\ proc.pc = "autoconf"
    /\ fs' = [fs EXCEPT !.auto = proc.lines]
    /\ proc' = Idle
    /\ UNCHANGED <<rootmenu, obj, left>>

-----------------------------------------------------------------------------
(* The surroundings *)

\* Before its first change to a file a run leaves nothing behind.
Kill ==
    /\ proc.pc \in {"rename", "auto", "header", "autoconf"} /\ left.kills > 0
    /\ proc' = Idle
    /\ left' = [left EXCEPT !.kills = @ - 1]
    /\ UNCHANGED <<rootmenu, fs, obj>>

EditKconfig ==
    /\ proc.pc = "idle" /\ left.edits > 0
    /\ \E r \in Versions \ {rootmenu} : rootmenu' = r
    /\ left' = [left EXCEPT !.edits = @ - 1]
    /\ UNCHANGED <<fs, proc, obj>>

HandEdit ==
    /\ proc.pc = "idle" /\ left.edits > 0
    /\ \E c \in HandConfigs \ {fs.file["config"]} : fs' = [fs EXCEPT !.file["config"] = c]
    /\ left' = [left EXCEPT !.edits = @ - 1]
    /\ UNCHANGED <<rootmenu, proc, obj>>

\* make: objects that use a symbol whose dependency file is newer are compiled again.
Make ==
    /\ proc.pc = "idle" /\ fs.auto # NoFile
    /\ fs.header # fs.auto => BuildAfterKill
    /\ obj' = [s \in Names |-> IF s \in fs.touched THEN InHeader(fs.header, s) ELSE obj[s]]
    /\ fs' = [fs EXCEPT !.touched = {}]
    /\ UNCHANGED <<rootmenu, proc, left>>

Dialogue == check_conf \/ conf \/ NotAsked \/ Answer \/ conf_choice \/ ChoiceKids \/ AskAgain
Conf == \/ ConfDefconfig \/ ConfSavedefconfig \/ ConfOlddefconfig \/ ConfAll \/ ConfRand \/ RandStep
        \/ ConfRewrite \/ ConfAsk \/ ConfSyncOnly
Menuconfig == Mconf \/ MenuKey \/ MenuChoice \/ MenuString \/ MenuEnter \/ MenuShowAll
              \/ MenuSearch \/ MenuLeave \/ MenuLoad \/ MenuSave \/ MenuExit
Write == WriteSame \/ WriteOld \/ WriteNew \/ SaveDef \/ SkipAuto \/ TouchDeps \/ RenameHeader \/ RenameAuto
Next == Conf \/ Dialogue \/ Menuconfig \/ Write \/ Kill \/ EditKconfig \/ HandEdit \/ Make

Spec == Init /\ [][Next]_vars

-----------------------------------------------------------------------------
(* Properties *)

\* conf_write and conf_read: a configuration that has just been written reads back as
\* itself.  Nothing counts as changed, and writing it again gives the same lines.
\* conf_write_defconfig: the configuration made from a saved defconfig is the one that
\* was saved.
ConfigReproducible ==
    /\ (proc.pc = "auto" /\ proc.mode # "synconly" /\ ~proc.st.reset) =>
           \E st \in {conf_read(NewTable, fs.file[proc.file])} :
               st.changes = 0 /\ conf_write(st).lines = fs.file[proc.file]
    /\ proc.pc = "savedef" =>
           \E def \in {conf_write_defconfig(proc.st).lines} :
              \A r \in conf_set_all_new_symbols(conf_read(NewTable, def), "default") :
                  conf_write(r.st).lines = conf_write(sym_clear_all_valid(proc.st)).lines

\* SYMBOL_VALID (sym_calc_value, sym_clear_all_valid): a value that is marked valid is
\* the one a calculation of all symbols from the user's values would give.
CacheCurrent ==
    (proc.pc # "idle" /\ ~proc.st.reset) =>
        \E st \in {proc.st}, fresh \in {Calculated(proc.st)} :
           \A s \in Defined \ ChoiceSyms :
               st.sym[s].valid => /\ st.sym[s].tri = fresh.sym[s].tri
                                  /\ st.sym[s].val = fresh.sym[s].val
                                  /\ st.sym[s].write = fresh.sym[s].write

\* conf_write_autoconf: a sync puts into autoconf.h and auto.conf the values of .config
\* other than n, and of every choice exactly one member.
SyncAgrees ==
    (proc.pc = "autoconf" /\ proc.file = "config" /\ ~proc.st.reset) =>
        /\ ToSet(fs.header) = {l \in ToSet(fs.file["config"]) : l.value # "n"}
        /\ \A c \in ChoiceSyms \cap Defined : proc.st.sym[c].tri = yes =>
               \E l \in ToSet(fs.header) : {k \in ToSet(fs.header) :
                    k.name \in ToSet(Def(c).members)} = {l}

\* conf_touch_deps: whatever is edited, synchronized or killed in between, an object
\* that make will not compile again has been compiled with the values of autoconf.h.
\* (make is not run on what a sync killed between its two renames has left.)
ObjectsCurrent ==
    \A s \in Names : s \notin fs.touched => obj[s] = InHeader(fs.header, s)

\* conf_write renames .config away before the new one is in place: at every moment, and
\* so after a kill, a configuration that existed is there under one of its names.
ConfigKept ==
    [][\A f \in Files : fs.file[f] # NoFile =>
          \/ fs'.file[f] # NoFile
          \/ fs'.old[f] = fs.file[f]]_vars

=============================================================================

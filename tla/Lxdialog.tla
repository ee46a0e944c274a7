------------------------------ MODULE Lxdialog ------------------------------
(***************************************************************************)
(* The dialogs of menuconfig (nemu/tools/kconfig/lxdialog): a menu, a list *)
(* of alternatives, a line of input and a text.  Each keeps a position and *)
(* changes the window piece by piece: what the window shows is state of    *)
(* its own.  A row of a list is <<item, highlighted>>; items count from 0, *)
(* as rows and characters do.  Arrows, colours and borders are left out.   *)
(***************************************************************************)
EXTENDS Integers, Sequences, FiniteSetsExt

CONSTANTS
    Hot,           \* the hot key of each item, a sequence
    Counts,        \* numbers of items a list may have
    Heights,       \* rows a list or a text may get
    Resized(_),    \* the heights a terminal may change to
    MaxResizes,    \* bound on the changes
    MAX_LEN,       \* characters of an input
    BoxWidth,      \* columns of the field for it
    Inits,         \* values an input may start with
    Texts          \* texts to show: sequences of "a" and "nl" that end in "nl"

VARIABLE dlg

Nul == "NUL"
Printable == {"o", "h", "x", "space"}

\* Lists and windows have a row, an input fits its array and the field shows
\* a part of it, and texts end their last line.
ASSUME LxAssumption ==
    /\ Counts \subseteq Nat \ {0} /\ Heights \subseteq Nat \ {0}
    /\ MAX_LEN \in Nat /\ BoxWidth \in 1..MAX_LEN + 1
    /\ \A i \in Inits : i \in Seq(Printable) /\ Len(i) <= MAX_LEN
    /\ \A t \in Texts : t \in Seq({"a", "nl"}) /\ t # <<>> /\ t[Len(t)] = "nl"

Blank == <<-1, 0>>
KEY_ESC == "esc"       \* ESC twice; a sequence that begins with ESC is "sequence"
Open == -1             \* no result yet
Escaped == 27          \* the result that cancels
HotKey(item) == Hot[item + 1]

print_item(d, index, row, selected) == [d EXCEPT !.rows[row] = <<index, selected>>]
wscrl(rows, k) == [r \in DOMAIN rows |-> IF r + k \in DOMAIN rows THEN rows[r + k] ELSE Blank]
do_scroll(d, k) == [d EXCEPT !.rows = wscrl(@, k), !.scroll = @ + k]
MaxChoice(d) == Min({d.height, d.n})

\* The m items from s on in a window of h rows, row c highlighted.
Window(h, m, s, c) == [r \in 0..h - 1 |-> IF r < m THEN <<s + r, IF r = c THEN 1 ELSE 0>> ELSE Blank]

\* TAB and the arrows go round the buttons.
Turned(d, key, buttons) ==
    LET b == IF key = "left" THEN d.button - 1 ELSE d.button + 1
        r == b % buttons
    IN [d EXCEPT !.button = r, !.shown = r]

(***************************************************************************)
(* dialog_menu.  selected is the item to start at, -1 when it is not (any  *)
(* more) in the menu; s_scroll is what the last call left; last remembers  *)
(* that call until something moves.                                        *)
(***************************************************************************)
Nothing == [n |-> 0, item |-> -1, scroll |-> 0]

OpenMenu(d, height) ==
    LET max == Min({height, d.n})
        at == IF d.selected # -1 THEN d.selected ELSE d.choice
        saved == /\ d.s_scroll <= at /\ d.s_scroll + max > at
                 /\ d.s_scroll >= 0 /\ d.s_scroll + max <= d.n
        far == ~saved /\ at >= max
        scroll == CASE saved -> d.s_scroll
                    [] far -> IF at >= d.n - (max \div 2) THEN d.n - max ELSE at - (max \div 2)
                    [] OTHER -> 0
        first == IF saved \/ far THEN scroll ELSE d.first_item
        choice == at - scroll
    IN [d EXCEPT !.height = height, !.scroll = scroll, !.choice = choice, !.first_item = first, !.shown = 0,
                 !.rows = Window(height, max, first, choice)]

NewMenu(n, selected, s_scroll, height, last) ==
    OpenMenu([kind |-> "menu", n |-> n, height |-> height, selected |-> selected, s_scroll |-> s_scroll, choice |-> 0,
              scroll |-> 0, first_item |-> 0, rows |-> <<>>, button |-> 0, shown |-> 0, out |-> Open, resizes |-> 0,
              last |-> last], height)

\* The row a letter leads to: the next one with that hot key, else the
\* first, else none (max_choice).
HotRow(d, key) ==
    LET rows == {r \in 0..MaxChoice(d) - 1 : HotKey(d.scroll + r) = key}
        below == {r \in rows : r > d.choice}
    IN IF key \in {"y", "n", "m", "h"} \/ rows = {} THEN MaxChoice(d)
       ELSE IF below # {} THEN Min(below) ELSE Min(rows)

KeyUp(d) ==
    IF d.choice < 2 /\ d.scroll > 0 THEN LET s == do_scroll(d, -1) IN print_item(s, s.scroll, 0, 0)
    ELSE [d EXCEPT !.choice = Max({@ - 1, 0})]

\* Mutation: the line scrolled in is not drawn.
KeyDownUndrawn(d) ==
    IF d.choice > MaxChoice(d) - 3 /\ d.scroll + MaxChoice(d) < d.n THEN do_scroll(d, 1)
    ELSE [d EXCEPT !.choice = Min({@ + 1, MaxChoice(d) - 1})]

KeyDown(d) ==
    IF d.choice > MaxChoice(d) - 3 /\ d.scroll + MaxChoice(d) < d.n
    THEN LET s == do_scroll(d, 1) IN print_item(s, s.scroll + MaxChoice(d) - 1, MaxChoice(d) - 1, 0)
    ELSE [d EXCEPT !.choice = Min({@ + 1, MaxChoice(d) - 1})]

PageUp(d) ==
    LET Done[i \in 0..MaxChoice(d)] ==
            IF i = 0 THEN d
            ELSE LET p == Done[i - 1]
                     s == do_scroll(p, -1)
                 IN IF p.scroll > 0 THEN print_item(s, s.scroll, 0, 0)
                    ELSE [p EXCEPT !.choice = Max({@ - 1, 0})]
    IN Done[MaxChoice(d)]

PageDown(d) ==
    LET max == MaxChoice(d)
        Done[i \in 0..max] ==
            IF i = 0 THEN d
            ELSE LET p == Done[i - 1]
                     s == do_scroll(p, 1)
                 IN IF p.scroll + max < d.n THEN print_item(s, s.scroll + max - 1, max - 1, 0)
                    ELSE [p EXCEPT !.choice = Min({@ + 1, max - 1})]
    IN Done[max]

Moves(d, key) == key \in {"up", "down", "ppage", "npage"} \/ HotRow(d, key) < MaxChoice(d)
MenuMoved(d, key) ==
    LET off == print_item(d, d.scroll + d.choice, d.choice, 0)
        m == CASE key = "up" -> KeyUp(off)
               [] key = "down" -> KeyDown(off)
               [] key = "ppage" -> PageUp(off)
               [] key = "npage" -> PageDown(off)
               [] OTHER -> [off EXCEPT !.choice = HotRow(d, key)]
    IN [print_item(m, m.scroll + m.choice, m.choice, 1) EXCEPT !.last = Nothing]

MenuCode == [h |-> 2, s |-> 5, y |-> 5, n |-> 6, m |-> 7, space |-> 8, slash |-> 9, z |-> 10]
MenuKeys == {"up", "down", "ppage", "npage", "left", "tab", "enter", "e", KEY_ESC, "sequence"}
            \cup DOMAIN MenuCode \cup {Hot[k] : k \in DOMAIN Hot}

\* What is left of a menu: the item selected, the scroll position kept for
\* the next call, and the items that were highlighted.
Left(d, code) ==
    [kind |-> "left", n |-> d.n, height |-> d.height, s_scroll |-> d.scroll, chosen |-> d.scroll + d.choice, out |-> code,
     lit |-> {d.rows[r][1] : r \in {q \in DOMAIN d.rows : d.rows[q][2] = 1}}]

dialog_menu(key) ==
    /\ dlg.kind = "menu" /\ dlg.out = Open
    /\ dlg' = CASE Moves(dlg, key) -> MenuMoved(dlg, key)
                [] ~Moves(dlg, key) /\ key \in {"left", "tab"} -> Turned(dlg, key, 5)
                [] ~Moves(dlg, key) /\ key \in DOMAIN MenuCode \cup {"enter"} ->
                       Left(dlg, IF key = "enter" THEN dlg.button ELSE MenuCode[key])
                [] ~Moves(dlg, key) /\ key \in {"e", KEY_ESC} -> [dlg EXCEPT !.out = Escaped]
                [] OTHER -> dlg

ResizeMenu(h) ==
    /\ dlg.kind = "menu" /\ dlg.out = Open /\ dlg.resizes < MaxResizes
    /\ dlg' = [OpenMenu(dlg, h) EXCEPT !.resizes = @ + 1, !.last = Nothing]

\* conf() of mconf.c builds the menu anew, with the items visible now, and
\* opens it at the item it was left at, if it is still there; Exit leaves it.
Reopen(n, selected) ==
    /\ dlg.kind = "left" /\ dlg.out # 1
    /\ selected \in -1..n - 1
    /\ dlg' = NewMenu(n, selected, dlg.s_scroll, dlg.height,
                      [n |-> dlg.n, item |-> dlg.chosen, scroll |-> dlg.s_scroll])

(***************************************************************************)
(* dialog_checklist: one of the items is to be chosen.                     *)
(***************************************************************************)
OpenList(d) ==
    LET scroll == IF d.choice >= d.height THEN (d.choice - d.height) + 1 ELSE d.scroll
        choice == IF d.choice >= d.height THEN d.height - 1 ELSE d.choice
    IN [d EXCEPT !.scroll = scroll, !.choice = choice, !.shown = 0,
                 !.rows = Window(d.height, MaxChoice(d), scroll, choice)]

NewList(n, tagged, height) ==
    OpenList([kind |-> "list", n |-> n, height |-> height, choice |-> tagged, scroll |-> 0, rows |-> <<>>, button |-> 0,
              shown |-> 0, out |-> Open, chosen |-> -1, resizes |-> 0])

HotItem(d, key) == Min({r \in 0..MaxChoice(d) - 1 : HotKey(d.scroll + r) = key} \cup {MaxChoice(d)})

\* The highlight leaves the window at the top or at the bottom: a list of
\* one row is drawn over, a longer one scrolled.
Scrolled(d, k) ==
    LET row == IF k = -1 THEN 0 ELSE MaxChoice(d) - 1
        off == print_item(d, d.scroll + row, row, 0)
        s == IF d.height > 1 THEN do_scroll(off, k) ELSE [d EXCEPT !.scroll = @ + k]
    IN print_item(s, s.scroll + row, row, 1)

Highlighted(d, i) ==
    IF i = d.choice THEN d
    ELSE [print_item(print_item(d, d.scroll + d.choice, d.choice, 0), d.scroll + i, i, 1) EXCEPT !.choice = i]

ListMoved(d, key) ==
    CASE key = "up" /\ d.choice = 0 -> IF d.scroll = 0 THEN d ELSE Scrolled(d, -1)
      [] key = "up" /\ d.choice # 0 -> Highlighted(d, d.choice - 1)
      [] key = "down" /\ d.choice = MaxChoice(d) - 1 ->
             IF d.scroll + d.choice >= d.n - 1 THEN d ELSE Scrolled(d, 1)
      [] key = "down" /\ d.choice # MaxChoice(d) - 1 -> Highlighted(d, d.choice + 1)
      [] OTHER -> Highlighted(d, HotItem(d, key))

ListKeys == {"up", "down", "left", "tab", "h", "s", "enter", "x", KEY_ESC, "sequence"} \cup {Hot[k] : k \in DOMAIN Hot}

dialog_checklist(key) ==
    /\ dlg.kind = "list" /\ dlg.out = Open
    /\ LET moves == key \in {"up", "down"} \/ HotItem(dlg, key) < MaxChoice(dlg) IN
       dlg' = CASE moves -> ListMoved(dlg, key)
                [] ~moves /\ key \in {"left", "tab"} -> Turned(dlg, key, 2)
                [] ~moves /\ key \in {"h", "s", "enter"} ->
                       [dlg EXCEPT !.chosen = dlg.scroll + dlg.choice, !.out = IF key = "h" THEN 1 ELSE dlg.button]
                [] ~moves /\ key \in {"x", KEY_ESC} -> [dlg EXCEPT !.out = Escaped]
                [] OTHER -> dlg

ResizeList ==
    /\ dlg.kind = "list" /\ dlg.out = Open /\ dlg.resizes < MaxResizes
    /\ dlg' = [OpenList(dlg) EXCEPT !.resizes = @ + 1]

(***************************************************************************)
(* dialog_inputbox.  instr is the characters with a NUL behind them, cells *)
(* what the field shows; before and after are what a user means to have on *)
(* either side of the cursor.                                              *)
(***************************************************************************)
strlen(instr) == Min({i \in DOMAIN instr : instr[i] = Nul})

\* Writes the visible characters and, where they end, one space.
DrawField(d) ==
    LET at(i) == d.instr[d.show_x + i]
        ends == Min({i \in 0..BoxWidth - 1 : at(i) = Nul} \cup {BoxWidth})
    IN [d EXCEPT !.cells = [i \in DOMAIN @ |-> IF i < ends THEN at(i) ELSE IF i = ends THEN "space" ELSE @[i]]]

OpenInput(d) ==
    LET len == strlen(d.instr)
        show_x == IF len >= BoxWidth THEN (len - BoxWidth) + 1 ELSE 0
        drawn == Min({len, BoxWidth - 1})
    IN [d EXCEPT !.len = len, !.pos = len, !.show_x = show_x, !.input_x = len - show_x, !.shown = 0,
                 !.cells = [i \in 0..BoxWidth - 1 |-> IF i < drawn THEN d.instr[show_x + i] ELSE "space"],
                 !.before = d.before \o d.after, !.after = <<>>]

NewInput(init) ==
    OpenInput([kind |-> "input", instr |-> [i \in 0..MAX_LEN |-> IF i < Len(init) THEN init[i + 1] ELSE Nul], len |-> 0,
               pos |-> 0, show_x |-> 0, input_x |-> 0, cells |-> <<>>, button |-> -1, shown |-> 0, out |-> Open,
               resizes |-> 0, before |-> init, after |-> <<>>])

Backspace(d) ==
    LET x == IF d.input_x = 0 THEN [d EXCEPT !.show_x = @ - 1] ELSE [d EXCEPT !.input_x = @ - 1]
        instr == [i \in DOMAIN d.instr |-> IF i = d.len - 1 THEN Nul
                                           ELSE IF i \in d.pos - 1..d.len - 1 THEN d.instr[i + 1] ELSE d.instr[i]]
    IN IF d.pos = 0 THEN d
       ELSE DrawField([x EXCEPT !.instr = instr, !.pos = @ - 1, !.len = @ - 1,
                                !.before = SubSeq(@, 1, Len(@) - 1)])

CursorLeft(d) ==
    LET m == [d EXCEPT !.pos = @ - 1, !.before = SubSeq(@, 1, Len(@) - 1), !.after = <<d.before[Len(d.before)]>> \o @]
    IN IF d.pos = 0 THEN d
       ELSE IF d.input_x > 0 THEN [m EXCEPT !.input_x = @ - 1] ELSE DrawField([m EXCEPT !.show_x = @ - 1])

CursorRight(d) ==
    LET m == [d EXCEPT !.pos = @ + 1, !.before = Append(@, Head(d.after)), !.after = Tail(@)]
    IN IF d.pos >= d.len THEN d
       ELSE IF d.input_x < BoxWidth - 1 THEN [m EXCEPT !.input_x = @ + 1] ELSE DrawField([m EXCEPT !.show_x = @ + 1])

Insert(d, c) ==
    LET x == IF d.input_x = BoxWidth - 1 THEN [d EXCEPT !.show_x = @ + 1] ELSE [d EXCEPT !.input_x = @ + 1]
        instr == [i \in DOMAIN d.instr |-> IF i = d.pos THEN c ELSE IF i = d.len + 1 THEN Nul
                                           ELSE IF i \in d.pos + 1..d.len THEN d.instr[i - 1] ELSE d.instr[i]]
    IN IF d.len >= MAX_LEN THEN d
       ELSE DrawField([x EXCEPT !.instr = instr, !.pos = @ + 1, !.len = @ + 1, !.before = Append(@, c)])

Edited(d, key) ==
    CASE key = "backspace" -> Backspace(d)
      [] key = "left" -> CursorLeft(d)
      [] key = "right" -> CursorRight(d)
      [] OTHER -> Insert(d, key)

\* The field (-1), Ok (0) and Help (1) in a ring.
Refocused(d, key) ==
    LET b == ((d.button + (IF key \in {"up", "left"} THEN 0 ELSE 2)) % 3) - 1
    IN [d EXCEPT !.button = b, !.shown = Max({b, 0})]

InputKeys == Printable \cup {"backspace", "left", "right", "up", "down", "tab", "enter", KEY_ESC, "sequence"}

dialog_inputbox(key) ==
    /\ dlg.kind = "input" /\ dlg.out = Open
    /\ LET edits == dlg.button = -1 /\ key \in Printable \cup {"backspace", "left", "right"} IN
       dlg' = CASE edits -> Edited(dlg, key)
                [] ~edits /\ key \in {"o", "h"} -> [dlg EXCEPT !.out = IF key = "o" THEN 0 ELSE 1]
                [] ~edits /\ key \in {"up", "left", "tab", "down", "right"} -> Refocused(dlg, key)
                [] ~edits /\ key \in {"space", "enter"} -> [dlg EXCEPT !.out = Max({dlg.button, 0})]
                [] ~edits /\ key \in {"x", KEY_ESC} -> [dlg EXCEPT !.out = Escaped]
                [] OTHER -> dlg

ResizeInput ==
    /\ dlg.kind = "input" /\ dlg.out = Open /\ dlg.resizes < MaxResizes
    /\ dlg' = [OpenInput(dlg) EXCEPT !.resizes = @ + 1]

(***************************************************************************)
(* dialog_textbox.  page is a place in the text: between keys it is behind *)
(* what the window shows, so that every key first goes back.  A row is     *)
(* where its line starts and how far it is scrolled to the left, Blank     *)
(* behind the end.  top is the line a reader expects to see first.         *)
(***************************************************************************)
CharAt(d, i) == IF i < Len(d.text) THEN d.text[i + 1] ELSE Nul
Breaks(d) == {i \in 0..Len(d.text) - 1 : CharAt(d, i) = "nl"}
LineOf(d, i) == Cardinality({k \in Breaks(d) : k < i})
Lines(d) == Cardinality(Breaks(d)) + 1       \* the empty line behind the last break is one
LastTop(d) == Max({Lines(d) - d.boxh, 0})

get_line(d) ==
    LET ahead == {i \in Breaks(d) : i >= d.page}
    IN IF ahead = {} THEN [d EXCEPT !.page = Len(d.text), !.end_reached = TRUE]
       ELSE [d EXCEPT !.page = Min(ahead) + 1, !.end_reached = FALSE]

get_lines(d, n) ==
    LET Got[i \in 0..n] == IF i = 0 THEN d ELSE get_line(Got[i - 1])
    IN Got[n]

back_lines(d, n) ==
    LET Back[i \in 0..n] ==
            IF i = 0 THEN [d EXCEPT !.begin_reached = FALSE]
            ELSE LET p == Back[i - 1]
                     behind == {k \in Breaks(p) : k < p.page - 1}
                 IN IF p.begin_reached THEN p
                    ELSE IF CharAt(p, p.page) = Nul /\ p.end_reached THEN [p EXCEPT !.end_reached = FALSE]
                    ELSE IF behind = {} THEN [p EXCEPT !.page = 0, !.begin_reached = TRUE]
                    ELSE [p EXCEPT !.page = Max(behind) + 1]
    IN Back[n]

print_page(d) ==
    LET u == IF d.update_text THEN back_lines(get_lines(d, d.boxh), d.boxh) ELSE d
        Done[i \in 0..d.boxh] ==
            IF i = 0 THEN [u EXCEPT !.page_length = 0, !.end_reached = FALSE, !.rows = <<>>]
            ELSE LET p == Done[i - 1]
                     row == IF p.page < Len(p.text) THEN <<p.page, p.hscroll>> ELSE Blank
                 IN [get_line(p) EXCEPT !.page_length = IF p.end_reached THEN @ ELSE @ + 1, !.rows = Append(@, row)]
        end == Done[d.boxh]
    IN [end EXCEPT !.top = IF d.update_text THEN Min({@, LastTop(d)}) ELSE @]

NewText(text, vscroll, hscroll, boxh, update) ==
    LET d == [kind |-> "text", text |-> text, page |-> 0, begin_reached |-> vscroll = 0, end_reached |-> FALSE,
              page_length |-> 0, hscroll |-> hscroll, boxh |-> boxh, update_text |-> update, rows |-> <<>>, out |-> Open,
              vscroll |-> 0, resizes |-> 0, top |-> vscroll]
    IN print_page(get_lines(d, vscroll))

\* A key that may move, and where a reader expects the top then.
Paged(d, key) ==
    CASE key = "home" -> [d EXCEPT !.begin_reached = TRUE, !.page = 0, !.top = 0]
      [] key = "end" -> back_lines([d EXCEPT !.end_reached = TRUE, !.page = Len(d.text), !.top = LastTop(d)], d.boxh)
      [] key = "up" -> back_lines([d EXCEPT !.top = Max({@ - 1, 0})], d.page_length + 1)
      [] key = "ppage" -> back_lines([d EXCEPT !.top = Max({@ - d.boxh, 0})], d.page_length + d.boxh)
      [] key = "down" -> back_lines([d EXCEPT !.top = @ + 1], d.page_length - 1)
      [] key = "npage" -> [d EXCEPT !.begin_reached = FALSE, !.top = @ + d.boxh]
      [] OTHER -> back_lines([d EXCEPT !.hscroll = CASE key = "0" -> 0 [] key = "left" -> @ - 1 [] key = "right" -> @ + 1],
                             d.page_length)

Ignored(d, key) ==
    \/ key \in {"home", "up", "ppage"} /\ d.begin_reached
    \/ key \in {"down", "npage"} /\ d.end_reached
    \/ key \in {"0", "left"} /\ d.hscroll <= 0
    \/ key = "right" /\ d.hscroll >= MAX_LEN

TextKeys == {"home", "end", "up", "ppage", "down", "npage", "0", "left", "right", "exit", "jump", KEY_ESC, "sequence"}

TextResult == [exit |-> 0, jump |-> 1, esc |-> Escaped]

\* jump: one of the keys search_conf gave, the one caller that gives
\* update_text and gets the position back.
dialog_textbox(key) ==
    /\ dlg.kind = "text" /\ dlg.out = Open
    /\ LET left == back_lines(dlg, dlg.page_length) IN
       dlg' = CASE key \in {"exit", KEY_ESC, "jump"} /\ dlg.update_text ->
                       [left EXCEPT !.out = TextResult[key], !.vscroll = LineOf(left, left.page)]
                [] key \in {"exit", KEY_ESC} /\ ~dlg.update_text -> [dlg EXCEPT !.out = TextResult[key]]
                [] key \notin {"exit", KEY_ESC, "jump", "sequence"} /\ ~Ignored(dlg, key) -> print_page(Paged(dlg, key))
                [] OTHER -> dlg

\* It goes back by the height of the dialog, which has four lines more.
ResizeText(h) ==
    /\ dlg.kind = "text" /\ dlg.out = Open /\ dlg.resizes < MaxResizes
    /\ LET b == back_lines(dlg, dlg.boxh + 4) IN
       dlg' = print_page([b EXCEPT !.boxh = h, !.resizes = @ + 1, !.top = LineOf(b, b.page)])

\* search_conf shows its results again, computed anew, where they were left.
ReopenText(text) ==
    /\ dlg.kind = "text" /\ dlg.out = TextResult["jump"]
    /\ dlg' = NewText(text, dlg.vscroll, dlg.hscroll, dlg.boxh, TRUE)

(***************************************************************************)
(* Any of the dialogs.                                                     *)
(***************************************************************************)
NewMenus == UNION {{NewMenu(n, s, 0, h, Nothing) : s \in -1..n - 1, h \in Heights} : n \in Counts}
NewLists == UNION {{NewList(n, t, h) : t \in 0..n - 1, h \in Heights} : n \in Counts}
NewInputs == {NewInput(i) : i \in Inits}
NewTexts == {NewText(t, 0, 0, h, u) : t \in Texts, h \in Heights, u \in BOOLEAN}
dlgInit == NewMenus \cup NewLists \cup NewInputs \cup NewTexts

dlgNext ==
    \/ \E key \in MenuKeys : dialog_menu(key)
    \/ \E key \in ListKeys : dialog_checklist(key)
    \/ \E key \in InputKeys : dialog_inputbox(key)
    \/ \E key \in TextKeys : dialog_textbox(key)
    \/ \E h \in Resized(IF dlg.kind = "menu" THEN dlg.height ELSE 0) : ResizeMenu(h)
    \/ ResizeList \/ ResizeInput
    \/ \E h \in Heights : ResizeText(h)
    \/ \E n \in Counts : \E selected \in -1..n - 1 : Reopen(n, selected)
    \/ \E text \in Texts : ReopenText(text)

\* The rows of a list are its items from scroll on, in order, with the chosen
\* one and no other highlighted, however it was scrolled there piece by piece.
RowsShown ==
    LET max == MaxChoice(dlg) IN
    /\ dlg.choice \in 0..max - 1 /\ dlg.scroll \in 0..dlg.n - max
    /\ dlg.rows = Window(dlg.height, max, dlg.scroll, dlg.choice)
    /\ dlg.resizes = 0 => dlg.shown = dlg.button

\* A menu opened again at the item it was left at shows it where it was.
MenuKept == dlg.last.n = dlg.n /\ dlg.last.item = dlg.selected => dlg.scroll = dlg.last.scroll

\* The characters are those typed and not deleted, the cursor is between
\* those before and those after it, and the field shows the part around it.
InputShown ==
    LET typed == dlg.before \o dlg.after IN
    /\ dlg.len = Len(typed) /\ dlg.len = strlen(dlg.instr) /\ \A i \in 1..dlg.len : dlg.instr[i - 1] = typed[i]
    /\ dlg.pos = Len(dlg.before) /\ dlg.show_x + dlg.input_x = dlg.pos /\ dlg.input_x \in 0..BoxWidth - 1
    /\ dlg.cells = [i \in 0..BoxWidth - 1 |-> IF dlg.show_x + i < dlg.len THEN typed[dlg.show_x + i + 1] ELSE "space"]
    /\ dlg.resizes = 0 => dlg.shown = Max({dlg.button, 0})

\* The rows are the lines from the one a reader expects at the top, in
\* order; the flags say whether the begin and the end are shown, and the
\* line remembered is the top one.
TextShown ==
    LET start(l) == IF l = 0 THEN 0 ELSE CHOOSE i \in 1..Len(dlg.text) : CharAt(dlg, i - 1) = "nl" /\ LineOf(dlg, i) = l IN
    IF dlg.out # Open THEN dlg.update_text => dlg.vscroll = dlg.top
    ELSE /\ dlg.rows = [r \in 1..dlg.boxh |-> LET l == dlg.top + r - 1 IN
                            IF l < Lines(dlg) - 1 THEN <<start(l), dlg.hscroll>> ELSE Blank]
         /\ dlg.begin_reached = (dlg.top = 0)
         /\ dlg.end_reached = (dlg.top + dlg.boxh >= Lines(dlg))

\* Whatever keys are pressed, each dialog shows what it would act on.
DialogsFaithful ==
    CASE dlg.kind = "menu" -> RowsShown /\ MenuKept
      [] dlg.kind = "list" -> RowsShown /\ (dlg.chosen # -1 => dlg.rows[dlg.choice] = <<dlg.chosen, 1>>)
      [] dlg.kind = "left" -> dlg.lit = {dlg.chosen}
      [] dlg.kind = "input" -> InputShown
      [] dlg.kind = "text" -> TextShown

dlgSpec == dlg \in dlgInit /\ [][dlgNext]_dlg
=============================================================================

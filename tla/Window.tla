------------------------------- MODULE Window -------------------------------
(***************************************************************************)
(* The window of gui.c, the dialogs over it and the screen of a disk in    *)
(* text mode (pm_disk_screen): what every key, move and click does to what *)
(* is selected, to the canvas that is drawn on and to the display, which   *)
(* is brought up to date in parts. Which dialogs an action asks for and    *)
(* what it does to the table is left open here (see DiskSession); of a     *)
(* wipe only its box is modelled (see WipeScreen).                         *)
(***************************************************************************)
EXTENDS Screen, FiniteSets

CONSTANT
  Setups      \* the machines: text mode or not, with a mouse or not and where
              \* it may go, the lists of disks and the tables that are found,
              \* the dialogs asked for, wipes or not, and what is typed

VARIABLES
  setup,
  win,        \* the window, as Screen describes it
  canvas,     \* what is drawn
  display,    \* what is seen, with the arrow of the pointer
  px,         \* where the pointer is
  dlg,        \* the dialog that waits for an answer
  wipe,       \* the percentage shown of the wipe under way, Begun before, -1 without one
  stopSet,    \* a Stop button was drawn once, in this wipe or an earlier one
  took        \* what the last step took, when it was a click (history)

box  == <<wipe, stopSet>>
vars == <<setup, win, canvas, display, px, dlg, box, took>>

-----------------------------------------------------------------------------
(* What a machine and a user may bring                                     *)

DiskRec == [id: Nat, height: Nat \ {0}, noted: BOOLEAN]
RowRec  == [id: Nat, start: Nat, size: Nat, ext: BOOLEAN]
Loaded  == [loaded: BOOLEAN, rows: Seq(RowRec), notes: Nat]
Kinds   == {"message", "yesno", "input", "menu"}
Asked   == [kind: Kinds, items: Nat, sel: Nat \ {0}, buf: Seq(0..255)]

\* A screen has room for a row above the notes, of which there are eight at
\* most (ptable.h:51); the pointer is drawn in the window only and stays on the
\* screen; what a field proposes are characters that fit it; an item is selected.
ASSUME SetupsAssumption ==
  \A s \in Setups :
    /\ {s.text, s.pointer, s.wipes} \subseteq BOOLEAN /\ (s.text => ~s.pointer)
    /\ s.places \subseteq Cells /\ s.chars \subseteq CodePoints
    /\ s.lists \subseteq Seq(DiskRec) /\ s.tables \subseteq Loaded
    /\ \A t \in s.tables : t.notes < IF s.text THEN TextRows - 1 ELSE BodyCells
    /\ s.asks \subseteq Asked
    /\ \A a \in s.asks : WholeChars(a.buf) /\ Len(a.buf) < FieldBytes /\ (a.kind = "menu" => a.sel <= a.items)

NoClick == <<"no click", 0>>
Nothing == <<"nothing", 0>>
NoDialog == [kind |-> "none", items |-> 0, sel |-> 1, top |-> 1, field |-> Proposed(<<>>),
             then |-> "none", to |-> 0, saved |-> <<>>]

Dialog(ask, then) ==
  [NoDialog EXCEPT !.kind = ask.kind, !.items = ask.items, !.sel = ask.sel,
                   !.field = Proposed(ask.buf), !.then = then]

YesNo(then, to) == [NoDialog EXCEPT !.kind = "yesno", !.then = then, !.to = to]

Closed == dlg.kind = "closed"          \* partmgr has ended
InWindow == dlg.kind = "none" /\ wipe = -1
Begun    == -2                         \* a wipe whose box is not drawn yet
Starting == dlg.kind = "none" /\ wipe = Begun
Wiping   == dlg.kind = "none" /\ wipe >= 0
InDialog(kind) == dlg.kind = kind

-----------------------------------------------------------------------------
(* Drawing                                                                 *)

ToShow(w)  == IF setup.text THEN TextScrolled(w) ELSE Scrolled(w)
Drawing(w) == IF setup.text THEN TextPicture(w) ELSE Picture(w)

\* The whole canvas is shown, and the arrow over it.
Show(cv) == canvas' = cv /\ display' = Overlaid(cv, px', setup.pointer)

\* redraw and draw: the state w is what the screen shows from now on.
Redraw(w) == win' = ToShow(w) /\ Show(Drawing(ToShow(w)))

\* The main loop draws and waits again.
Back(w) == Redraw(w) /\ dlg' = NoDialog /\ wipe' = -1 /\ UNCHANGED stopSet

\* A dialog is opened over the canvas cv and the first items of a menu shown.
Open(cv, d) ==
  LET e == [d EXCEPT !.top = Scroll(d.sel, d.top, MenuHeight(d)), !.saved = IF setup.text THEN <<>> ELSE cv]
  IN  dlg' = e /\ Show(Boxed(cv, e, setup.text))

\* Closing a dialog of the window brings back what it covered; the text
\* screen is left as it is.
Uncovered == IF setup.text THEN canvas ELSE dlg.saved

-----------------------------------------------------------------------------
(* Changes of the window                                                   *)

NoTable == [loaded |-> FALSE, rows |-> <<>>, notes |-> 0]

Load(w, t) ==
  [w EXCEPT !.loaded = t.loaded, !.rows = t.rows, !.notes = t.notes, !.sel = 1, !.top = 1, !.changed = FALSE]

\* An action changed the table or read it again: the rows are new, and the
\* selection stays within them (pm_view_rows).
Changed(w, t, sel, changed) ==
  [w EXCEPT !.loaded = t.loaded, !.rows = t.rows, !.notes = t.notes, !.changed = changed, !.msg = 1,
            !.sel = IF sel <= Len(t.rows) THEN sel ELSE AtLeastOne(Len(t.rows))]

OpenDisk(w, i) == \E t \in setup.tables : Back(Load([w EXCEPT !.dsel = i], t))

\* The disk with the name of the selected one, or the first that may be changed.
Found(list, w) ==
  LET same == {i \in 1..Len(list) : w.disks # <<>> /\ list[i].id = w.disks[w.dsel].id}
      free == {i \in 1..Len(list) : ~list[i].noted}
  IN  IF same # {} THEN CHOOSE i \in same : \A j \in same : j <= i
      ELSE IF free # {} THEN CHOOSE i \in free : \A j \in free : i <= j
      ELSE 1

Scan(w) ==
  \E list \in setup.lists :
    LET found == [w EXCEPT !.disks = list, !.dsel = Found(list, w), !.msg = 1]
    IN  IF list = <<>> THEN Back(Load(found, NoTable))
        ELSE OpenDisk(found, Found(list, w))

Leave(w, then, to) ==
  CASE then = "quit"   -> dlg' = [NoDialog EXCEPT !.kind = "closed"] /\ UNCHANGED <<win, canvas, display, box>>
    [] then = "rescan" -> Scan(w)
    [] then = "disk"   -> OpenDisk(w, to)

\* Leaving a table with changes is asked for first (may_leave): the window is
\* drawn before the question, the text screen is not.
MayLeave(w, then, to) ==
  IF ~w.changed THEN Leave(w, then, to)
  ELSE /\ win' = IF setup.text THEN w ELSE ToShow(w)
       /\ Open(IF setup.text THEN canvas ELSE Drawing(ToShow(w)), YesNo(then, to))
       /\ UNCHANGED box

ChangeDisk(w, i) ==
  IF i \notin 1..Len(w.disks) \/ i = w.dsel THEN Back(w) ELSE MayLeave(w, "disk", i)

\* The next thing an action does, the canvas being cv: it ends and the window
\* is drawn again, asks (having drawn the window before or not), or wipes.
Continue(w, cv) ==
  \/ \E t \in setup.tables, sel \in {1, w.sel}, changed \in BOOLEAN : Back(Changed(w, t, sel, changed))
  \/ Back([w EXCEPT !.msg = 1])
  \/ \E ask \in setup.asks :
       \/ win' = w /\ Open(cv, Dialog(ask, "action")) /\ UNCHANGED box
       \/ win' = ToShow(w) /\ Open(Drawing(ToShow(w)), Dialog(ask, "action")) /\ UNCHANGED box

\* A wipe begins once it is confirmed: the window is drawn, its box not yet.
StartWipe(w) ==
  /\ setup.wipes
  /\ Redraw(w) /\ dlg' = NoDialog /\ wipe' = Begun /\ UNCHANGED stopSet

\* A key that pm_disk_action knows: there must be a disk that could be read.
Action(w, cv) == IF w.loaded THEN Continue(w, cv) ELSE Back(w)

-----------------------------------------------------------------------------
(* Keys in the window                                                      *)

Cleared(w) == [w EXCEPT !.msg = 0]

Count(w)   == IF w.focus = "disks" THEN Len(w.disks) ELSE Len(w.rows)
Current(w) == IF w.focus = "disks" THEN w.dsel ELSE w.sel

MoveTo(w, i) ==
  IF i \notin 1..Count(w) THEN Back(w)
  ELSE IF w.focus = "disks" THEN ChangeDisk(w, i)
  ELSE Back([w EXCEPT !.sel = i])

Key(w, k, cv) ==
  CASE k = "esc"  -> MayLeave(w, "quit", 0)
    [] k = "tab"  -> Back([w EXCEPT !.focus = IF w.focus = "disks" THEN "rows" ELSE "disks"])
    [] k = "f5"   -> MayLeave(w, "rescan", 0)
    [] k = "pgup" -> ChangeDisk(w, w.dsel - 1)
    [] k = "pgdn" -> ChangeDisk(w, w.dsel + 1)
    [] k = "up"   -> MoveTo(w, Current(w) - 1)
    [] k = "down" -> MoveTo(w, Current(w) + 1)
    [] k = "home" -> MoveTo(w, 1)
    [] k = "end"  -> MoveTo(w, Count(w))
    [] OTHER      -> Action(w, cv)

\* The text screen knows no other list and no other disk.
Keys == IF setup.text THEN {"esc", "up", "down", "home", "end", "act"}
        ELSE {"esc", "tab", "f5", "pgup", "pgdn", "up", "down", "home", "end", "act"}

PressKey == InWindow /\ took' = NoClick /\ UNCHANGED <<setup, px>> /\ \E k \in Keys : Key(Cleared(win), k, canvas)

ButtonKey(b) == CASE b = Quit -> "esc" [] b = Rescan -> "f5" [] OTHER -> "act"

-----------------------------------------------------------------------------
(* The mouse                                                               *)

\* pointer_hide at the old place, pointer_show at the new one.
MovePointer(x) ==
  display' = PointerShown(Shown(display, canvas, Arrow(px)), canvas, x) /\ canvas' = canvas

\* Moving highlights the button under the pointer in the window only.
MoveInWindow ==
  /\ setup.pointer /\ InWindow
  /\ \E x \in setup.places \ {px} :
       /\ px' = x
       /\ IF ButtonAt(x) = win.hover THEN MovePointer(x) /\ UNCHANGED win
                                     ELSE Redraw([win EXCEPT !.hover = ButtonAt(x)])
  /\ took' = NoClick
  /\ UNCHANGED <<setup, dlg, box>>

MoveElsewhere ==
  /\ setup.pointer /\ ~InWindow /\ ~Starting /\ ~Closed
  /\ \E x \in setup.places \ {px} : px' = x /\ MovePointer(x)
  /\ took' = NoClick
  /\ UNCHANGED <<setup, win, dlg, box>>

DiskClicked(w, x) ==
  {i \in w.dtop..Len(w.disks) : x \in Part(DiskTop(w, w.dtop, i), w.disks[i].height)}

\* In the bar the first row at the place counts, the extended one aside.
SpanClicked(w, x) ==
  LET here == {i \in 1..Len(w.rows) : ~w.rows[i].ext /\ Covers(w, i, x)}
  IN  {i \in here : \A j \in here : i <= j}

\* Fault: the row is counted from the first row of the table.
RowClickedUnscrolled(w, x) == {i \in {1 + (x - BodyTop)} : x - BodyTop < VisibleRows(w) /\ i <= Len(w.rows)}

RowClicked(w, x) ==
  {i \in {w.top + (x - BodyTop)} : x - BodyTop < VisibleRows(w) /\ i <= Len(w.rows)}

SelectRow(w, rows) ==
  IF rows = {} THEN Back(w) /\ took' = Nothing
  ELSE \E i \in rows :
         /\ Back([w EXCEPT !.sel = i, !.focus = "rows", !.msg = 0])
         /\ took' = <<"row", w.rows[i].id>>

ClickAt(w, x) ==
  IF x \in Buttons
    THEN /\ Key(Cleared(w), ButtonKey(x), IF w = win THEN canvas ELSE Drawing(ToShow(w)))
         /\ took' = <<"button", x>>
  ELSE IF x \in ListArea THEN
    IF DiskClicked(w, x) = {} THEN Back(w) /\ took' = Nothing
    ELSE \E i \in DiskClicked(w, x) :
           /\ ChangeDisk([w EXCEPT !.focus = "disks", !.msg = 0], i)
           /\ took' = <<"disk", w.disks[i].id>>
  ELSE IF x \in BarArea THEN SelectRow(w, SpanClicked(w, x))
  ELSE IF x = Message THEN Back(w) /\ took' = Nothing
  ELSE SelectRow(w, RowClicked(w, x))

\* A click comes with the move to its place, which highlights first.
ClickInWindow ==
  /\ setup.pointer /\ InWindow
  /\ \E x \in setup.places :
       /\ px' = x
       /\ ClickAt(IF x = px THEN win ELSE [win EXCEPT !.hover = ButtonAt(x)], x)
  /\ UNCHANGED setup

-----------------------------------------------------------------------------
(* Dialogs                                                                 *)

\* Drawing the box of a wipe sets the place of Stop, which then stays
\* (wipe_stop_btn). The text screen has no Stop.
StopDrawn == stopSet' = (stopSet \/ ~setup.text)

\* The window is seen again, and the action goes on from there; to leave goes
\* on with what was asked. A confirmed question may have been that of a wipe.
Answered(yes) ==
  CASE dlg.then = "stop" ->
         IF yes THEN Back([win EXCEPT !.msg = 1])
         ELSE LET percent == IF wipe = Begun THEN 0 ELSE wipe
              IN  /\ dlg' = NoDialog /\ wipe' = percent /\ UNCHANGED win
                  /\ Show(WipeDrawn(Uncovered, percent)) /\ StopDrawn
    [] dlg.then = "action" ->
         \/ Continue(win, Uncovered)
         \/ dlg.kind = "yesno" /\ yes /\ StartWipe(win)
    [] OTHER -> IF yes THEN Leave(win, dlg.then, dlg.to) ELSE Back(win)

\* Enter, Y and N, Esc, or any key of a message.
AnswerKey ==
  /\ dlg.kind \in Kinds
  /\ took' = NoClick /\ UNCHANGED <<setup, px>>
  /\ \E yes \in BOOLEAN : Answered(yes)

\* Fault: the arrow is not drawn again over the list or the field.
ExtraShownOver(d) ==
  LET cv == ExtraDrawn(canvas, d) IN canvas' = cv /\ display' = Shown(display, cv, ExtraArea(d))

\* The list of a menu is drawn again after every key, then the arrow.
ExtraShown(d) ==
  LET cv == ExtraDrawn(canvas, d)
      S  == ExtraArea(d)
  IN  canvas' = cv /\ display' = IF setup.pointer THEN PointerShown(Shown(display, cv, S), cv, px)
                                                  ELSE Shown(display, cv, S)

Within(i, n) == IF i < 1 THEN 1 ELSE IF i > n THEN n ELSE i

MenuKey ==
  /\ InDialog("menu")
  /\ \E to \in {dlg.sel - 1, dlg.sel + 1, dlg.sel - MenuHeight(dlg), dlg.sel + MenuHeight(dlg), 1, dlg.items} :
       LET sel == Within(to, dlg.items)
           d   == [dlg EXCEPT !.sel = sel, !.top = Scroll(sel, dlg.top, MenuHeight(dlg))]
       IN  dlg' = d /\ ExtraShown(d)
  /\ took' = NoClick
  /\ UNCHANGED <<setup, win, px, box>>

FieldInput(f) ==
  /\ dlg' = [dlg EXCEPT !.field = f]
  /\ ExtraShown([dlg EXCEPT !.field = f])
  /\ took' = NoClick
  /\ UNCHANGED <<setup, win, px, box>>

TypeChar == InDialog("input") /\ \E c \in setup.chars : FieldInput(Insert(dlg.field, c))

EditField ==
  InDialog("input") /\ \E k \in FieldKeys : TakesKey(dlg.field, k) /\ FieldInput(FieldKey(dlg.field, k))

\* A click in a dialog: a button answers, an item of a menu is chosen, and
\* anything else only moves the pointer.
ClickInDialog ==
  /\ setup.pointer /\ dlg.kind \in Kinds
  /\ \E x \in setup.places :
       /\ px' = x
       /\ CASE ButtonOf(dlg, x) \in 1..ButtonCount(dlg) ->
                 Answered(ButtonOf(dlg, x) = 1) /\ took' = <<"dbutton", ButtonOf(dlg, x)>>
            [] InDialog("menu") /\ x \in ExtraArea(dlg) ->
                 Answered(TRUE) /\ took' = <<"item", dlg.top + (x - BoxTop(dlg) - 1)>>
            [] OTHER ->
                 /\ IF x = px THEN UNCHANGED <<canvas, display>> ELSE MovePointer(x)
                 /\ took' = Nothing /\ UNCHANGED <<win, dlg, box>>
  /\ UNCHANGED setup

-----------------------------------------------------------------------------
(* The box of a wipe                                                       *)

\* The box is drawn over what is there and shown alone, then the arrow, which
\* is at x.
BoxShown(seen, percent, x) ==
  LET cv == WipeDrawn(canvas, percent)
  IN  /\ wipe' = percent /\ canvas' = cv
      /\ display' = IF setup.pointer THEN PointerShown(Shown(seen, cv, WipeArea), cv, x)
                                     ELSE Shown(seen, cv, WipeArea)

\* The first progress call looks for keys and the pointer before it draws the box.
WipeBegins ==
  /\ Starting
  /\ \E x \in IF setup.pointer THEN setup.places \cup {px} ELSE {px} :
       /\ px' = x
       /\ BoxShown(IF x = px THEN display ELSE PointerShown(Shown(display, canvas, Arrow(px)), canvas, x), 0, x)
  /\ StopDrawn
  /\ took' = NoClick
  /\ UNCHANGED <<setup, win, dlg>>

WipeProgress ==
  /\ Wiping
  /\ \E p \in {p \in {50, 100} : p > wipe} : BoxShown(display, p, px)
  /\ took' = NoClick
  /\ UNCHANGED <<setup, win, px, dlg, stopSet>>

\* It is done, the disk refused a block, or pt_wipe refused to begin.
WipeEnds ==
  /\ Wiping \/ Starting
  /\ took' = NoClick /\ UNCHANGED <<setup, px>>
  /\ Back([win EXCEPT !.msg = 1])

\* The first look takes a press at the place Stop had in an earlier wipe; it
\* sees none when the wipe was confirmed with a click, whose button was down.
WipeStopped ==
  /\ Wiping \/ Starting
  /\ \/ took' = NoClick /\ UNCHANGED px                                 \* Esc
     \/ /\ setup.pointer /\ (Starting => stopSet /\ took = NoClick)
        /\ px' = StopCell /\ took' = <<"stop", 0>>                       \* a click on Stop
  /\ Open(canvas, YesNo("stop", 0))
  /\ UNCHANGED <<setup, win, box>>

-----------------------------------------------------------------------------
Init ==
  /\ setup \in Setups
  /\ px = Message \div 2
  /\ \E list \in setup.lists, t \in setup.tables :
       win = LET w == [disks |-> list, dsel |-> 1, dtop |-> 1, loaded |-> FALSE, rows |-> <<>>, notes |-> 0, sel |-> 1,
                       top |-> 1, focus |-> "rows", changed |-> FALSE, msg |-> 0, hover |-> -1]
             IN  ToShow(IF list = <<>> THEN w
                        ELSE Load([w EXCEPT !.dsel = Found(list, [w EXCEPT !.disks = <<>>])], t))
  /\ canvas = Drawing(win)
  /\ display = Overlaid(canvas, px, setup.pointer)
  /\ dlg = NoDialog /\ wipe = -1 /\ stopSet = FALSE /\ took = NoClick

Next ==
  \/ PressKey \/ MoveInWindow \/ MoveElsewhere \/ ClickInWindow
  \/ AnswerKey \/ MenuKey \/ TypeChar \/ EditField \/ ClickInDialog
  \/ WipeBegins \/ WipeProgress \/ WipeEnds \/ WipeStopped

Spec == Init /\ [][Next]_vars
-----------------------------------------------------------------------------
(* Properties                                                              *)

\* Whatever was drawn in parts, the user sees the canvas with the arrow at the
\* pointer and nowhere else (pointer_show, gui.c:562-581), and the canvas is the
\* window as it now is, or the dialog as it now is over what it covers, which is
\* no other dialog: a dialog is closed without a trace.
ScreenTrue ==
  /\ ~Closed => display = Overlaid(canvas, px, setup.pointer)
  /\ InWindow \/ Starting => canvas = Drawing(win)
  /\ Wiping /\ ~setup.text => canvas = WipeDrawn(Drawing(win), wipe)
  /\ dlg.kind \in Kinds =>
       /\ \A c \in BoxArea(dlg) : canvas[c] = BoxCell(dlg, c)
       /\ ~setup.text => \A c \in Cells \ BoxArea(dlg) :
            canvas[c] = Dimmed(dlg.saved[c]) /\ dlg.saved[c].of \notin {"box", "item", "field", "dbutton"}

Named(x) == IF x.of \in {"row", "disk", "button", "dbutton", "item", "stop"} /\ ~x.dim
              THEN <<x.of, x.n>> ELSE Nothing

\* A click takes what is seen under the tip of the pointer (click, gui.c:786),
\* also in lists that are scrolled or whose items have different heights and
\* after anything that moved them, and nothing where there is nothing to take.
\* In the bar it takes a partition only where one is seen, which may be another
\* one where the least width of small partitions makes them overlap. There is one
\* exception: when a wipe begins, the place Stop had in an earlier wipe takes a
\* press before Stop is drawn (diskview.c:470-477, gui.c:1209); all that does is
\* ask whether to stop.
ClickTakesShown ==
  [][took' # NoClick =>
       IF Starting THEN stopSet /\ px' = StopCell /\ wipe' = wipe /\ dlg'.then = "stop"
       ELSE IF InWindow /\ px' \in BarArea THEN took' = Nothing \/ canvas[px'].of = "span"
       ELSE took' = Named(canvas[px'])]_vars

\* The selected disk, row and item of a menu are on the screen whenever it
\* waits: the disk with all its lines, unless it is the first one shown.
SelectedInView ==
  LET drawn(of, n) == {c \in Cells : canvas[c].of = of /\ canvas[c].n = n /\ canvas[c].look # "plain"}
  IN  /\ InWindow /\ win.disks # <<>> =>
           /\ win.rows # <<>> => drawn("row", win.rows[win.sel].id) # {}
           /\ ~setup.text =>
                LET d == win.disks[win.dsel]
                IN  ListTop \in drawn("disk", d.id) \/ Cardinality(drawn("disk", d.id)) = d.height
      /\ InDialog("menu") => drawn("item", dlg.sel) # {}

\* Whatever is typed and deleted, the field holds whole characters, the cursor
\* stands before one of them or at the end, and the text and its final 0 fit the
\* buffer; the part the text screen shows begins with a character and has the
\* cursor in it.
FieldWhole ==
  InDialog("input") =>
    LET f == dlg.field
    IN  /\ WholeChars(f.buf) /\ WholeChars(SubSeq(f.buf, 1, f.cur))
        /\ f.cur <= Len(f.buf) /\ Len(f.buf) < FieldBytes
        /\ ShownFrom(f) <= Len(f.buf) => ~Continues(f.buf[ShownFrom(f)])
        /\ ShownFrom(f) <= f.cur + 1 /\ CursorColumn(f) < FieldColumns
=============================================================================

------------------------------- MODULE Screen -------------------------------
(***************************************************************************)
(* What the screens show: the drawing functions of the window (gui.c), of  *)
(* the text screen of a disk (diskview.c) and of the dialogs. The screen   *)
(* is one column of cells, and a cell is known by what is drawn there and  *)
(* how. A row of the table, of a menu or of the list of disks is as many   *)
(* cells as it has lines.                                                  *)
(***************************************************************************)
EXTENDS Integers, Sequences, Field

CONSTANTS
  ListCells,   \* height of the list of disks
  BarCells,    \* width of the bar of the selected disk
  DiskBlocks,  \* blocks the bar stands for
  LeastSpan,   \* width of the smallest partition in the bar (3 pixels)
  BodyCells,   \* height of the table and of its notes together
  MenuCells,   \* items of a menu that are shown at once (14)
  ArrowCells   \* height of the arrow of the pointer

\* The last one says that a menu fits the screen with its title and buttons.
ASSUME ScreenAssumption ==
  /\ ListCells \in Nat \ {0} /\ BarCells \in Nat \ {0} /\ DiskBlocks \in Nat \ {0}
  /\ LeastSpan \in Nat \ {0} /\ BodyCells \in Nat \ {0} /\ MenuCells \in Nat \ {0}
  /\ ArrowCells \in Nat \ {0}
  /\ MenuCells <= 1 + ListCells + BarCells + BodyCells

-----------------------------------------------------------------------------
(* Where things are                                                        *)

Quit   == 0
New    == 1        \* any button that starts an action
Rescan == 2
Buttons == {Quit, New, Rescan}

ListTop == 3
BarTop  == ListTop + ListCells
BodyTop == BarTop + BarCells
Message == BodyTop + BodyCells
Cells   == 0..Message

Part(from, n) == from..(from + n - 1)
ListArea == Part(ListTop, ListCells)
BarArea  == Part(BarTop, BarCells)

Cell(of, n, look, text) == [of |-> of, n |-> n, look |-> look, text |-> text, dim |-> FALSE]
Blank == Cell("blank", 0, "plain", <<>>)

-----------------------------------------------------------------------------
(* The window. Its record w: the disks and the height of each, the selected *)
(* one dsel and the first one shown dtop; of the table of that disk, the    *)
(* rows, the number of notes, the selected row sel and the first one shown  *)
(* top; which of the two lists has the keys; whether the table has changes; *)
(* the message; and the button that is highlighted.                         *)

\* The first of n rows shown, so that the selected one is among them.
Scroll(sel, top, n) == IF sel < top THEN sel ELSE IF sel >= top + n THEN sel - n + 1 ELSE top

AtLeastOne(n) == IF n < 1 THEN 1 ELSE n

VisibleRows(w) == AtLeastOne(BodyCells - w.notes)

\* The first cell of disk i when disk t is the first one shown.
DiskTop(w, t, i) ==
  LET top[j \in t..i] == IF j = t THEN ListTop ELSE top[j - 1] + w.disks[j - 1].height + 1
  IN  top[i]

\* Fault: every disk is taken to be as high as the first one.
ListFitsEqual(w, t) == ListTop + (w.dsel - t + 1) * (w.disks[t].height + 1) <= BarTop

\* The disks from t to the selected one have room in the list.
ListFits(w, t) == DiskTop(w, t, w.dsel) + w.disks[w.dsel].height + 1 <= BarTop

FirstDisk(w) ==
  LET from == IF w.dsel < w.dtop THEN w.dsel ELSE w.dtop
  IN  IF w.disks = <<>> THEN from
      ELSE CHOOSE t \in from..w.dsel :
             /\ t = w.dsel \/ ListFits(w, t)
             /\ \A u \in from..(t - 1) : ~ListFits(w, u)

\* Drawing the window scrolls its two lists.
Scrolled(w) ==
  [w EXCEPT !.dtop = FirstDisk(w),
            !.top  = IF w.disks = <<>> THEN w.top ELSE Scroll(w.sel, w.top, VisibleRows(w))]

Covers(w, i, c) ==
  LET r == w.rows[i]
      a == (r.start * BarCells) \div DiskBlocks
      b == ((r.start + r.size) * BarCells) \div DiskBlocks
  IN  a <= c - BarTop /\ c - BarTop < (IF b - a < LeastSpan THEN a + LeastSpan ELSE b)

Look(selected, focused) == IF ~selected THEN "plain" ELSE IF focused THEN "strong" ELSE "weak"

DiskCell(w, c) ==
  LET shown == {i \in w.dtop..Len(w.disks) : c \in Part(DiskTop(w, w.dtop, i), w.disks[i].height)}
  IN  IF shown = {} THEN Blank
      ELSE LET i == CHOOSE i \in shown : TRUE
           IN  Cell("disk", w.disks[i].id, Look(i = w.dsel, w.focus = "disks"),
                    IF i = w.dsel /\ w.changed THEN <<1>> ELSE <<>>)

\* The extended partition is a band behind its logical ones; of rows that are
\* drawn at one place, which the least width makes possible, the last stays.
BarCell(w, c) ==
  LET here   == {i \in 1..Len(w.rows) : Covers(w, i, c)}
      front  == {i \in here : ~w.rows[i].ext}
      top    == IF front # {} THEN front ELSE here
      framed == w.rows # <<>> /\ Covers(w, w.sel, c)
  IN  IF top = {} THEN [Blank EXCEPT !.look = Look(framed, w.focus = "rows")]
      ELSE LET i == CHOOSE i \in top : \A j \in top : j <= i
           IN  Cell("span", w.rows[i].id, Look(framed, w.focus = "rows"), <<>>)

RowCell(w, c) ==
  LET i == w.top + (c - BodyTop)
  IN  IF c >= Message - w.notes THEN Cell("note", c - (Message - w.notes) + 1, "plain", <<>>)
      ELSE IF c = BodyTop /\ w.rows = <<>> THEN Cell("norows", 0, "plain", <<>>)
      ELSE IF c - BodyTop < VisibleRows(w) /\ i <= Len(w.rows)
             THEN Cell("row", w.rows[i].id, Look(i = w.sel, w.focus = "rows"), <<>>)
      ELSE Blank

Picture(w) ==
  [c \in Cells |->
     IF c \in Buttons THEN Cell("button", c, Look(w.hover = c, TRUE), <<>>)
     ELSE IF c \in ListArea THEN DiskCell(w, c)
     ELSE IF c = Message THEN Cell("message", w.msg, "plain", <<>>)
     ELSE IF w.disks = <<>> THEN Blank
     ELSE IF c \in BarArea THEN BarCell(w, c)
     ELSE RowCell(w, c)]

-----------------------------------------------------------------------------
(* The text screen of a disk: title, rows, notes and message.              *)

TextTop  == 1
TextRows == 3
TextStatus == TextTop + TextRows

TextVisible(w) == AtLeastOne(TextRows - (IF w.notes = 0 THEN 0 ELSE w.notes + 1))

TextScrolled(w) == [w EXCEPT !.top = Scroll(w.sel, w.top, TextVisible(w))]

TextPicture(w) ==
  [c \in Cells |->
     LET i == w.top + (c - TextTop)
     IN  IF c = 0 THEN Cell("title", 0, Look(w.changed, TRUE), <<>>)
         ELSE IF c = TextStatus THEN Cell("message", w.msg, "plain", <<>>)
         ELSE IF c \in (TextStatus - w.notes)..(TextStatus - 1)
                THEN Cell("note", c - (TextStatus - w.notes) + 1, "plain", <<>>)
         ELSE IF c = TextTop /\ w.rows = <<>> THEN Cell("norows", 0, "plain", <<>>)
         ELSE IF c \in Part(TextTop, TextVisible(w)) /\ i <= Len(w.rows)
                THEN Cell("row", w.rows[i].id, Look(i = w.sel, TRUE), <<>>)
         ELSE Blank]

-----------------------------------------------------------------------------
(* Dialogs: a box in the middle, the title and the text, then a list or a  *)
(* field, then the buttons. A dialog d has its kind; a menu the number of  *)
(* items, the selected one and the first one shown; an input its field.    *)
(* The window behind the box is dimmed; the text screen has no buttons.    *)

MenuHeight(d) == AtLeastOne(IF d.items < MenuCells THEN d.items ELSE MenuCells)

Extra(d) == CASE d.kind = "menu" -> MenuHeight(d) [] d.kind = "input" -> 1 [] OTHER -> 0

ButtonCount(d) == IF d.kind = "message" THEN 1 ELSE 2

BoxTop(d)    == (Message + 1 - (1 + Extra(d) + ButtonCount(d))) \div 2
BoxArea(d)   == Part(BoxTop(d), 1 + Extra(d) + ButtonCount(d))
ExtraArea(d) == Part(BoxTop(d) + 1, Extra(d))
ButtonOf(d, c) == c - (BoxTop(d) + Extra(d))       \* 1 is Yes, OK or Choose

ExtraCell(d, c) ==
  IF d.kind = "input"
    THEN Cell("field", d.field.cur, IF d.field.fresh THEN "fresh" ELSE "plain", d.field.buf)
    ELSE LET i == d.top + (c - BoxTop(d) - 1)
         IN  Cell("item", i, Look(i = d.sel, TRUE), <<>>)

BoxCell(d, c) ==
  IF c = BoxTop(d) THEN Cell("box", 0, d.kind, <<>>)
  ELSE IF c \in ExtraArea(d) THEN ExtraCell(d, c)
  ELSE Cell("dbutton", ButtonOf(d, c), "plain", <<>>)

Dimmed(x) == [x EXCEPT !.dim = TRUE]

\* The box of dialog d over the canvas cv.
Boxed(cv, d, text) ==
  [c \in Cells |->
     IF c \in BoxArea(d) THEN BoxCell(d, c) ELSE IF text THEN cv[c] ELSE Dimmed(cv[c])]

\* The list or the field of the box alone.
ExtraDrawn(cv, d) == [c \in Cells |-> IF c \in ExtraArea(d) THEN ExtraCell(d, c) ELSE cv[c]]

\* The box of a wipe, with a Stop button in the window.
StopCell == (Message \div 2) + 1
WipeArea == {StopCell - 1, StopCell}

WipeDrawn(cv, percent) ==
  [cv EXCEPT ![StopCell - 1] = Cell("wipe", percent, "plain", <<>>), ![StopCell] = Cell("stop", 0, "plain", <<>>)]

-----------------------------------------------------------------------------
(* The pointer: an arrow on the display only, over the canvas.             *)

Plain(x)   == [cell |-> x, arrow |-> FALSE]
Pointed(x) == [cell |-> x, arrow |-> TRUE]

Arrow(x) == {c \in Part(x, ArrowCells) : c \in Cells}

Shown(display, cv, S) == [c \in Cells |-> IF c \in S THEN Plain(cv[c]) ELSE display[c]]

PointerShown(display, cv, x) == [c \in Cells |-> IF c \in Arrow(x) THEN Pointed(cv[c]) ELSE display[c]]

Overlaid(cv, x, pointer) ==
  [c \in Cells |-> IF pointer /\ c \in Arrow(x) THEN Pointed(cv[c]) ELSE Plain(cv[c])]

ButtonAt(x) == IF x \in Buttons THEN x ELSE -1
=============================================================================

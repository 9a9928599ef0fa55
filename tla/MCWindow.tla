------------------------------ MODULE MCWindow ------------------------------
(***************************************************************************)
(* Window on a screen of 15 cells: a list of disks of four, a bar of four  *)
(* and a table of three with its notes. Three machines share the state     *)
(* space, each with what the other ones leave out: lists and tables that   *)
(* change, menus, fields and wipes under the pointer, and text mode.       *)
(***************************************************************************)
EXTENDS Window

Disk(id, height, noted) == [id |-> id, height |-> height, noted |-> noted]
Row(id, start, size)    == [id |-> id, start |-> start, size |-> size, ext |-> FALSE]
Ext(id, start, size)    == [Row(id, start, size) EXCEPT !.ext = TRUE]
Table(rows, notes)      == [loaded |-> TRUE, rows |-> rows, notes |-> notes]

Short  == Table(<<Row(1, 0, 8)>>, 0)
Long   == Table(<<Row(1, 0, 2), Ext(2, 2, 6), Row(3, 3, 1), Row(4, 5, 3)>>, 2)
Middle == Table(<<Row(1, 0, 3), Row(2, 4, 4)>>, 0)

Ask(kind, items, sel, buf) == [kind |-> kind, items |-> items, sel |-> sel, buf |-> buf]

Message0 == Ask("message", 0, 1, <<>>)
YesNo0   == Ask("yesno", 0, 1, <<>>)
Menu     == Ask("menu", 4, 3, <<>>)
Input    == Ask("input", 0, 1, <<97>>)

OneDisk == <<Disk(1, 1, FALSE)>>
Three   == <<Disk(1, 2, TRUE), Disk(2, 1, FALSE), Disk(3, 1, FALSE)>>
Two     == <<Disk(3, 1, FALSE), Disk(2, 3, FALSE)>>

\* a, e with an acute accent, the euro sign: one, two and three bytes.
MCSetups ==
  {[text |-> FALSE, pointer |-> TRUE, places |-> {2, 3, 5, 8, 11, 12},
    lists |-> {Three, Two, <<>>}, tables |-> {Short, Long, NoTable},
    asks |-> {Message0}, wipes |-> FALSE, chars |-> {}],
   [text |-> FALSE, pointer |-> TRUE, places |-> {1, 6, 7, 8, 9},
    lists |-> {OneDisk}, tables |-> {Middle},
    asks |-> {YesNo0, Menu, Input}, wipes |-> TRUE, chars |-> {97, 8364}],
   [text |-> TRUE, pointer |-> FALSE, places |-> {},
    lists |-> {OneDisk}, tables |-> {Short, [Long EXCEPT !.notes = 1]},
    asks |-> {YesNo0, Input, Menu}, wipes |-> TRUE, chars |-> {97, 233, 8364}]}
=============================================================================

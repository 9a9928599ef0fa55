----------------------------- MODULE DiskSession -----------------------------
(***************************************************************************)
(* The window (gui.c), or on firmware without graphics the text list of    *)
(* disks (main.c) and the text screen of one (diskview.c), with the disk   *)
(* shown (view.c) and its actions, as far as the keys decide what happens  *)
(* to the disks: which disk is shown, its table and rows, the questions,   *)
(* the changes not written. A table is known by its kind, its rows and a   *)
(* mark for all else; PtEdit has the edits, TableWrite the writes.         *)
(*                                                                         *)
(* The program does one thing at a time: a question waits for its answer,  *)
(* in which a click is a key. Disks come and go meanwhile. One that is     *)
(* pulled out can neither be read nor written until the disks are read     *)
(* again. Boxes that only wait for a key are left out.                     *)
(***************************************************************************)
EXTENDS Naturals, Sequences, SequencesExt

CONSTANTS
  Disks,     \* the disks there may be
  Boot,      \* the one partmgr was started from
  Protected, \* the write-protected ones
  Machines,  \* what may be plugged in: handles of block devices by device path
  Tables     \* tables a disk may have: kind, rows, mark

NoDisk  == "nodisk"
NoTable == [kind |-> "none", rows |-> <<>>, mark |-> 0]

\* A handle is of a disk or of a partition on it; of a disk there is one.
Handle == [disk: Disks, whole: BOOLEAN]

ASSUME MachinesAssumption ==
  \A m \in Machines :
    /\ m \in Seq(Handle)
    /\ \A i, j \in 1..Len(m) : m[i].whole /\ m[j].whole /\ m[i].disk = m[j].disk => i = j

\* A row is a partition, a logical or the extended one, or a free area.
RowKinds == {"part", "logical", "ext", "free"}

ASSUME TablesAssumption == \A t \in Tables : t.rows \in Seq(RowKinds)

IsPart(row) == row \in {"part", "logical", "ext"}
Parts(t)    == SelectSeq(t.rows, IsPart)

VARIABLES
  screen,    \* "window", or "list" and "disk" in the text screens
  plugged,   \* the handles in the machine
  scanned,   \* those the list was made from
  gone,      \* the disks pulled out since then
  on,        \* the table on each disk
  data,      \* the data in its partitions is as it was
  dsel,      \* the selected disk of the list
  kinds,     \* the kind of table the list shows for each
  shown,     \* the disk in the view
  loaded,    \* its table could be read
  table,     \* the table in the view
  changed,   \* it has changes not written
  rows,      \* its rows
  sel,       \* the selected row
  dialog,    \* the question asked, and the disk to change to
  last       \* the last key

machine == <<plugged, gone>>
media   == <<on, data>>
window  == <<screen, scanned, dsel, kinds>>
view    == <<shown, loaded, table, changed, rows, sel>>
vars    == <<machine, media, window, view, dialog, last>>

NoDialog   == [ask |-> "none", to |-> 0]
Ask(a, to) == dialog' = [ask |-> a, to |-> to]
Closed     == dialog.ask = "none"

-----------------------------------------------------------------------------
(* Reading the disks                                                       *)

\* pm_disks: a handle is a whole disk with a medium in it, or a partition of
\* one, an empty reader and the like. The disks are listed in the order of the
\* handles, and the name of each is its place among all of them.
IsDisk(h)     == h.whole

WithDisk(p, h, i) == IF IsDisk(h) THEN Append(p, i) ELSE p

Places(m) ==
  LET upto[i \in 0..Len(m)] == IF i = 0 THEN <<>> ELSE WithDisk(upto[i - 1], m[i], i)
  IN  upto[Len(m)]

Listed(m)     == [j \in 1..Len(Places(m)) |-> m[Places(m)[j]].disk]
list          == Listed(scanned)
Summary(l)    == [j \in 1..Len(l) |-> on[l[j]].kind]

\* Blocks of a listed disk are read and written as long as it is there; one
\* that was pulled out and put back has another handle.
Answers(d) == d \notin gone

ReadOnly(d) == d = Boot \/ d \in Protected

\* A row that is gone selects the last one.
Clamp(s, n) == IF s <= n THEN s ELSE IF n = 0 THEN 1 ELSE n

\* pm_view_rows: the rows of the table t.
SetRows(t, s) == rows' = t.rows /\ sel' = Clamp(s, Len(t.rows))

\* A disk is opened in a view without anything in it; its blocks can be read
\* when it is there.
Open(d, there) ==
  /\ shown' = d
  /\ changed' = FALSE
  /\ IF there THEN loaded' = TRUE /\ table' = on[d] /\ SetRows(on[d], 1)
              ELSE loaded' = FALSE /\ table' = NoTable /\ rows' = <<>> /\ sel' = 1

\* The disk in the view is read again. When that fails the table is gone and
\* the rows stay.
Reload ==
  /\ changed' = FALSE
  /\ UNCHANGED shown
  /\ IF Answers(shown) THEN loaded' = TRUE /\ table' = on'[shown] /\ SetRows(on'[shown], sel)
                      ELSE loaded' = FALSE /\ table' = NoTable /\ UNCHANGED <<rows, sel>>

\* Fault: the summary is taken from the screen.
SummariseScreen ==
  /\ kinds' = [kinds EXCEPT ![dsel] = table'.kind]
  /\ UNCHANGED <<screen, scanned, dsel>>

\* The summary of the selected disk again, after an action on it. The text
\* list reads all of them when it is drawn.
Summarise ==
  /\ kinds' = IF screen = "disk" THEN kinds
              ELSE [kinds EXCEPT ![dsel] =
                      IF Answers(shown) THEN on'[shown].kind ELSE "unreadable"]
  /\ UNCHANGED <<screen, scanned, dsel>>

Writables(m) == {j \in 1..Len(Listed(m)) : ~ReadOnly(Listed(m)[j])}

FirstWritable(m) ==
  LET w == Writables(m) IN IF w = {} THEN 1 ELSE CHOOSE j \in w : \A k \in w : j <= k

\* Fault: always the first disk that may be changed.
SelectedFirst(m, name) == FirstWritable(m)

\* The disk selected after reading the disks again: the one with the name of
\* the last, 0 for none; without it, the first that may be changed.
Selected(m, name) ==
  IF \E j \in 1..Len(Places(m)) : Places(m)[j] = name
    THEN CHOOSE j \in 1..Len(Places(m)) : Places(m)[j] = name
    ELSE FirstWritable(m)

NameOf(j) == IF j \in 1..Len(list) THEN Places(scanned)[j] ELSE 0

\* The disks are listed, with their tables.
ReadDisks ==
  /\ gone' = {} /\ UNCHANGED plugged
  /\ scanned' = plugged
  /\ kinds' = Summary(Listed(plugged))

Scan(name) ==
  /\ ReadDisks /\ UNCHANGED screen
  /\ dsel' = Selected(plugged, name)
  /\ IF Listed(plugged) = <<>> THEN Open(NoDisk, FALSE) ELSE Open(Listed(plugged)[dsel'], TRUE)

OpenListed(j) ==
  dsel' = j /\ Open(list[j], Answers(list[j])) /\ UNCHANGED <<machine, screen, scanned, kinds>>

\* The text list, drawn before every key with the disks read again; the same
\* row is selected, whatever disk it is now.
ListDisks(j) ==
  /\ ReadDisks /\ screen' = "list"
  /\ dsel' = Clamp(j, Len(Listed(plugged)))
  /\ Open(NoDisk, FALSE)

Init ==
  /\ plugged \in Machines /\ gone = {} /\ scanned = plugged
  /\ on \in [Disks -> Tables] /\ data = [d \in Disks |-> TRUE]
  /\ kinds = Summary(list)
  /\ \/ screen = "window" /\ list # <<>> /\ dsel = Selected(plugged, 0)
        /\ shown = list[dsel] /\ loaded = TRUE /\ table = on[shown]
     \/ screen = "list" /\ dsel = 1
        /\ shown = NoDisk /\ loaded = FALSE /\ table = NoTable
  /\ changed = FALSE /\ rows = table.rows /\ sel = 1
  /\ dialog = NoDialog /\ last = "other"

\* Disks are plugged in and pulled out, also while a question waits.
Plug ==
  /\ plugged' \in Machines \ {plugged}
  /\ gone' = gone \cup (Range(list) \ Range(Listed(plugged')))
  /\ UNCHANGED <<media, window, view, dialog, last>>

-----------------------------------------------------------------------------
(* Leaving the disk: unwritten changes are only discarded after a question *)

\* Quitting ends the program; started again it is as at first.
Leave(ask, to) ==
  CASE ask = "quit"   -> Scan(0)
    [] ask = "rescan" -> Scan(NameOf(dsel))
    [] ask = "change" -> OpenListed(to)
    [] ask = "back"   -> ListDisks(dsel)

\* Fault: no question before the disks are read again.
MayLeaveRescan(ask, to) ==
  IF changed /\ ask # "rescan" THEN Ask(ask, to) /\ UNCHANGED <<machine, window, view>>
                              ELSE Leave(ask, to) /\ UNCHANGED dialog

MayLeave(ask, to) ==
  IF changed THEN Ask(ask, to) /\ UNCHANGED <<machine, window, view>>
             ELSE Leave(ask, to) /\ UNCHANGED dialog

InWindow == Closed /\ screen = "window"

Quit   == InWindow /\ MayLeave("quit", 0) /\ last' = "Esc" /\ UNCHANGED media
Rescan == InWindow /\ MayLeave("rescan", 0) /\ last' = "F5" /\ UNCHANGED media

\* From the text screen of a disk to the list.
Back == Closed /\ screen = "disk" /\ MayLeave("back", 0) /\ last' = "Esc" /\ UNCHANGED media

\* The places Up, Down, Home and End, or Page Up and Down, lead to from i.
Moves(i, n) == {i - 1, i + 1, 1, n} \cap 1..n

To(i) == i # dsel /\ MayLeave("change", i) /\ UNCHANGED media

ChangeDisk(i) == InWindow /\ i \in Moves(dsel, Len(list)) /\ To(i) /\ last' = "other"

\* A key of the text list: an arrow, Home or End moves the selection, any other
\* but Enter only reads the disks again, and Q starts the program anew.
ListKey ==
  /\ Closed /\ screen = "list" /\ last' = "other"
  /\ \E j \in {1, dsel} \cup Moves(dsel, Len(list)) : ListDisks(j)
  /\ UNCHANGED <<media, dialog>>

\* Enter opens the selected disk; one that cannot be read is only said to be so.
OpenSelected ==
  /\ Closed /\ screen = "list" /\ list # <<>> /\ last' = "Enter"
  /\ IF Answers(list[dsel])
       THEN screen' = "disk" /\ Open(list[dsel], TRUE) /\ UNCHANGED <<machine, scanned, dsel, kinds>>
       ELSE ListDisks(dsel)
  /\ UNCHANGED <<media, dialog>>

Select(i) ==
  /\ sel' = i
  /\ UNCHANGED <<machine, media, window, shown, loaded, table, changed, rows, dialog>>

SelectRow(i) ==
  /\ Closed /\ screen # "list" /\ i \in Moves(sel, Len(rows))
  /\ Select(i) /\ last' = "other"

\* A click on a button is its key; one on a disk of the list or a row, in the
\* table or the bar, goes to it, however far.
Click ==
  /\ InWindow /\ last' = "other"
  /\ \/ \E i \in 1..Len(list) : To(i)
     \/ \E i \in 1..Len(rows) : Select(i)

-----------------------------------------------------------------------------
(* The keys of pm_disk_action                                              *)

\* In the window a key reaches the actions when there is a table in the view;
\* the text screen does not ask.
Action(key) == Closed /\ (screen = "disk" \/ (screen = "window" /\ loaded)) /\ last' = key
\* Fault: the disk partmgr was started from is taken for any other.
MayChangeBoot == shown \notin Protected
MayChange   == ~ReadOnly(shown)
OnFree      == rows # <<>> /\ rows[sel] = "free"
\* The operations look the partition up in the table (pt_find). One that has
\* none, as when it is gone and its rows are left, finds no number.
OnPart ==
  /\ rows # <<>> /\ IsPart(rows[sel])
  /\ \E i \in 1..Len(table.rows) : IsPart(table.rows[i])

\* Fault: the rows are not made again.
EditedStale(t, s) ==
  /\ table' = t /\ changed' = TRUE
  /\ UNCHANGED <<machine, media, shown, loaded, rows, sel, dialog>>
  /\ Summarise

\* The table on the screen is changed to t, with s the selected row.
Edited(t, s) ==
  /\ table' = t /\ changed' = TRUE /\ SetRows(t, s)
  /\ UNCHANGED <<machine, media, shown, loaded, dialog>>
  /\ Summarise

\* pm_view_select: the row of the new partition, not of a free area.
RowOf(s, t) == t.rows[s] = "part"

\* Every edit ends in Enter, or is one key.
NewPartition(t) ==
  /\ Action("Enter") /\ OnFree /\ MayChange
  /\ t.kind = table.kind /\ Len(Parts(t)) > Len(Parts(table))
  /\ \E s \in 1..Len(t.rows) : RowOf(s, t) /\ Edited(t, s)

\* An extended partition with logical ones is deleted after a question.
DeletePartition(t) ==
  /\ Action("other") /\ OnPart /\ MayChange
  /\ IF rows[sel] = "ext" /\ \E i \in 1..Len(table.rows) : table.rows[i] = "logical"
       THEN Ask("extended", 0) /\ UNCHANGED <<machine, media, window, view>>
       ELSE /\ t.kind = table.kind /\ Len(Parts(t)) = Len(Parts(table)) - 1
            /\ Edited(t, sel)

\* Type, name, active flag: the rows keep their places.
SetPartition(t) ==
  /\ Action("Enter") /\ OnPart /\ rows[sel] # "ext" /\ MayChange
  /\ t.kind = table.kind /\ t.rows = table.rows
  /\ table' = t /\ changed' = TRUE
  /\ UNCHANGED <<machine, media, shown, loaded, rows, sel, dialog>>
  /\ Summarise

NewTable(t) ==
  /\ Action("Enter") /\ MayChange
  /\ t.kind # "none" /\ Parts(t) = <<>>
  /\ Edited(t, 1)

DeleteTable == Action("other") /\ MayChange /\ Edited(NoTable, 1)

\* A backup, and a key that is refused or whose box is left with Esc.
NothingDone ==
  /\ Action("other")
  /\ UNCHANGED <<machine, media, view, dialog>>
  /\ Summarise

\* A question that is asked when the action may go on.
Question(key, ask) ==
  /\ Action(key) /\ MayChange
  /\ Ask(ask, 0)
  /\ UNCHANGED <<machine, media, window, view>>

AskWrite == changed /\ Question("Enter", "write")
AskFile  == Question("S", "file")
\* Fault: unwritten changes do not matter.
CanWipeChanged == rows[sel] # "ext"
CanWipe  == ~changed /\ rows[sel] # "ext"
AskWipe  == OnPart /\ CanWipe /\ Question("W", "wipe")

-----------------------------------------------------------------------------
(* Answers                                                                 *)

\* Fault: Enter says yes.
ConfirmsEnter(key) == key \in {"Y", "Enter"}

\* The red question and the one before discarding: Y, and N or Esc; no other
\* key does anything, Enter least of all.
Confirms(key) == key = "Y"
Refuses(key)  == key \in {"N", "Esc"}

\* Blocks are written on the disk shown, if it is there: all, some or none.
Writes(t) == on' \in {on} \cup {[on EXCEPT ![shown] = u] : u \in IF Answers(shown) THEN t ELSE {}}

\* Fault: a refused write counts as written.
WriteTableForgets ==
  \/ Writes(Tables) /\ changed' = FALSE /\ UNCHANGED <<shown, loaded, table, rows, sel>>
  \/ /\ Answers(shown)
     /\ on' = [on EXCEPT ![shown] = table]
     /\ Reload

\* Write: when a block is refused the changes stay on the screen.
WriteTable ==
  \/ Writes(Tables) /\ UNCHANGED view
  \/ /\ Answers(shown)
     /\ on' = [on EXCEPT ![shown] = table]
     /\ Reload

\* Restore, done or not: the disk is read again.
Restore == Writes(Tables) /\ Reload

Wipe ==
  /\ data' \in {data} \cup {[data EXCEPT ![d] = FALSE] : d \in {shown} \ gone}
  /\ UNCHANGED <<on, view>>

\* The extended partition goes with its logical ones.
DeleteExtended ==
  \E t \in Tables :
    /\ t.kind = table.kind /\ Len(Parts(t)) < Len(Parts(table))
    /\ \A i \in 1..Len(t.rows) : t.rows[i] \notin {"ext", "logical"}
    /\ table' = t /\ changed' = TRUE /\ SetRows(t, sel)
    /\ UNCHANGED <<media, shown, loaded>>

Leaving == {"quit", "rescan", "change", "back"}

Yes ==
  /\ dialog' = NoDialog
  /\ \/ dialog.ask \in Leaving /\ Leave(dialog.ask, dialog.to) /\ UNCHANGED media
     \/ /\ \/ dialog.ask = "write" /\ WriteTable /\ UNCHANGED data
           \/ dialog.ask = "restore" /\ Restore /\ UNCHANGED data
           \/ dialog.ask = "wipe" /\ Wipe
           \/ dialog.ask = "extended" /\ DeleteExtended
        /\ Summarise /\ UNCHANGED machine

No ==
  /\ dialog' = NoDialog
  /\ UNCHANGED <<machine, media, view>>
  /\ IF dialog.ask \in Leaving THEN UNCHANGED window ELSE Summarise

Answer(key) ==
  /\ ~Closed /\ dialog.ask # "file"
  /\ last' = key
  /\ IF Confirms(key) THEN Yes ELSE IF Refuses(key) THEN No
     ELSE UNCHANGED <<machine, media, window, view, dialog>>

\* A typed text, in the window and in the text screens, is taken with Enter and
\* given up with Esc; other keys edit it.
Taken(key)   == key = "Enter"
GivenUp(key) == key = "Esc"

\* The name of the file to restore, which may not be readable.
FileNamed(key) ==
  /\ dialog.ask = "file"
  /\ last' = key
  /\ IF Taken(key) THEN \/ Ask("restore", 0) /\ UNCHANGED <<machine, media, window, view>>
                       \/ No
     ELSE IF GivenUp(key) THEN No ELSE UNCHANGED <<machine, media, window, view, dialog>>

Keys == {"Enter", "Esc", "Y", "N", "S", "W", "F5", "other"}

Edit ==
  \E t \in Tables : NewPartition(t) \/ DeletePartition(t) \/ SetPartition(t) \/ NewTable(t)

Next ==
  \/ Plug
  \/ Quit
  \/ Rescan
  \/ Back
  \/ ListKey
  \/ OpenSelected
  \/ \E i \in 1..Len(list) : ChangeDisk(i)
  \/ \E i \in 1..Len(rows) : SelectRow(i)
  \/ Click
  \/ Edit
  \/ DeleteTable
  \/ NothingDone
  \/ AskWrite
  \/ AskFile
  \/ AskWipe
  \/ \E key \in Keys : Answer(key) \/ FileNamed(key)

Spec == Init /\ [][Next]_vars
-----------------------------------------------------------------------------
(* Properties                                                              *)

\* While a table is in memory the rows on the screen are its rows, after every
\* edit, read, write and restore, and of them one is selected: a key acts on the
\* partition the user sees, on the disk that is highlighted. (Of a table that is
\* gone the rows may be left: NoRowsWithoutTable.)
RowsNameTheTable ==
  /\ loaded => rows = table.rows
  /\ sel \in 1..(IF rows = <<>> THEN 1 ELSE Len(rows))
  /\ list # <<>> => shown = IF screen = "list" THEN NoDisk ELSE list[dsel]

\* A view without a table has no rows (view.h: a row holds an "index in t.parts").
NoRowsWithoutTable == ~loaded => rows = <<>>

\* What is shown without unwritten changes is what is on the disk, whatever
\* write or restore stopped half-way before, and the list of disks never names
\* the kind of a table a disk no longer has.
ViewFresh ==
  /\ loaded /\ ~changed => table = on[shown]
  /\ screen # "disk" => \A i \in 1..Len(list) : list[i] \notin gone => kinds[i] = on[list[i]].kind

\* The disk partmgr was started from and protected ones never get changes, nor
\* a question that could write to them.
ReadOnlyKept ==
  ReadOnly(shown) => ~changed /\ dialog.ask \notin {"write", "file", "restore", "wipe"}

\* Unwritten changes are written or given up by an answer of Y and by nothing else.
NothingLostUnasked == [][changed /\ ~changed' => last' = "Y" /\ dialog.ask # "none"]_vars

\* "A key pressed twice cannot write" (diskview.c:368): the key that writes is
\* not the one before.
OneKeyNeverWrites == [][media' # media => last' # last]_vars

\* A wipe overwrites a partition that is on the disk, as the screen shows it.
WipeSeesDisk == [][data' # data => table = on[shown] /\ IsPart(rows[sel])]_vars

\* Reading the disks again keeps the selected one when no handle up to its own
\* came or went, and whatever is on the disks. With one plugged in or pulled out
\* before it the name, a place in the list of handles, may be another's (gui.c:223).
RescanKeepsDisk ==
  [][last' = "F5" /\ shown' # shown /\ list # <<>> =>
       ~IsPrefix(SubSeq(scanned, 1, NameOf(dsel)), plugged)]_vars

=============================================================================

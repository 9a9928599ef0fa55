# A formal model of partmgr

`partmgr.efi` is a partition manager that runs on UEFI firmware. It reads GPT and
MBR tables, changes them in memory, writes them block by block, saves them to
files, brings them back, and wipes partitions. A mistake in it costs somebody a
disk, and most of what could go wrong needs a sequence no test was written for:
a power cut between two blocks, a write repeated after one that failed, a table
another tool made, a disk pulled out while a question waits. This directory
models those parts in TLA+, checks them with TLC on small disks, and proves most
of what is checked with TLAPS for all disks: that edits keep a table sound, that
what they make is written and read back, what a write does wherever it is cut,
what a wipe leaves, and what the windows around them never do.

Paths such as `ptwrite.c:138` below are relative to `src/src/partmgr/` unless they
say otherwise. `PROJECT.json` gives the lines of code behind every definition.

## 1. The system

| Component | State | Operations | Modelled in |
|---|---|---|---|
| Editing in memory (`ptedit.c`, `ptable.h`) | `PtTable`: kind, partitions, usable area, changed | `pt_new`, `pt_free_space`, `pt_add`, `pt_delete`, `pt_set_type/name/active`, `pt_can_wipe` | `Parts`, `PtEdit` (`pt_can_wipe`: `DiskSession`) |
| Reading (`ptable.c`) | none: disk to `PtTable` | `pt_read`: MBR, chain of logical partitions, two GPT copies | `TableImage` |
| Writing (`ptwrite.c`) | the blocks of the disk | `pt_write`: GPT, MBR with its chain, deletion | `TableImage`, `TableWrite` |
| Backup, restore (`ptwrite.c`, `diskview.c`) | a file of extents | `pt_backup`, `pt_restore` | `BackupRestore` |
| Wipe (`ptwrite.c`, `diskview.c`) | pass, position | `pt_wipe`, progress, stop | `PtWipe`, `WipeScreen` |
| Disk view (`view.c`, `diskview.c`) | table, rows, selection, message | `pm_view_*`, `pm_disk_action`, what a dialog makes of an input | `DiskSession`, `NewPartition`, and each action in the module above |
| Window (`gui.c`) | list of disks, summaries, selected disk, dialogs | keys, moves, clicks, change of disk, rescan, questions, drawing in parts | `DiskSession`, `WipeScreen`, `Screen`, `Window` |
| Text screens and dialogs (`main.c`, `ui.c`) | list of disks, a dialog's input | list, inputs, menus, questions | `DiskSession`, `Screen`, `Window`, `Field` |
| Disks (`disks_efi.c`) | handles of the firmware | `pm_disks`, block reads and writes | listing, names and read-only rule in `DiskSession` |
| Pointer (`pal/pal_mouse_efi.c`) | motion and buttons since the last read | USB reports, reading | `Pointer` (the left button) |
| Sizes (`units.c`) | none | `pm_parse_size`, `pm_fmt_*` | `Units` |
| Graphics, platform layer, C library, build, tests | - | - | not modelled (section 8), but for UTF-8 in `Field` |

How they interact. The window or the text screen owns one `View` with one table.
A key goes to `pm_disk_action`, whose dialogs end in one `pt_*` call on the table
in memory; the rows are then made again. Only Write, restore and wipe reach the
disk, each after a red question, through the functions `read`, `write` and
`random` of a `PtDev`; a read-only disk has no `write`. After Write and restore
the disk is read again (`pm_view_load`). The window keeps a summary of every
disk, made again for the selected one after each action. The program has one
thread; besides it there are the user, the firmware that can refuse any block,
the power, hands that plug disks in and out, and the USB reports of a mouse.

What is hard, and the property that stands for it (all hazards, with their
lines, are in `PROJECT.json`):

* *Order of writes.* Between two blocks of a GPT or of a chain the power may go
  (`OldOrNew`, `LogicalsApart`, `PrimariesAtOnce`), a block may be refused and
  the write repeated over what the first attempt left (`Repaired`, `NoOldGpt`).
* *Blocks that belong to somebody else.* Headers of an old GPT, records of the
  chain and backup copies lie where partitions may be (`DataKept`,
  `RecordsOutside`, `RestoreKeepsData`, `NeighboursKept`).
* *Agreement of three pieces of code.* What editing accepts, writing must be able
  to write and reading must find again (`RefusedOnlyMisfit`, `WriteReadBack`,
  `FreeSpaceFits`, `ChainAscends`, `Numbering`).
* *Stale state.* Rows, summaries, numbers of partitions and the selected disk are
  kept while the table or the machine changes (`RowsNameTheTable`, `ViewFresh`,
  `RescanKeepsDisk`, `WipeSeesDisk`).
* *Consent.* No key held down writes, no changes are lost without a question,
  the boot disk is never changed (`OneKeyNeverWrites`, `NothingLostUnasked`,
  `ReadOnlyKept`). The press that clicks a button does not click the question it
  brings up (`OnePressOneClick`).
* *What is seen.* The window is drawn in parts, the arrow over it is undone by
  drawing what was under it, dialogs put back what they covered, and lists of
  items of different heights scroll (`ScreenTrue`, `ClickTakesShown`,
  `SelectedInView`).
* *Numbers and texts from the user.* Sizes are multiplied out in 64 bits, rounded
  to blocks and MiB, and checked once by the dialog and once by `pt_add`
  (`SizesExact`, `DialogAgrees`, `ProposalsWork`). A field is edited byte by byte
  though its characters have up to four (`FieldWhole`).
* *An end.* A wipe that is interrupted by questions ends (`Ends`).

## 2. The modules

```
Parts ---- PtEdit --- NewPartition --- Units
  |          |
  |        EditAndWrite              (edit, write, read back)
  |          |
  +---- TableImage --- TableWrite ---+
               \                      > implement TableStore
                \----- BackupRestore -+
PtWipe ------\
Pointer ----- WipeScreen             (a wipe with its screen, keys and mice)
DiskSession                          (the windows and screens around all of it)
Field ---- Screen ---- Window        (what they look like, and where a click goes)
```

The proofs are in modules of their own:

```
Induction       lemmas on Nat, for the others
PtEdit ------------------------ EditingProofs    (with NewPartition, EditAndWrite, ImageProofs)
TableImage --- ImageProofs -+-- TableWriteProofs (with TableWrite)
                            \-- BackupProofs     (with BackupRestore)
WipeScreen -------------------- PtWipeProofs
DiskSession ------------------- SessionProofs
Window ------------------------ WindowProofs
```

**Parts** has the partitions and what `ptedit.c`, `ptable.c` and `ptwrite.c` share
about sets of them: who is logical, the order and the numbers of the logical
ones, and `RecordOf`, the place `write_mbr` gives to the record of each.

**PtEdit** is the table in memory. One action per operation of `ptedit.c`; its
guards are the refusals of the code, negated, and a refused operation is no step.
`Gaps` says what a gap is (a maximal run of free blocks) where the code sorts and
sweeps. Types are numbers, and only 0, the extended ones and EE matter; GUIDs,
attributes, UTF-16 and the mark of the single changed partition are left out.

**Units** is `units.c`: `ParseSize` and what the screens show of a size. The largest
number, the factor between units and the precision of a fraction are constants,
and every sum and product is taken modulo `MaxNum + 1`, so that an overflow the
code does not refuse would be one here. A text is a number with a fraction, a unit
and what follows the unit, or no number at all.

**NewPartition** is the dialog that makes a partition in a free area (`new_partition`
of `diskview.c`): which roles it offers and proposes what, how it rounds the start
and the size typed, and what it hands to `pt_add`. It extends PtEdit, so the areas
are those that edits leave.

**TableImage** has a disk as a function from block numbers to blocks, and a block
by what partmgr can tell of it. `Read` is `pt_read`; `Writes(d, t)` is the
sequence of block writes `pt_write` makes, in its order, on the disk `d`. A
checksum is the data it was made from: a header carries the partitions its array
must hold, so a half-written array or a header over an older one does not pass.
A chain is followed as `mbr_logicals` does it (`IsRecord`, `Follow`): from record to
record, forward only, inside the extended partition, for `MaxRecords` records (128
in the code).

**TableWrite** is Write: `Begin` (the question answered with Y), `Step` (the next
block), `Fail` (a block is refused: the changes stay on the screen), `Restart`
(power cut, or changes discarded), `Change` (any table of `Tables` on the screen).

**TableStore** is the abstract specification of both kinds of rewriting: the table
seen on the disk changes at once from the old to the new one, "written" means
the new one is seen, and a failed or cut *safe* write leaves one of the two.
TableWrite implements it (`OldOrNew`) with `seen <- Seen(disk)`, what a start of
the program would show. Which writes are safe is `SafeWrite`: a GPT over two
copies of one GPT (`Twofold`), an MBR without logical partitions over an MBR, the
deletion of a table with no old GPT behind an MBR. Two good copies are not enough:
a write cut between them leaves copies of two tables (reading notes it,
`ptable.c:241`), and the first block of the next write damages the newer one, so
that the older one comes back, which is neither what was on the screen nor what is
being written. That case came up in the proof of `OldOrNewHolds`; the disk
`TwoTables` of `MCTableWrite` has it now. For the others (a GPT over an MBR, a damaged GPT, a
chain) the code has states in between, and only the end is promised; of a chain,
`LogicalsApart` and `PrimariesAtOnce` say what is promised in between.

**BackupRestore** saves extents, restores them over whatever is on the disk by
then (`Use`), and clears the GPT a restored MBR replaces, with the re-read of the
table in between. Any table is backed up, also one that was read only in part. It
implements TableStore too (`Restored`), with no safe writes and with `whole` for a
file that has every block the reader of the table looks at (`Whole`). Of an MBR
`pt_backup` saves block 0 and the records of the partitions that `pt_read` found
(`ptwrite.c:303`): where a chain breaks off, which a restore cut short may leave
behind, the block of the missing record is not saved, and after a restore the
chain goes on into whatever record the disk has there. Then the disk may show
more than was backed up; `BroughtBack` says what it shows at least. An empty
record inside a chain is not saved either (`Gap`), and without it what follows it
may be lost.

**EditAndWrite** composes PtEdit with TableImage: each reachable table is written
and read back.

**PtWipe** is the two passes chunk by chunk with the progress call, which may ask
whether to stop at any of its calls, and the two answers. Nothing in it depends
on how the user asks, so its proofs do not either.

**Pointer** is the left button on its way from the hand to the window: which mice
are read, through a firmware driver or by partmgr itself (`Readers`), the reports
that the firmware delivers between any two steps (`Report`), what a read finds of
them (`Got`, `Left`), and the edge that makes a click (`Pressed`).

**WipeScreen** composes the two: `Look` is `gui_wipe_stop` between two chunks (one
key, or the pointer), `Question` the box "Stop the wipe?", with keys that wait in
the firmware. In the text screens nobody reads the pointer.

**DiskSession** is the window or the text screens, the view and the keys: which
disk is shown, its table and rows, the question that waits, what a key does to
them, and disks that come and go at any moment. Disks are listed from the
handles of the firmware (`Listed`), and named by their place among them
(`NameOf`), which is how a disk is found again when the disks are read again
(`Selected`). A table is its kind, its rows and a mark; a write, a restore or a
wipe is one step with any outcome, since the others have the detail.

**Field** is the field of an input dialog, a sequence of UTF-8 bytes with a cursor
between two of them. `ui_input` and `gui_input` edit it alike, so it is modelled once;
the part of it the text screen shows (`ShownFrom`) is of `ui.c`.

**Screen** says what is drawn: the list of disks with items of one to three lines,
the bar, the table, dialogs, the box of a wipe. The screen is one column of cells,
and a cell is what is drawn there and how; the columns of a row are of no interest,
the places of rows under each other are. Pictures are functions of the state, as
the drawing functions of `gui.c` are.

**Window** is the main loop with the keys, moves and clicks, in two layers: `canvas`,
what is drawn, and `display`, what was shown of it with the arrow over it. The code
keeps them apart to draw only what changed (`gfx_show` with a rectangle,
`pointer_hide`, `pointer_show`), and so does the model. Actions are left open here:
an action asks any of the dialogs of its setup, in any order, and ends in any
table; `DiskSession` has what they do. Text mode is a setup of the same module,
since `pm_disk_screen` shares the state with the window. A wipe begins in two
steps, as in the code: the window is drawn (`StartWipe`), and the first progress
call looks for Esc and the mouse before it draws the box (`WipeBegins`, or
`WipeStopped` from there). `stopSet` is whether the static rectangle of Stop
(`gui.c:1209`) was ever set: it stays from one wipe to the next.

`MCPtEdit` and `MCTableWrite` have the tables and disks several runs share; the other
MC modules extend the module they instantiate.

## 3. The runs

| Run | What it asks | Bounds |
|---|---|---|
| `edit` | any edits of a table read blank, from a GPT, from a GPT of a disk that got a block shorter, or from an MBR with a chain another tool made; every table they make written and read back; any start and size typed for a new partition in it | 9 blocks, 2 per MiB, 2 GPT entries, chains of 3 records, MBR limit at block 7, CHS limit at 6; numbers of 8 bits, units of 2, one decimal |
| `foreign_chain` (violation) | is the record of a changed chain always outside the partitions? | 9 blocks, one chain out of disk order |
| `type_ee` (violation) | is what was written read back when the type is EE? | as `edit` |
| `table_write` | tables of every kind, chains of one to three logical partitions among them, over disks blank, sound, damaged, enlarged, hybrid, with copies of two tables, with an old GPT behind an MBR, and over one another; cuts, refusals, repetitions | 12 blocks, arrays of 2 blocks, chains of 4 records |
| `erase_data` (violation) | does deleting a table keep the data of its partitions? | 10 blocks |
| `two_extended` (violation) | is what was written read back when another tool made two extended partitions? | 12 blocks, one such disk |
| `backup_restore` | backups of ten disks, one with a chain that breaks off and one with an empty record in it, restored over each other's remains, cut and repeated | 10 blocks |
| `restore_gpt` (violation) | is a GPT restored byte for byte when its primary header had no signature? | 10 blocks |
| `session` | any keys and clicks in the window, or keys in the text screens, over two disks, one of them the boot disk | 6 tables, 2 disks, 2 sets of handles |
| `stale_rows` (violation) | does a view without a table show no rows? | as `session` |
| `wipe` | wipes of 2 and 3 blocks and of a range beyond the disk, with keys and clicks at any moment | 5 blocks, chunks of 2, one mouse, 2 keys waiting |
| `window` | any keys, moves and clicks in the window, its dialogs and over a wipe, or keys in the text screen of a disk | 15 cells, fields of 5 bytes, three setups |

Why the bounds are enough. A disk of nine blocks holds a full MBR chain of two
logical partitions with a gap, or a GPT with two partitions and free areas on
both sides; alignment of 2 makes rounding matter, limits inside the disk make
`MBR_LIMIT` and CHS matter, an array of two blocks can be half written, three
logical partitions make the first, a middle and a last link, which are all that
`write_mbr` and `mbr_logicals` tell apart, and in `edit` they are as many as a
reader follows. A partition of three blocks with
chunks of two has a full chunk and a short last one, of two a full one only. Two
waiting keys are one more than a look takes, so an answer may be typed before its
question. In the window, one changeable and one read-only disk give every case of
the guards; the boot disk is where a refused action starts. The handle of a
partition between those of the two disks makes places in the list of handles and
places in the list of disks differ. With 8-bit numbers, units of two and blocks of two
bytes a MiB is 4 bytes and a TiB 16, so that the numbers typed reach every
refusal of `units.c` (the digits, the product, and the sum with the fraction) and
every rounding to blocks and MiB; they have every unit, and fractions that are
cut. In `window` three disks need seven lines and the list has four, the table
shows one to three rows of four, a menu two items of four, so that all of them
scroll; disks of one, two and three lines make heights matter, and tables with
and without notes end in different places. A field of five bytes holds a
character of three bytes and one of one, or four of one. The three setups divide
what would multiply: lists and tables that change, dialogs and a wipe under the
pointer, and text mode. Behaviours are not bounded:
sequences of edits, writes and keys are as long as TLC finds new states.

Every property of a passing run has been seen to fail under a plausible mistake
in the definitions it depends on. Those mistakes stand in the modules as
operators marked `Fault:`; nothing uses them.

## 4. What the checks show

* Edits keep the layout in which every logical partition has a free block before
  it, whatever is added and deleted in what order; the numbers a reader will give
  are the numbers on the screen; what `pt_free_space` offers `pt_add` takes. What
  was edited `pt_write` refuses in one case only: the table is still a GPT that was
  read with a usable area the disk has no room for, as on a disk that got shorter.
* A write of a GPT over two copies of one, of a plain MBR over an MBR, or a deletion is
  atomic for who looks at the disk, also when it is cut short, repeated, cut
  short again. The order "array, header, array, header, block 0" matters: the
  mutant that writes the arrays last breaks it.
* Half-written chains never give one block to two logical partitions, although
  links of an old and of a new chain mix: this rests on the extended partition
  staying in its place, since links count from its first block. With an extended
  partition that moves this is not claimed.
* No write, whole or partial, changes a block inside a partition of the table it
  writes, when that table is well laid out.
* A completed restore brings back every saved block over whatever was there, and
  with it the table, if all of it could be read when it was backed up; of a chain
  that broke off at least the partitions that were found.
* The rows, the summaries and the table on the screen agree with the disk after
  every action that succeeds or fails; no key sequence without a Y to a question
  loses a change; no repeated key writes.
* A wipe says "wiped" only of zeros, writes no zeros before the random pass has
  been over every block, and ends however often the user asks to stop and changes
  his mind. With one mouse, a click on Stop never answers the question it brings
  up, however chunks, reports and reads are interleaved.
* A size that is taken is the number that was typed, to the six decimals the code
  keeps; what is refused is too large. Of what the dialog of a new partition accepts
  `pt_add` refuses exactly the types 05, 0F and 85 and the GUID 0, typed by hand,
  and no place, size or role; what it proposes works
  when it is taken as it stands. A size copied from the screen never asks for more
  than there is.
* The window that is seen is the window that would be drawn anew, after any order
  of moves, dialogs, inputs and parts of a wipe drawn alone; a click takes what
  is seen at the tip of the arrow, but for one look when a wipe begins (below);
  what is selected is on the screen; a field
  never holds half a character and never outgrows its buffer.

### Disagreements found

1. `foreign_chain`, `ptwrite.c:138`. A chain out of disk order may have adjacent
   logical partitions. After any edit the record of the later one is put into the
   block before it: the last block of data of its neighbour.
2. `erase_data`, `ptwrite.c:248`. Deleting an MBR clears block 1 and the last block
   of the disk, also inside a partition that was deleted, whose data the manual
   says is not touched.
3. `type_ee`, `diskview.c:146`. Type EE is accepted for an MBR partition; the disk
   then reads as a damaged GPT.
4. `restore_gpt`, `ptwrite.c:384`. A GPT backed up while its primary header had no
   signature is taken for an MBR when it is restored, and the GPT just restored
   is cleared.
5. `stale_rows`, `view.c:53`. When the disk cannot be read again after a restore the
   rows stay while the partitions they index are gone, and the window draws them.
6. `two_extended`, `ptwrite.c:116`. Of several extended partitions reading follows the
   chain of the first, writing makes that of the last. Whoever edits such a disk
   of another tool and writes it is shown a table without its logical partitions.

Smaller observations have no run of their own. A GPT read from a disk that got
shorter keeps its usable area, and `pt_add` accepts a partition there, but
`pt_write` then refuses the table (`ptwrite.c:190`): the edits can only be given
up. A type 05, 0F or 85, or a GUID of zeros, may be typed for a new partition
(`diskview.c:145`); all questions are asked before `pt_add` refuses it. A backup
of a chain that breaks off, or that has an empty record in it, is made without a
word (`ptwrite.c:303`), though it is not the whole table. A rescan keeps the selected
disk "when it is still there" (`gui.c:213`), but finds it by its place in the list
of handles: with another disk plugged in or pulled out before it, a different one
is shown. `RescanKeepsDisk` therefore speaks of machines that are the same up to
the selected disk. A wipe looks for a click before it has drawn its box
(`diskview.c:470`), at the place Stop had in an earlier wipe (`gui.c:1209`): a press
there asks whether to stop though no Stop is seen, which is the one exception
`ClickTakesShown` makes. A wipe stopped before the first progress call says "stopped in
pass 0: partly overwritten" though nothing was, and one stopped at its very last
call says the same of a partition that is all zeros (`diskview.c:503`). An MBR
restored over a GPT, refused while it clears the GPT and made again, finds an MBR
and clears nothing more (`ptwrite.c:399`). A click on Stop counts "since the last
look" (`gui.c:1249`), but only the newest state of the button is kept, so one that
is shorter than the writing of a chunk is not seen. With two mice one press may
click twice: a mouse the firmware has nothing new of counts as released
(`pal_mouse_efi.c:163`), so `OnePressOneClick` is claimed, and checked, with one.

A few more came up with the screens. After a dialog the button that was under
the pointer before it stays highlighted until the pointer moves (`gui.c:685`).
The name of a new partition is asked for as one of up to 36 characters, but its
field has 64 bytes (`diskview.c:191`), so that fewer fit if they are not ASCII;
Rename has 112. The bar is drawn in disk order with a least width, so that the
end of a tiny partition is covered by the next one, and a click there takes the
one that is covered (`gui.c:806`): `ClickTakesShown` asks of the bar only that a
partition is seen where one is taken. The text list of disks does not scroll
(`main.c:26`), and the text screen keeps what is left of a box "Stop the wipe?"
that was answered with N. Sizes of a PiB and more are shown with a unit that
cannot be typed (`units.c:63`), and the largest numbers, ten at most, are
refused though they fit (`units.c:23`); the second check of `units.c:78` can
never refuse anything while units are powers of two, since the first one leaves
room for a fraction.

## 5. What is proved

Every theorem is for all values of the constants. Of the 40 properties the
passing runs check, all but `Ends` are theorems too. What they assume of the constants is
stated where the constants are declared and checked by TLC on every run:
sizes are natural numbers (`GeometryAssumption`, `SizesAssumption`,
`ImageAssumption`, `UnitsAssumption`), the tables read are tables with finitely
many partitions (`InputAssumption`), handles list a disk at most once
(`MachinesAssumption`), rows are of four kinds (`TablesAssumption`), texts are texts
(`TextsAssumption`), a block has as many bytes as divide a KiB or make a
multiple of it and fits into a MiB (`BlockAssumption`), fields and the parts of the
screen have room for something, a menu no more than the screen
(`FieldAssumption`, `ScreenAssumption`), and what the user is asked is a
question the program asks: the text a field begins with is whole characters that
fit it, the item a menu begins with is one of its own (`SetupsAssumption`). What a theorem assumes
besides is in its statement and named below, with the run that shows why.

### Edits (`EditingProofs`)

| Theorem | Property | Of the tables read |
|---|---|---|
| `TypeCorrect` | `TypeOK` | - |
| `LayoutCorrect` | `Layout` | laid out well |
| `RecordsSafe`, `ChainCorrect` | `RecordsOutside`, `ChainAscends` | laid out well |
| `NumberingCorrect` | `Numbering` | laid out well, numbered as `pt_read` does it |
| `OneActiveCorrect` | `OneActive` | at most one active partition, not the extended one |
| `EditsLocal` | `EditsAreLocal` | laid out well |

The inductive invariant is `TypeOK /\ Layout`. `RecordsOutside` and `ChainAscends`
are not inductive by themselves: where a record goes depends on all the
partitions before it, and only the free block that `Layout` keeps before each
logical partition makes the rule of `RecordOf` land outside (`RecordPlace`,
`LayoutChain`). The step lemma `NextLayout` has one case per operation; adding
rests on `AddTopLayout` and `AddLogicalLayout`, which need of the code only that
what it accepts lies in a gap (`GapAvoidsSpans`, `TopGapAvoids`,
`InsideAvoidsLogicals`); renumbering changes numbers only (`RenumberParts`,
`RenumberLayout`). The assumption on the tables read is not removable: run
`foreign_chain` is the counterexample without it. Numbers need the layout as
well: the number of a logical partition is one more than the count of those
before it, which says nothing if two begin at one block.

### Free areas, sizes and the dialog (`EditingProofs`)

| Theorem | Property | Besides |
|---|---|---|
| `FreeSpaceTrue` | `FreeSpaceFits` | tables read are laid out well and end on the disk |
| `ParsedExactly`, `RefusedTooLarge` | of `ParseSize` | - |
| `SizesTrue` | `SizesExact` | as `FreeSpaceTrue` |
| `DialogTrue` | `DialogAgrees` | tables read are laid out well, a GPT's area does not begin at block 0 and ends on the disk |
| `ProposalsTrue` | `ProposalsWork` | and the disk is smaller than a PiB |

An area is a gap with its ends rounded inwards, and the gaps `pt_add` looks for
are the same gaps; the invariant adds to Layout that the usable area lies on the
disk and after its first block. A size that is taken is exactly the number typed
and has not wrapped around; one in a known unit is refused only when it is too
large or among the last ten numbers. What rows show of a size is found by
dividing until the number is small, a recursion over the number: `Induction`
gives it as a sequence of divisions, and with that `SizesTrue` holds of units of
every factor. The bound of a PiB is that of the units that can be typed
(`units.c:63`).

### Written and read back (`ImageProofs`, `EditingProofs`)

* `RefusalsKnown` (`RefusedOnlyMisfit`): on a disk with room for a GPT
  (`RoomForGpt`: block 0, two copies and at least a block between them), edits of
  tables laid out well lead to a table that `pt_write` refuses only if it still has
  the usable area of a GPT that was read, and that area does not lie between the
  copies pt_write writes (`Misfit`, as on a disk that got shorter). The invariant
  says where the usable area came from (`AreaKnown`). Run `edit` starts from such a
  GPT, among others, and reaches the refusal.
* `ReadBackAlways` (`WriteReadBack`): if the tables read are laid out and numbered
  well and are plain (the partitions of an MBR have no names, and their type tells
  whether they are extended, as reading finds them) and no partition is given type
  EE, every table that edits make is read back as it is. Run `type_ee` is the
  counterexample without the condition on types. As the property says, it is about
  chains that reading follows to their end.
* `EditsMakeTables`: under these conditions on the tables read and the types, and if
  no partition of a GPT that was read has a record, every table that edits make is
  one the next part is about (`TableFits`).

`ImageProofs` has what both this and the next part need, for any table: after a
sequence of writes each block has what the last write to it put there
(`LastWrite` and the lemmas on pieces of sequences); no write of a table goes into
one of its partitions (`GptWork`, `MbrWork`); a GPT that was written has
two good copies; the chain that was written is walked record by record (the
recursive function of `ChainBlocks` is unfolded along the sorted logical
partitions, by induction on their place), and the numbers counted along it are
those the partitions had. It rests on `ChainAscends`: a reader that goes forward
only sees all of a chain that ascends.

### A write, wherever it is cut (`TableWriteProofs`)

| Theorem | Property |
|---|---|
| `PrimariesAlways` | `PrimariesAtOnce` |
| `RepairedAlways`, `NoOldGptAlways` | `Repaired`, `NoOldGpt` |
| `DataAlwaysKept` | `DataKept` |
| `OldOrNewHolds` | `OldOrNew`: TableWrite implements TableStore |
| `LogicalsAlwaysApart` | `LogicalsApart` |

They assume `Given`: room for a GPT, disks that are made of the blocks TableImage
knows (where no GPT header gives block 0 as the place of its array or of the other
copy), and tables that edits make (`TableFits`: of an MBR, the extended partition
on the disk, a free block before each logical partition, numbers as reading gives
them, no more logical partitions than reading follows, no type EE, partitions
apart). That edits make only such tables is a theorem of its own,
`EditsMakeTables` in EditingProofs, so what is proved of the table in memory
and what is proved of the blocks fit together. `LogicalsAlwaysApart` assumes
`GivenAt(E)` as well: the extended partition begins at E on every disk and in
every table, and what is on the disks to begin with has its records in order.
Where the extended partition moves, links of old records count from a different
block, and the property is not claimed. TLC has found `Given`, `GivenAt(2)` and
both invariants to hold on the instance of run `table_write`.

The inductive invariant is `Inv == TableInv /\ IdleInv /\ WriteInv`. The properties
speak of what is seen on the disk, and what is seen after the next write depends
on what is still to be written. `WriteInv` therefore carries the rest of the
write: what the disk will be once it is done (`Finished`), that none of its
blocks lies in a partition of the goal (`Spares`), and, of a safe write, its plan
(`Plan`): the writes to come are the end of that very sequence, and the disk
shows the old or the new table before each of them. `IdleInv` keeps what a safe
write that was cut leaves behind (`Held`), since a repetition starts there and
must be as safe as the first attempt. For the refinement, `Begin` maps to the
start of TableStore, `Step` to its change of what is seen (which may be none) or
to its end, `Fail` and `Restart` to giving up, and the rest to a message that goes.

For `LogicalsApart` the chains of old and new records are never compared at all.
`OrderInv` says of each record by itself, on the disk or still to be written, that
its partition lies after it and before the record it links to (`InOrder`), and
that is enough: whatever records a reader meets, the blocks of each partition
lie between two records of the walk (`ChainForward`, `ChainApart`).

### Backups (`BackupProofs`)

| Theorem | Property | Of what is backed up |
|---|---|---|
| `RestoredTheorem` | `Restored`: BackupRestore implements TableStore | `Signatures` |
| `ByteForByteTheorem`, `GptClearedTheorem` | `ByteForByte`, `GptCleared` | `Signatures` |
| `RestoreKeepsDataTheorem` | `RestoreKeepsData` | `Signatures`, `TablesApart` |
| `WrittenBacked` | | it is what a write leaves |

They assume `Given` of the disks: room for a GPT and blocks in order (`DiskOK`: a
sector with one extended partition at most, a primary header with its array
behind it and a place for the other copy that is clear of the array). Chains may
break off, and records may be empty, anywhere. Two hypotheses are about behaviours.
`Signatures`: a backup is taken for what it is. A GPT that is backed up has the
signature of its primary header, however damaged it is otherwise, and no extended
partition of an MBR begins in block 1 with the header of an old GPT in it. It is
what divides the theorems from the finding
of run `restore_gpt`, where the signature is gone, `ByteForByte` fails, and so
would the others. `TablesApart`: no block of a table that is backed up, its array
or a record, lies in one of its own partitions. `pt_backup` does not look at that,
and a restore of such a table does write into the partition. Both hold on all
behaviours of run `backup_restore`, and of every table that partmgr itself has
written: `WrittenBacked` shows, for every table a write may be given (those of
`EditsMakeTables`) and every such disk it is written over, that the primary header
has its signature, the file is the whole table without a gap, and no block of the
table lies in one of its partitions. What is left to assume is about tables of
other programs, and about disks on which a restore was cut.

The inductive invariant `Inv` says that what is in the file was made of a disk
that was there once (`Source`, `BackupOf`), and what is left of a restore: in its
first stage, each block of the table is back or among the blocks still to be
written (`Left` of `TableBlocks`); in the second, all are back, and each block
that is to be cleared is zero or still to come. The properties speak of the last
step only, but a restore starts from whatever a cut one has left, so the disk in
between must be known block by block. That a restore shows the table that was
saved rests on `RestoredTable`: a disk that has the blocks of a table shows this
table whatever its other blocks are. For a GPT that is the copy that is good
(`SameCopy`: the damaged one stays damaged, because its blocks are saved too). For a
chain it is an induction along the records (`SameWalk`, `ChainWhole`): all blocks
the reader looks at are saved, if the file is `Whole`. If it is not, the walk over
the restored disk still meets every record that was saved, in the same order,
unless an empty record between two of them was left out; after the last one it may
go on, but the numbers it gives from there are new ones. What is cleared of a GPT touches none of these blocks
(`ClearedApart`), because the records of a chain lie in their extended partition,
where nothing is cleared.

### Wipes and the mouse (`PtWipeProofs`)

* `WipeTypes`, `NeighboursSafe`, `RandomBeforeZeros`, `WipedEmpty`: for every disk,
  size of chunk and set of ranges. The inductive invariant (`IInv`: `Position`,
  `Progressed` and the properties) says what the two loops have done: in pass 1
  the first `done` blocks are random and the rest anything; in pass 2 the first
  `done` are zero and none is old.
* `ScreenWipes`: WipeScreen implements PtWipe, each step being a step of the wipe or
  a stutter; so `ScreenWipeTypes`, `ScreenNeighboursSafe`, `ScreenRandomBeforeZeros`
  and `ScreenWipedEmpty` hold with any keys, clicks and reports around the wipe.
  These are the forms that run `wipe` checks.
* `OneClick` (`OnePressOneClick`), assuming one mouse (`OneMouse`). The invariant
  says that once a press has had its click, the button can only be down, in the
  hand or in what reports have collected, when the window knows it to be down.
  With two mice it is false (section 4).

### The session (`SessionProofs`)

* `ReadOnlySafe` (`ReadOnlyKept`), `ChangesKept` (`NothingLostUnasked`),
  `NoRepeatedKeyWrites` (`OneKeyNeverWrites`), `WipeTrue` (`WipeSeesDisk`). The
  inductive invariant `IInv` says what a question that waits tells of the view
  behind it (`QuestionsHold`) and that a view without changes shows the table of
  its disk (`TableTrue`). It is needed because the answer is a step of its own:
  what was checked when the question was asked must still hold when Y comes,
  whatever disks were plugged in or pulled out meanwhile. `StepKeeps` is what one
  step may do; the action properties follow from it.
* `RowsTrue` (`RowsNameTheTable`: of a table that is loaded; run `stale_rows` shows
  rows left of one that is gone), `ScreenFresh` (`ViewFresh`), `RescanTrue`
  (`RescanKeepsDisk`: while the handles up to that of the selected disk stay what
  they are). Their invariant `ScreenInv` says that the disk shown is the one
  selected in the list of some machine, that the rows are those of its table with
  one of them selected, and that the kinds in the list are those on the disks. The
  list is made by going through the handles and the name of a disk by counting,
  so its lemmas are inductions over the place in a sequence.

### The screens (`WindowProofs`)

* `ScreenTheorem` (`ScreenTrue`), `FieldTheorem` (`FieldWhole`), `InViewTheorem`
  (`SelectedInView`) and `ClickTheorem` (`ClickTakesShown`), for screens, lists,
  menus, fields and alphabets of every size.

The inductive invariant `WindowInv` (theorem `WindowInvariant`) is what the code
keeps by hand. In the main loop the canvas is the picture of the window as it is,
and the lists are scrolled to what is selected; under a dialog the canvas is its
box over the dimmed screen the dialog has saved; while a partition is wiped it is
the picture with the box of the wipe, and the question to stop has saved exactly
that; between the start of a wipe and its box the canvas is still the window; and
the display is the canvas with the arrow over it, always. `ScreenTrue`
says nothing of the saved screen, but what is seen once a dialog is closed is
that. `SelectedInView` needs more than the selection: lists with items of
different heights are scrolled by repeated steps (`ListFits`, `Scrolls`), which ends
because an item alone fits, or is shown from its first line.

`FieldWhole` rests on UTF-8 itself: the bytes of a code point are one leading byte
and continuation bytes only (`Encode`), so the cursor, which moves from one leading
byte to the next, always stands between characters, and deleting what lies between
two such places leaves whole ones; a sequence of characters is unfolded by
induction on its length. `ClickTakesShown` compares two separate computations of
the code, where things are drawn and what a place belongs to; the proof goes
through the parts of the screen one by one and shows that the sums of heights are
the same sums.

### Only model-checked, and why

* `Ends`: liveness, which the proof system does not do.
* What a `violation` run refutes; `RecordsOutside` and `WriteReadBack` are proved
  under the condition that excludes the counterexample.

The library's induction theorems take operators, which the provers cannot
instantiate. `Induction` states the same with sets and functions: a set of
naturals that has 0 and the successor of each member is Nat (`NatSet`), a set of
naturals has a least member, and a function defined along a sequence of steps
exists. Whatever is shown by induction in these proofs is written as such a set.

## 6. Fairness

The specifications of the tables state safety only: nothing forces a user to
write, and a write may be cut. `ScreenSpec` assumes weak fairness of the look
between two chunks, of the question reading its keys, and of a chunk being
written or refused, because `pt_wipe` is a loop of one thread that waits for
nothing but the firmware's answer and the user's. Of the user it assumes that Esc
and Y are typed again and again while there is room for keys (strong fairness, as
the room comes and goes), because a question nobody answers stops the program by
design. `Ends` is therefore about a user who does come to an answer, but also one
who keeps asking to stop and keeps changing his mind: what makes the wipe end is
that every N is followed by a chunk.

## 7. Abstractions and assumptions

* A block is written whole or not at all; the blocks of an entry array are written
  one by one in increasing order, and a refused multi-block write has written a
  prefix. The firmware's cache is flushed by every write (`disks_efi.c:45`).
* Reading never fails, except in DiskSession for a disk that was pulled out.
* Data in partitions does not look like a header or a record of its own accord;
  what matters of old headers inside partitions is put there by the MC modules.
* Boot code, disk identifiers, GUIDs, attributes and names longer than their field
  are no part of the models. All GPTs have the same array size.
* Block numbers are unbounded (but for what a user types, `Units`). The 64-bit
  arithmetic of the code cannot wrap on disks the models stand for; disks smaller
  than their own entry array are left out.
* Tables with several extended partitions are started from in run `two_extended` only.
* Where a pointer is, is left out: a click may hit any button or none
  (`WipeScreen`), any disk or row (`DiskSession`); `Window` is where the place
  decides. Absolute pointers (tablets) and the right button are left out.
* In Window the screen is one column: what lies side by side (the buttons, the two
  lists, the columns of a row) lies one below the other. An action may end in any
  table of the setup, so the model allows more than the program does.
* In DiskSession the firmware goes on answering for a handle that was pulled out,
  with errors, and no medium is exchanged behind the same handle.

## 8. Not modelled

* Graphics and fonts (`gfx.c`, `pal_gfx_efi.c`): pixels, glyphs, clipping and colours.
  What is drawn where, and when it is shown, is in `Screen` and `Window`.
* The breaking of lines, titles, key bars, the placing of buttons and the columns of
  rows: layout without state.
* The platform layer (`src/src/pal`, without the pointer) and the C library:
  calls of the firmware and standard functions, modelled where a caller relies
  on them (UTF-8 in `Field`, the listing of disks in `DiskSession`). Checksums
  are the data they were made from.
* The notes about a table, names of types, GUIDs as texts, the speed and the time
  left of a wipe: formatting and tables of constants.
* Movement of the pointer and its scaling, tablets, the right button.
* Media changed in a reader while its disk is shown, and disks smaller than their
  own entry array: no document promises anything of them.
* Build, site and test tools.

## 9. Plan

Done, in the order of what a mistake would cost: editing, the blocks, writing,
their composition, backup and restore, wipe, the session, the pointer with the
screen of a wipe, sizes with the dialog of a new partition, the screens; and the
proofs of section 5 about all of these.

What could follow:

1. Reading errors of single blocks in `TableImage`, with the notes that tell of them.
2. A wipe, a write and a restore inside `DiskSession` as the modules that have their
   detail, instead of one step with any outcome.
3. Media exchanged behind one handle (`disks_efi.c:45`).

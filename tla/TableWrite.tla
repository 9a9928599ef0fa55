----------------------------- MODULE TableWrite -----------------------------
(***************************************************************************)
(* Write (write_table of diskview.c, pt_write of ptwrite.c): the table on  *)
(* the screen goes to the disk block by block. Any block may be refused by *)
(* the disk, and the power may go at any time; the screen then shows the   *)
(* table as it was, or what the next start reads.                          *)
(***************************************************************************)
EXTENDS TableImage

CONSTANTS
  Disks,    \* disks partmgr may be started on
  Tables    \* tables the user may make of them: kind, parts, first and last

VARIABLES
  disk,     \* the blocks
  table,    \* the table on the screen
  changed,  \* it has changes not written
  todo,     \* what is left to write
  said,     \* what the message line says of the last write
  safe,     \* the write under way began as a safe one (history)
  before,   \* the table the write found on the disk (history)
  goal      \* the table it writes (history)

vars == <<disk, table, changed, todo, said, safe, before, goal>>

\* Both copies of a GPT are good and where they belong.
Sound(d) ==
  LET t == Read(d) IN t.kind = "gpt" /\ t.pok /\ t.bok /\ t.blba = NBlocks - 1

\* They are copies of one table, and the backup survives a write of the
\* primary. A write cut between the two leaves good copies of two tables
\* (ptable.c:241-243 notes it), a damaged primary then shows the older one.
Twofold(d) ==
  Sound(d) /\ d[NBlocks - 1].parts = d[1].parts /\ d[NBlocks - 1].ents > 1 + ArrBlocks

\* Writes during which the disk shows the old table or the new one: a GPT
\* over one with two copies, an MBR without logical partitions over an MBR,
\* and the deletion of a table; without an old GPT behind an MBR.
SafeWrite(d, t) ==
  LET old == Read(d).kind
  IN  CASE t.kind = "gpt" -> Twofold(d)
        [] t.kind = "mbr" -> old = "mbr" /\ Extended(t.parts) = {}
        [] OTHER          -> old # "gpt" => ~Signed(d[1])

-----------------------------------------------------------------------------
Idle == todo = <<>>

\* pm_view_load: the disk is read again and unwritten changes are gone.
Reload(d) == table' = Read(d) /\ changed' = FALSE

Init ==
  /\ disk \in Disks
  /\ table = Read(disk)
  /\ changed = FALSE
  /\ todo = <<>>
  /\ said = "nothing"
  /\ safe = FALSE /\ before = Seen(disk) /\ goal = Seen(disk)

\* Edits in memory. They keep a hybrid MBR; a new table has none.
Change(t) ==
  /\ Idle
  /\ \E h \in IF t.kind = "gpt" /\ table.kind = "gpt" THEN {table.hybrid, FALSE} ELSE {FALSE} :
       table' = [table EXCEPT !.kind = t.kind, !.parts = t.parts, !.first = t.first,
                              !.last = t.last, !.hybrid = h]
  /\ changed' = TRUE
  /\ said' = "nothing"
  /\ UNCHANGED <<disk, todo, safe, before, goal>>

\* Write, confirmed with Y; a safe write that stopped is safe to repeat. A
\* table that does not fit the disk is refused.
Begin ==
  /\ Idle /\ changed /\ Writable(table)
  /\ todo' = Writes(disk, table)
  /\ safe' = (SafeWrite(disk, table) \/ (safe /\ goal = View(table)))
  /\ before' = Seen(disk) /\ goal' = View(table)
  /\ said' = "nothing"
  /\ UNCHANGED <<disk, table, changed>>

\* No write is under way any more; a safe one that stopped may be repeated.
Ended(d, repeat) ==
  /\ safe' = repeat
  /\ before' = Seen(d)
  /\ goal' = IF repeat THEN goal ELSE Seen(d)

\* The next block is written; after the last one the table is read back and
\* the message line says "Written."
Step ==
  /\ ~Idle
  /\ disk' = [disk EXCEPT ![Head(todo).at] = Head(todo).block]
  /\ todo' = Tail(todo)
  /\ IF Len(todo) = 1 THEN Reload(disk') /\ Ended(disk', FALSE) /\ said' = "written"
                      ELSE UNCHANGED <<table, changed, said, safe, before, goal>>

\* The disk refuses the block: "Not written". The changes stay on the screen.
Fail ==
  /\ ~Idle
  /\ todo' = <<>>
  /\ Ended(disk, safe)
  /\ said' = "not written"
  /\ UNCHANGED <<disk, table, changed>>

\* Power lost, or Discard answered with Y, and the disk opened again.
Restart ==
  /\ Reload(disk)
  /\ todo' = <<>>
  /\ Ended(disk, safe)
  /\ said' = "nothing"
  /\ UNCHANGED disk

Next ==
  \/ \E t \in Tables : Change(t)
  \/ Begin
  \/ Step
  \/ Fail
  \/ Restart

Spec == Init /\ [][Next]_vars
-----------------------------------------------------------------------------
(* Properties                                                              *)

Store == INSTANCE TableStore
           WITH Views <- [kind: {"none", "mbr", "gpt"}, parts: SUBSET Part], Others <- FALSE,
                seen <- Seen(disk), goal <- goal, writing <- todo # <<>>, safe <- safe,
                whole <- TRUE, said <- said

\* Writing implements the promise of TableStore: a write that says "Written."
\* left a disk that reads back as the table on the screen, and a safe write cut
\* short by a refused block or by the power, however often it is repeated, leaves
\* the old table or the new one.
OldOrNew == Store!StoreSpec

\* A write, whole or cut short, changes no block inside a partition of the
\* table it writes, even when that block looks like an old GPT header
\* (inside_partition, ptwrite.c:45-58). The extended partition only holds records.
DataKept ==
  [][todo # <<>> => \A p \in goal.parts : p.role # "extended" =>
       \A b \in p.start..Last(p) : disk'[b] = disk[b]]_vars

\* Whenever the disk is looked at, also between two records of the chain, the
\* logical partitions on it lie apart: records of the new chain and what is
\* left of older ones never give the same block to two partitions. (This is for
\* tables with the extended partition in one place: a link counts from it.)
LogicalsApart ==
  \A p, q \in Logicals(Seen(disk).parts) :
    p # q => ~Overlaps(p.start, Last(p), q.start, Last(q))

Done == Step /\ Len(todo) = 1

\* A completed write of a GPT leaves two good copies, the backup in the last
\* block, whatever was damaged or moved before; of anything else, it leaves
\* no GPT header for another system to find, except inside a partition.
Repaired == [][Done /\ goal.kind = "gpt" => Sound(disk')]_vars

NoOldGpt ==
  [][Done /\ goal.kind # "gpt" => \A b \in {1, NBlocks - 1} :
       Signed(disk'[b]) => InsidePartition(goal.parts, b)]_vars

\* While an MBR is written over an MBR, the primary and extended partitions
\* seen on the disk are all old or all new: they are in one block.
PrimariesAtOnce ==
  todo # <<>> /\ goal.kind = "mbr" /\ before.kind = "mbr" =>
    \E v \in {before, goal} :
      Seen(disk).kind = "mbr" /\ NonLogical(Seen(disk).parts) = NonLogical(v.parts)
=============================================================================

--------------------------- MODULE BackupRestore ---------------------------
(***************************************************************************)
(* Backup and restore of a table (pt_backup and pt_restore of ptwrite.c,   *)
(* backup and restore of diskview.c). A backup is a file with the blocks   *)
(* that make the table; a restore writes them back one extent after the    *)
(* other and, for a backup of an MBR over a GPT, then clears the GPT. The  *)
(* disk may refuse any block and the power may go at any time.             *)
(***************************************************************************)
EXTENDS TableImage

CONSTANT Disks       \* what other programs, or Write, may leave on the disk

VARIABLES
  disk,     \* the blocks
  file,     \* the backup file
  stage,    \* "idle", or what a restore is doing: "extents", "clearing"
  todo,     \* what is left to write at this stage
  cur,      \* the table the restore found on the disk
  said,     \* what the message line says of the last restore
  goal      \* the table of the backup being restored (history)

vars == <<disk, file, stage, todo, cur, said, goal>>

NoFile  == [tag |-> "none"]
Damaged == [tag |-> "damaged"]     \* it fails the checks of pt_restore

-----------------------------------------------------------------------------
(* The blocks of a table                                                   *)

\* An extent: count blocks from lba on, cut to the disk.
Extent(d, lba, count) ==
  [i \in 1..(IF lba >= NBlocks THEN 0 ELSE IF count > NBlocks - lba THEN NBlocks - lba ELSE count) |->
     Put(lba + i - 1, d[lba + i - 1])]

\* Blocks in the order of the disk.
Ascending(B) ==
  [i \in 1..Cardinality(B) |-> CHOOSE b \in B : Cardinality({c \in B : c < b}) = i - 1]

\* Fault: of the chain only the first record is saved.
ChainExtentsFirst(d, S) == IF Extended(S) = {} THEN <<>> ELSE Extent(d, ChainHead(S), 1)

\* The records of the chain that are on the disk, in the order of the chain.
ChainRecordBlocks(S) == ({e.start : e \in Extended(S)} \cup {l.ebr : l \in Logicals(S)}) \cap Blocks

ChainExtents(d, S) ==
  LET at == Ascending(ChainRecordBlocks(S)) IN [i \in 1..Len(at) |-> Put(at[i], d[at[i]])]

\* What pt_backup saves of the table t. (An extent it leaves out because it
\* has one that begins there would be the same blocks once more.)
Extents(d, t) ==
  Extent(d, 0, 1) \o
    (IF t.kind = "gpt"
       THEN Extent(d, 1, 1) \o Extent(d, t.pent, ArrBlocks) \o Extent(d, t.blba, 1)
              \o (IF t.bent # 0 THEN Extent(d, t.bent, ArrBlocks) ELSE <<>>)
       ELSE ChainExtents(d, t.parts))

\* pt_restore takes a backup for one of a GPT by the signature in its block 1.
HasGpt(f) == \E i \in 1..Len(f.writes) : f.writes[i].at = 1 /\ Signed(f.writes[i].block)

\* The header and the array of each copy of the GPT t.
PrimaryBlocks(t) == 1..(t.pent + ArrBlocks - 1)
BackupBlocks(t)  == IF t.blba < ArrBlocks THEN {} ELSE (t.blba - ArrBlocks)..t.blba

Clear(B) == LET at == Ascending(B) IN [i \in 1..Len(at) |-> Put(at[i], Zero)]

\* Fault: the partitions that were restored are not looked at.
ClearWritesAnywhere(t, S) ==
  Clear({b \in PrimaryBlocks(t) : b < NBlocks}) \o Clear({b \in BackupBlocks(t) : b < NBlocks})

\* Fault: only the primary copy is cleared.
ClearWritesPrimary(t, S) == Clear({b \in PrimaryBlocks(t) : b < NBlocks /\ ~InsidePartition(S, b)})

\* The GPT t goes, except where a partition of S lies.
ClearWrites(t, S) ==
  Clear({b \in PrimaryBlocks(t) : b < NBlocks /\ ~InsidePartition(S, b)})
    \o Clear({b \in BackupBlocks(t) : b < NBlocks /\ ~InsidePartition(S, b)})

-----------------------------------------------------------------------------
Idle == stage = "idle"

Init ==
  /\ disk \in Disks /\ file = NoFile
  /\ stage = "idle" /\ todo = <<>> /\ cur = NoTable(FALSE)
  /\ said = "nothing" /\ goal = Seen(disk)

\* Reading the chain of the MBR on d looks at no block that is not saved. A chain
\* that breaks off is saved without the block where the next record was missed.
Whole(d) ==
  LET t == Read(d)
  IN  t.kind = "mbr" => \A e \in FirstExtended(t.parts) : \A b \in ChainBlocks(d, e) :
        {b, Follow(d, e, b)} \cap Blocks \subseteq ChainRecordBlocks(t.parts)

\* A record that is not saved, as it describes no partition, links to one that is.
Gap(d) ==
  LET t == Read(d)
  IN  t.kind = "mbr" /\ \E e \in FirstExtended(t.parts) : \E b, c \in ChainBlocks(d, e) :
        b < c /\ b \notin ChainRecordBlocks(t.parts) /\ c \in ChainRecordBlocks(t.parts)

\* B: the table on the disk is saved, as much of it as was read. A disk without a
\* table has nothing to save, and a file that was there keeps its contents.
\* (What was on the disk beside the blocks of the file is history.)
Backup ==
  /\ Idle
  /\ Read(disk).kind # "none"
  /\ file' = [tag |-> "backup", writes |-> Extents(disk, Read(disk)),
               view |-> Seen(disk), whole |-> Whole(disk), gap |-> Gap(disk)]
  /\ said' = "nothing"
  /\ UNCHANGED <<disk, stage, todo, cur, goal>>

\* The file is cut to nothing before it is written: an error or a power cut
\* leaves part of one.
BackupFails ==
  /\ Idle
  /\ Read(disk).kind # "none"
  /\ file' = Damaged
  /\ said' = "nothing"
  /\ UNCHANGED <<disk, stage, todo, cur, goal>>

\* The disk is used, by partmgr or by another system.
Use ==
  /\ Idle
  /\ disk' \in Disks
  /\ goal' = Seen(disk')
  /\ said' = "nothing"
  /\ UNCHANGED <<file, stage, todo, cur>>

\* S, confirmed with Y: the file has passed every check.
Begin ==
  /\ Idle
  /\ file.tag = "backup"
  /\ stage' = "extents" /\ todo' = file.writes
  /\ cur' = Read(disk)
  /\ goal' = file.view
  /\ said' = "nothing"
  /\ UNCHANGED <<disk, file>>

\* No restore is under way any more.
Ended(d, message) ==
  /\ stage' = "idle" /\ todo' = <<>> /\ cur' = NoTable(FALSE)
  /\ goal' = Seen(d)
  /\ said' = message

WriteNext == disk' = [disk EXCEPT ![Head(todo).at] = Head(todo).block]

\* What is left when the extents are written and the disk is d.
Clearing(d) ==
  IF ~HasGpt(file) /\ cur.kind = "gpt" THEN ClearWrites(cur, Read(d).parts) ELSE <<>>

\* The next block of the backup is written; after the last one the disk is
\* read again to see what to clear.
StepExtents ==
  /\ stage = "extents"
  /\ WriteNext
  /\ IF Len(todo) > 1 THEN todo' = Tail(todo) /\ UNCHANGED <<stage, cur, said, goal>>
     ELSE IF Clearing(disk') # <<>>
       THEN stage' = "clearing" /\ todo' = Clearing(disk') /\ UNCHANGED <<cur, said, goal>>
     ELSE Ended(disk', "written")
  /\ UNCHANGED file

StepClearing ==
  /\ stage = "clearing"
  /\ WriteNext
  /\ IF Len(todo) > 1 THEN todo' = Tail(todo) /\ UNCHANGED <<stage, cur, said, goal>>
                      ELSE Ended(disk', "written")
  /\ UNCHANGED file

\* The disk refuses the block.
Fail ==
  /\ ~Idle
  /\ Ended(disk, "not written")
  /\ UNCHANGED <<disk, file>>

\* The power goes.
PowerCut ==
  /\ ~Idle
  /\ Ended(disk, "nothing")
  /\ UNCHANGED <<disk, file>>

Next == Backup \/ BackupFails \/ Use \/ Begin \/ StepExtents \/ StepClearing \/ Fail \/ PowerCut

Spec == Init /\ [][Next]_vars
-----------------------------------------------------------------------------
(* Properties                                                              *)

Store == INSTANCE TableStore
           WITH Views <- [kind: {"none", "mbr", "gpt"}, parts: SUBSET Part], Others <- TRUE,
                seen <- Seen(disk), goal <- goal, writing <- ~Idle, safe <- FALSE,
                whole <- Idle \/ file.whole, said <- said

Done == ~Idle /\ said' = "written"

\* What a restore brings back of any table: its kind, the partitions of block 0
\* and, unless the file has a gap, every logical partition.
BroughtBack ==
  LET now == Seen(disk')
  IN  /\ now.kind = goal.kind /\ NonLogical(now.parts) = NonLogical(goal.parts)
      /\ ~file.gap => goal.parts \subseteq now.parts

\* A restore implements the promise of TableStore: when it says "Restored", the
\* disk shows the table that was backed up, whatever was on it before and
\* whatever an earlier restore cut short had left. The backup of a chain that
\* broke off (an earlier restore cut short leaves one) is not the whole table:
\* where a record was missing the restored chain goes on into whatever record
\* the disk has there, so that more logical partitions may be seen, never fewer.
\* Only after a gap, an empty record that pt_backup leaves out (ptwrite.c:303-308), may
\* logical partitions be lost.
Restored == Store!StoreSpec /\ [][Done => BroughtBack]_vars

\* "Restored byte for byte" (README.md:31): every block of the backup is on the
\* disk at the end, also those the clearing of a GPT goes over
\* (ptwrite.c:397-411).
ByteForByte ==
  [][Done => \A i \in 1..Len(file.writes) :
       disk'[file.writes[i].at] = file.writes[i].block]_vars

\* When an MBR has been restored over a GPT, none of its headers is left for
\* another system to find, except inside a partition that the disk then shows.
GptCleared ==
  [][Done /\ cur.kind = "gpt" /\ goal.kind = "mbr" =>
       \A b \in {1, cur.blba} \cap Blocks :
         Signed(disk'[b]) => InsidePartition(Seen(disk').parts, b)]_vars

\* A restore, whole or cut short, changes no block inside a partition of the
\* backup, even where the GPT it clears was. A file with a gap is left out: a
\* logical partition that is lost is not spared when the GPT is cleared.
RestoreKeepsData ==
  [][~Idle /\ ~file.gap => \A p \in goal.parts : p.role # "extended" =>
       \A b \in (p.start..Last(p)) \cap Blocks : disk'[b] = disk[b]]_vars
=============================================================================

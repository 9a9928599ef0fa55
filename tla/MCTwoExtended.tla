--------------------------- MODULE MCTwoExtended ---------------------------
(***************************************************************************)
(* TableWrite on an MBR disk of another tool with two extended partitions, *)
(* each with its chain. partmgr reads the chain of the first only, and the *)
(* user deletes one of its two logical partitions.                         *)
(***************************************************************************)
EXTENDS MCTableWrite

ExtOne == P(1, "extended", 2, 5, 5, 0)
ExtTwo == P(2, "extended", 7, 5, 5, 0)

OneKept == {ExtOne, ExtTwo, L(5, 3, 1, 2)}
Both    == OneKept \cup {L(6, 6, 1, 5)}

\* Each extended partition as it would be alone on the disk.
FirstChain  == With(T("mbr", Both \ {ExtTwo}))
SecondChain == With(T("mbr", {ExtTwo, L(5, 9, 2, 7)}))

MCForeignDisk ==
  {[b \in Blocks |->
      IF b = 0 THEN Sector({Entry(ExtOne), Entry(ExtTwo)})
      ELSE IF b < ExtTwo.start THEN FirstChain[b] ELSE SecondChain[b]]}
MCForeignTables == {T("mbr", OneKept)}

\* "the table is written, read back from the disk and shown again" (User Manual,
\* 482; pm_view_load after pt_write, diskview.c:394-401): after "Written." the
\* screen shows the table that was written.
WrittenIsRead == [][Done => View(table') = goal]_vars
=============================================================================

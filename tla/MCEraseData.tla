---------------------------- MODULE MCEraseData ----------------------------
(***************************************************************************)
(* TableWrite when the table of an MBR disk is deleted: its one partition  *)
(* reaches the last block, as partmgr itself makes it from a free area.    *)
(***************************************************************************)
EXTENDS MCTableWrite

ToTheEnd == {P(1, "primary", 2, 8, 7, 0)}

MCMbrDisk == {With(T("mbr", ToTheEnd))}
MCDelete  == {T("none", {}), T("mbr", ToTheEnd), T("mbr", Simple)}

\* "After Write the disk looks empty to every system; the data of the
\* partitions is not touched" (User Manual 6.7, erase in ptwrite.c:239-240):
\* deleting the table changes no block of the partitions it had.
DeletedDataKept ==
  [][todo # <<>> /\ goal.kind = "none" => \A p \in before.parts : p.role # "extended" =>
       \A b \in p.start..Last(p) : disk'[b] = disk[b]]_vars
=============================================================================

--------------------------- MODULE MCEditAndWrite ---------------------------
(***************************************************************************)
(* Edits, what the New partition dialog makes of them and the table        *)
(* written and read back, on nine blocks with the tables of MCPtEdit to    *)
(* start from. A unit is two of the one below it and a number has eight    *)
(* bits, so that a MiB is 4 bytes, a block 2, and 16 TiB are too many.     *)
(***************************************************************************)
EXTENDS MCPtEdit, EditAndWrite, NewPartition

MCStartTexts ==
  {Number(1, 0, "none", "none"), Number(1, 55, "M", "iB"), Number(4, 0, "S", "none"),
   Number(13, 0, "B", "none"), Number(127, 99, "K", "B"), Number(249, 0, "B", "none"),
   Number(16, 0, "T", "iB"), Rest, Word}

MCSizeTexts ==
  {Number(0, 49, "K", "none"), Number(2, 79, "K", "iB"), Number(1, 25, "G", "none"),
   Number(3, 0, "S", "other"), Number(249, 99, "G", "none"), Number(15, 99, "T", "none"), Rest}
=============================================================================

------------------------------ MODULE MCPtWipe ------------------------------
(* A disk of five blocks wiped two blocks at a time: partitions as long as a *)
(* chunk and one block longer, and one that the disk is too short for, with  *)
(* one mouse, read through the firmware, by partmgr or not at all.           *)
EXTENDS WipeScreen

R(s, n) == [start |-> s, count |-> n]

MCRanges == {R(1, 3), R(1, 2), R(3, 3)}

MCAttached ==
  [Mice -> {[driven |-> TRUE, path |-> TRUE, usb |-> FALSE],
            [driven |-> FALSE, path |-> FALSE, usb |-> TRUE]}]
=============================================================================

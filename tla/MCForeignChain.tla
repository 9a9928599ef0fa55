---------------------------- MODULE MCForeignChain ----------------------------
(***************************************************************************)
(* PtEdit on an MBR disk another tool partitioned: the logical partition   *)
(* made first is the last one on the disk and is described by the record   *)
(* in the first block of the extended partition; the one made after it     *)
(* lies before it, with its record in front, and ends where it begins.     *)
(* pt_read takes this chain without a remark.                              *)
(***************************************************************************)
EXTENDS MCPtEdit

MCOutOfOrder ==
  {[kind |-> "mbr", first |-> 0, last |-> 0,
    parts |-> {P(1, "extended", 2, 6, 15, FALSE, 0),
               P(5, "logical", 6, 2, 7, FALSE, 2),
               P(6, "logical", 4, 2, 7, FALSE, 3)}]}
=============================================================================

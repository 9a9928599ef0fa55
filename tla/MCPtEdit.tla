------------------------------ MODULE MCPtEdit ------------------------------
(***************************************************************************)
(* PtEdit on nine blocks, 2 blocks per MiB. The MBR limit cuts the last    *)
(* block off. The disk starts without a table, with a GPT, with the GPT of *)
(* a disk that was a block longer (its usable area ends a block late, and  *)
(* a partition added there cannot be written), or with an MBR whose second *)
(* logical partition has its record further away than the block before it, *)
(* as other tools leave it.                                                *)
(***************************************************************************)
EXTENDS PtEdit

P(num, role, start, size, type, active, ebr) ==
  [num |-> num, role |-> role, start |-> start, size |-> size, type |-> type,
   active |-> active, ebr |-> ebr, name |-> "unnamed"]

Blank == [kind |-> "none", parts |-> {}, first |-> 0, last |-> 0]

ForeignMbr ==
  [kind |-> "mbr", first |-> 0, last |-> 0,
   parts |-> {P(2, "primary", 1, 1, 7, TRUE, 0),
              P(1, "extended", 2, 6, 15, FALSE, 0),
              P(5, "logical", 3, 1, 7, FALSE, 2),
              P(6, "logical", 6, 2, 7, FALSE, 4)}]

ForeignGpt ==
  [kind |-> "gpt", first |-> 3, last |-> 6, parts |-> {P(2, "primary", 4, 2, 7, FALSE, 0)}]

ShortGpt ==
  [kind |-> "gpt", first |-> 3, last |-> 7, parts |-> {P(1, "primary", 4, 2, 7, FALSE, 0)}]

MCReadTables == {Blank, ForeignMbr, ForeignGpt, ShortGpt}
=============================================================================

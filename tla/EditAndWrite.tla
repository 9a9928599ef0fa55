---------------------------- MODULE EditAndWrite ----------------------------
(***************************************************************************)
(* Every table that edits can produce, written and read back: what ptedit.c *)
(* accepts is what ptwrite.c can put on the disk and ptable.c finds there. *)
(***************************************************************************)
EXTENDS PtEdit, TableImage

\* The table as pt_write takes it. Edits keep no hybrid MBR here.
Current == [kind |-> kind, parts |-> parts, first |-> first, last |-> last,
            hybrid |-> FALSE, blba |-> 0]

\* The disk the table was read from, as partmgr itself would have written it.
NewDisk == [b \in Blocks |-> IF b \in {0, 1} THEN Zero ELSE Data]
Written == AfterAll(NewDisk, Writes(NewDisk, Current))

\* What a user sees of a table: everything but where the records are.
Shown(k, S) == [kind |-> k, parts |-> {[p EXCEPT !.ebr = 0] : p \in S}]

\* The usable area of the GPT t is not one between the copies pt_write makes,
\* as on a disk that got shorter after it was written.
Misfit(t) ==
  t.kind = "gpt" /\ ~(2 + ArrBlocks <= t.first /\ t.first <= NewLast /\ t.last <= NewLast)

\* Edits that were all accepted are refused by pt_write (ptwrite.c:188-192) only
\* in a GPT that was read with a usable area that the disk has no room for (it
\* is kept, and pt_add accepts a partition there, ptedit.c:233): never in
\* another table, nor in a new one made in its place.
RefusedOnlyMisfit ==
  changed /\ ~Writable(Current) =>
    \E t \in ReadTables : Misfit(t) /\ kind = "gpt" /\ first = t.first /\ last = t.last

\* Whatever the edits, the table written and read back is the one on the
\* screen: kind, places, types, numbers, names and flags, the numbers of the
\* logical partitions included, which reading counts along the chain. (Of the
\* up to 255 logical partitions that edits accept, reading finds 128.)
WriteReadBack ==
  changed /\ Writable(Current) /\ Cardinality(Logicals(parts)) <= MaxRecords =>
    LET t == Read(Written) IN Shown(t.kind, t.parts) = Shown(kind, parts)
=============================================================================

------------------------------- MODULE PtEdit -------------------------------
(***************************************************************************)
(* The partition table in memory and the operations of ptedit.c on it.     *)
(* Nothing here touches the disk: ptwrite.c writes the result, and places  *)
(* the extended boot records (EBRs) of the logical partitions by the rule  *)
(* RecordOf of Parts.                                                      *)
(*                                                                         *)
(* An operation that ptedit.c refuses returns a message and leaves the     *)
(* table as it was, so an action here is the operation when it is not      *)
(* refused: its guards are the negated refusals, in the code's order.      *)
(***************************************************************************)
EXTENDS Parts

CONSTANTS
  Align,       \* blocks per MiB (pt_align)
  MbrLimit,    \* last block an MBR entry can address (MBR_LIMIT)
  ChsLimit,    \* last block within the reach of CHS (0xFFFFFF)
  MaxEntries,  \* entries of a GPT array
  MaxSpans,    \* spans add_logical has room for (the array g[512])
  Starts,      \* first blocks a user may ask for
  Sizes,       \* sizes a user may ask for, in blocks
  Types,       \* type values a user may ask for (MBR type bytes, GPT types)
  ReadTables   \* tables pt_read may have found on the disk

Table == [kind: {"none", "mbr", "gpt"}, parts: SUBSET Part,
          first: Nat, last: Nat]

ASSUME GeometryAssumption ==
  /\ NBlocks \in Nat \ {0} /\ Align \in Nat \ {0} /\ ArrBlocks \in Nat \ {0}
  /\ MbrLimit \in Nat /\ ChsLimit \in Nat /\ MaxEntries \in Nat /\ MaxSpans \in Nat

ASSUME InputAssumption ==
  /\ Starts \subseteq Nat /\ Sizes \subseteq Nat /\ Types \subseteq Nat
  /\ "unnamed" \in Names
  /\ \A t \in ReadTables : t \in Table /\ IsFiniteSet(t.parts)

VARIABLES
  kind,     \* "none", "mbr" or "gpt"
  parts,    \* the partitions
  first,    \* GPT: first usable block
  last,     \* GPT: last usable block
  changed   \* anything changed since the table was read

vars == <<kind, parts, first, last, changed>>

-----------------------------------------------------------------------------
(* Free space. A span is a pair <<first, last>> of blocks, both included.  *)

Covered(b, spans) == \E s \in spans : s[1] <= b /\ b <= s[2]

\* The maximal runs of blocks of lo..hi that no span covers.
Gaps(lo, hi, spans) ==
  {g \in (lo..hi) \X (lo..hi) :
     /\ g[1] <= g[2]
     /\ \A b \in g[1]..g[2] : ~Covered(b, spans)
     /\ g[1] = lo \/ Covered(g[1] - 1, spans)
     /\ g[2] = hi \/ Covered(g[2] + 1, spans)}

LastMbr == IF NBlocks <= MbrLimit THEN NBlocks - 1 ELSE MbrLimit

TopGaps ==
  LET spans == {<<p.start, Last(p)>> : p \in NonLogical(parts)}
  IN  IF kind = "gpt" THEN Gaps(first, last, spans) ELSE Gaps(1, LastMbr, spans)

\* Fault: a logical partition does not reserve the block before it.
LogicalGapsNoRecord(e) ==
  Gaps(e.start, Last(e),
       {<<e.start, e.start>>} \cup {<<l.start, Last(l)>> : l \in Logicals(parts)})

\* Inside the extended partition e its first block is reserved for the first
\* record, and each logical partition takes the block before it as well.
LogicalGaps(e) ==
  Gaps(e.start, Last(e),
       {<<e.start, e.start>>} \cup {<<l.start - 1, Last(l)>> : l \in Logicals(parts)})

RoundUp(v) == ((v + Align - 1) \div Align) * Align

\* Fault: no block is left for the record of a logical partition.
FreeAreasNoRecord(gaps, reserve, logical) ==
  {[start |-> RoundUp(g[1]), last |-> g[2], logical |-> logical] :
     g \in {h \in gaps : h[2] - RoundUp(h[1]) + 1 >= Align}}

\* What pt_free_space offers: areas of at least 1 MiB starting on a 1 MiB
\* boundary; inside the extended partition one block is left for the record.
FreeAreas(gaps, reserve, logical) ==
  {[start |-> RoundUp(g[1] + reserve), last |-> g[2], logical |-> logical] :
     g \in {h \in gaps : h[2] - RoundUp(h[1] + reserve) + 1 >= Align}}

FreeSpace ==
  IF kind = "none" THEN {}
  ELSE FreeAreas(TopGaps, 0, FALSE)
         \cup UNION {FreeAreas(LogicalGaps(e), 1, TRUE) : e \in FirstExtended(parts)}

-----------------------------------------------------------------------------
(* Operations                                                              *)

LastUsable == IF NBlocks > 2 * ArrBlocks + 3 THEN NBlocks - 2 - ArrBlocks ELSE 0

\* pt_new: an empty table of the given kind ("none" deletes the table).
New(k) ==
  /\ kind'    = k
  /\ parts'   = {}
  /\ first'   = IF k = "gpt" THEN 2 + ArrBlocks ELSE 0
  /\ last'    = IF k = "gpt" THEN LastUsable ELSE 0
  /\ changed' = TRUE

\* Every other operation leaves the kind and the usable area as they are.
Edit(S) == parts' = S /\ changed' = TRUE /\ UNCHANGED <<kind, first, last>>

\* The lowest number from 1 to n that no partition has (free_primary_slot,
\* the loop of add_gpt).
IsFreeNum(k, n, S) == k \in 1..n /\ k \notin Nums(S) /\ \A m \in 1..(k - 1) : m \in Nums(S)

\* What the caller of pt_add fills in; the operation assigns the rest.
Request(start, size, type) ==
  [num |-> 0, role |-> "primary", start |-> start, size |-> size, type |-> type,
   active |-> FALSE, ebr |-> 0, name |-> "unnamed"]

Requests ==
  [num: {0}, role: {"primary"}, start: Starts, size: Sizes, type: Types,
   active: {FALSE}, ebr: {0}, name: {"unnamed"}]

\* Fault: a request of no blocks is accepted.
AcceptableEmpty(p) == kind # "none" /\ Last(p) < NBlocks /\ p.type # 0

\* The checks of pt_add common to all roles; a type of 0 is "no type chosen".
Acceptable(p) == kind # "none" /\ p.size # 0 /\ Last(p) < NBlocks /\ p.type # 0

\* Fault: the usable area of the GPT is not looked at.
FitsGptAnywhere(p) ==
  /\ kind = "gpt"
  /\ Acceptable(p)
  /\ \A q \in parts : ~Overlaps(p.start, Last(p), q.start, Last(q))

FitsGpt(p) ==
  /\ kind = "gpt"
  /\ Acceptable(p)
  /\ first <= p.start /\ Last(p) <= last
  /\ \A q \in parts : ~Overlaps(p.start, Last(p), q.start, Last(q))

AddGpt ==
  \E p \in Requests, n \in 1..MaxEntries, name \in Names :
    /\ FitsGpt(p)
    /\ IsFreeNum(n, MaxEntries, parts)
    /\ Edit(parts \cup {[p EXCEPT !.num = n, !.name = name]})

AcceptableMbr(p) ==
  kind = "mbr" /\ Acceptable(p) /\ p.type \notin ExtTypes /\ Last(p) <= MbrLimit /\ p.start # 0

FitsPrimary(p) ==
  /\ AcceptableMbr(p)
  /\ \A q \in NonLogical(parts) : ~Overlaps(p.start, Last(p), q.start, Last(q))

AddPrimary ==
  \E p \in Requests, n \in 1..4 :
    /\ FitsPrimary(p)
    /\ IsFreeNum(n, 4, parts)
    /\ Edit(Renumber(parts \cup {[p EXCEPT !.num = n]}))

RoomForSpans == 2 * Cardinality(parts) + 2 <= MaxSpans

\* A logical partition inside the extended partition that exists.
FitsInside(p, e, g) ==
  /\ AcceptableMbr(p)
  /\ e.start < p.start /\ Last(p) <= Last(e)
  /\ g[1] < p.start /\ Last(p) <= g[2]

AddLogicalInside ==
  /\ RoomForSpans
  /\ \E e \in FirstExtended(parts) : \E g \in LogicalGaps(e) : \E p \in Requests :
       /\ FitsInside(p, e, g)
       /\ Edit(Renumber(parts \cup
                  {[p EXCEPT !.num = 99, !.role = "logical", !.ebr = g[1]]}))

\* The extended partition add_logical makes in the free area g: all of it,
\* from the first 1 MiB boundary.
NewExtended(g, n) ==
  [num |-> n, role |-> "extended", start |-> RoundUp(g[1]), size |-> g[2] - RoundUp(g[1]) + 1,
   type |-> IF g[2] > ChsLimit THEN 15 ELSE 5, active |-> FALSE, ebr |-> 0, name |-> "unnamed"]

\* A logical partition where no extended one exists: it is created over the
\* whole free area, and its first block holds the first record.
FitsNew(p, g) ==
  /\ AcceptableMbr(p)
  /\ g[1] <= p.start /\ Last(p) <= g[2]
  /\ RoundUp(g[1]) < p.start

AddLogicalNew ==
  /\ Extended(parts) = {}
  /\ RoomForSpans
  /\ \E n \in 1..4, g \in TopGaps, p \in Requests :
       /\ FitsNew(p, g)
       /\ IsFreeNum(n, 4, parts)
       /\ Edit(Renumber(parts \cup
                  {NewExtended(g, n),
                   [p EXCEPT !.num = 99, !.role = "logical", !.ebr = RoundUp(g[1])]}))

\* Fault: the logical partitions stay when the extended one goes.
DeleteKeepsLogicals(p) ==
  /\ p \in parts
  /\ Edit(Renumber(parts \ {p}))

\* Fault: the logical partitions left keep their numbers.
DeleteKeepsNumbers(p) ==
  /\ p \in parts
  /\ Edit((parts \ {p}) \ (IF p.role = "extended" THEN Logicals(parts) ELSE {}))

\* Fault: deleting a logical partition cuts the chain after it.
DeleteCutsChain(p) ==
  /\ p \in parts
  /\ Edit(Renumber((parts \ {p}) \ {l \in Logicals(parts) : l.start > p.start}))

\* pt_delete: the extended partition takes its logical ones with it.
Delete(p) ==
  /\ p \in parts
  /\ Edit(Renumber((parts \ {p}) \ (IF p.role = "extended" THEN Logicals(parts) ELSE {})))

SetType(p, type) ==
  /\ p \in parts
  /\ type # 0
  /\ kind # "gpt" => ((type \in ExtTypes) <=> (p.role = "extended"))
  /\ Edit((parts \ {p}) \cup {[p EXCEPT !.type = type]})

\* Only names of at most 36 UTF-16 units are in Names: longer ones are refused.
SetName(p, name) ==
  /\ p \in parts
  /\ kind = "gpt"
  /\ Edit((parts \ {p}) \cup {[p EXCEPT !.name = name]})

\* Fault: the partition that was active stays so.
SetActiveKeeps(p, on) ==
  /\ p \in parts
  /\ kind = "mbr"
  /\ p.role # "extended"
  /\ Edit((parts \ {p}) \cup {[p EXCEPT !.active = on]})

\* Setting the active flag clears it on the others; clearing it does not.
SetActive(p, on) ==
  /\ p \in parts
  /\ kind = "mbr"
  /\ p.role # "extended"
  /\ Edit({IF q = p THEN [q EXCEPT !.active = on]
            ELSE IF on THEN [q EXCEPT !.active = FALSE]
            ELSE q : q \in parts})

-----------------------------------------------------------------------------
Load(t) ==
  /\ kind = t.kind /\ parts = t.parts /\ first = t.first /\ last = t.last
  /\ changed = FALSE

Init == \E t \in ReadTables : Load(t)

Next ==
  \/ \E k \in {"none", "mbr", "gpt"} : New(k)
  \/ AddGpt
  \/ AddPrimary
  \/ AddLogicalInside
  \/ AddLogicalNew
  \/ \E p \in parts : Delete(p)
  \/ \E p \in parts, y \in Types : SetType(p, y)
  \/ \E p \in parts, n \in Names : SetName(p, n)
  \/ \E p \in parts, on \in BOOLEAN : SetActive(p, on)

Spec == Init /\ [][Next]_vars
-----------------------------------------------------------------------------
(* Properties                                                              *)

\* Every variable has its type, and a table holds finitely many partitions.
TypeOK ==
  /\ kind \in {"none", "mbr", "gpt"}
  /\ parts \in SUBSET Part /\ IsFiniteSet(parts)
  /\ first \in Nat /\ last \in Nat
  /\ changed \in BOOLEAN

\* Partitions that are not logical do not overlap and lie where the table
\* allows: the usable area of a GPT, or after block 0 of an MBR disk.
TopLayout(k, S, f, l) ==
  /\ \A p, q \in NonLogical(S) : p # q => ~Overlaps(p.start, Last(p), q.start, Last(q))
  /\ \A p \in NonLogical(S) :
       IF k = "gpt" THEN f <= p.start /\ Last(p) <= l ELSE 1 <= p.start /\ Last(p) <= LastMbr
  /\ \A p, q \in Extended(S) : p = q
  /\ k = "none" => S = {}
  /\ k = "gpt" => \A p \in S : p.role = "primary"

LayoutOf(k, S, f, l) == TopLayout(k, S, f, l) /\ LogicalLayout(S)

\* Whatever is added and deleted in whatever order (ptedit.c:210-363), no two
\* partitions share a block and every logical partition keeps a free block
\* before it for its record.
Layout == LayoutOf(kind, parts, first, last)

\* The chain that writing a changed table makes (ptwrite.c:130-139) never puts
\* a record inside a partition, where it would overwrite a block of data.
RecordsOutside ==
  changed => \A l \in Logicals(parts), p \in NonLogical(parts) \cup Logicals(parts) :
    p.role # "extended" => RecordOf(parts, l) \notin p.start..Last(p)

\* The chain is in disk order inside the extended partition: each record lies
\* before its partition and after the previous one, so that mbr_logicals,
\* which stops at a link that does not go forward (ptable.c:129), reads all.
ChainAscends ==
  \A l \in Logicals(parts) :
    /\ \E e \in Extended(parts) : e.start <= RecordOf(parts, l)
    /\ RecordOf(parts, l) < l.start
    /\ \A q \in Before(parts, l) : Last(q) < RecordOf(parts, l)

\* No two partitions have the same number, so that pt_find(num) means one
\* partition; primary ones are 1-4 (or GPT entries) and logical ones 5, 6...
\* in disk order without holes, as the next read will number them.
NumberingOf(k, S) ==
  /\ \A p, q \in S : p.num = q.num => p = q
  /\ \A p \in NonLogical(S) : p.num \in 1..(IF k = "gpt" THEN MaxEntries ELSE 4)
  /\ \A l \in Logicals(S) : l.num = 5 + Cardinality(Before(S, l))

Numbering == NumberingOf(kind, parts)

\* At most one partition is active, and never the extended one.
OneActiveOf(S) ==
  \A p, q \in S : p.active /\ q.active => p = q /\ p.role # "extended"

OneActive == OneActiveOf(parts)

\* What pt_free_space offers can be taken: the whole of each area is accepted
\* by pt_add as the partition it is offered for (a full table aside), and an
\* area for primaries also holds a logical partition 1 MiB further on.
FreeSpaceFits ==
  \A a \in FreeSpace, y \in Types \ ({0} \cup ExtTypes) :
    LET whole == Request(a.start, a.last - a.start + 1, y)
        later == Request(a.start + Align, a.last - a.start + 1 - Align, y)
    IN  IF kind = "gpt" THEN FitsGpt(whole)
        ELSE IF a.logical
          THEN \E e \in FirstExtended(parts) : \E g \in LogicalGaps(e) : FitsInside(whole, e, g)
        ELSE /\ FitsPrimary(whole)
             /\ later.size > 0 => \E g \in TopGaps : FitsNew(later, g)

SamePlace(p, q) ==
  /\ p.start = q.start /\ p.size = q.size /\ p.role = q.role
  /\ p.role = "logical" \/ p.num = q.num

\* An operation on one partition leaves the others where they are, and the
\* primary ones their number: a step that does not empty the table removes at
\* most one, or the extended one with exactly its logical ones.
EditsAreLocal ==
  [][LET gone == {p \in parts : ~\E q \in parts' : SamePlace(p, q)}
     IN  \/ parts' = {}
         \/ Cardinality(gone) <= 1
         \/ gone = Extended(parts) \cup Logicals(parts)]_vars
=============================================================================

----------------------------- MODULE TableImage -----------------------------
(***************************************************************************)
(* Partition tables as blocks of a disk: what pt_read (ptable.c) makes of  *)
(* the blocks, and which blocks pt_write (ptwrite.c) writes, in its order. *)
(*                                                                         *)
(* A disk is a function from block numbers to blocks, and a block is known *)
(* by what partmgr can tell of it: zeros, a sector of an MBR, an extended  *)
(* boot record, a GPT header that passes its checks of its own, one with   *)
(* the signature that does not, a block of an entry array, or data. Only a *)
(* whole block is written or not. A checksum is the data it was made from: *)
(* a header carries the partitions whose entries its array must hold.      *)
(***************************************************************************)
EXTENDS Parts, Sequences

CONSTANT MaxRecords   \* records of a chain that are read (128)

ASSUME ImageAssumption ==
  NBlocks \in Nat \ {0} /\ ArrBlocks \in Nat \ {0} /\ MaxRecords \in Nat \ {0}

SeqOps == INSTANCE SequencesExt

Protective == 238             \* type EE: block 0 announces a GPT

Blocks == 0..(NBlocks - 1)

Zero   == [tag |-> "zero"]
Data   == [tag |-> "data"]
BadGpt == [tag |-> "badgpt"]

Sector(entries)    == [tag |-> "mbr", entries |-> entries]
Record(part, next) == [tag |-> "ebr", part |-> part, next |-> next]
ArrayBlock(S, i)   == [tag |-> "array", parts |-> S, at |-> i]

Header(my, alt, ents, first, last, S) ==
  [tag |-> "gpt", my |-> my, alt |-> alt, ents |-> ents, first |-> first, last |-> last,
   parts |-> S]

Signed(b) == b.tag \in {"gpt", "badgpt"}      \* the block begins with EFI PART

\* An entry of an MBR sector. Its role is read from its type.
Entry(p) == [num |-> p.num, start |-> p.start, size |-> p.size, type |-> p.type,
             active |-> p.active]

-----------------------------------------------------------------------------
(* Reading                                                                 *)

NoTable(hybrid) ==
  [kind |-> "none", parts |-> {}, first |-> 0, last |-> 0, hybrid |-> hybrid,
   pok |-> FALSE, bok |-> FALSE, pent |-> 0, blba |-> 0, bent |-> 0]

AsPart(e, role, ebr) ==
  [num |-> e.num, role |-> role, start |-> e.start, size |-> e.size, type |-> e.type,
   active |-> e.active, ebr |-> ebr, name |-> "unnamed"]

\* The partition the record in block b describes, by its entry q.
RecordPart(e, b, q, n) ==
  AsPart([num |-> n, start |-> b + q.off, size |-> q.size, type |-> q.type,
          active |-> q.active], "logical", b)

IsRecord(d, b) == b < NBlocks /\ d[b].tag = "ebr"

\* The block of the record that follows the one in block b in the chain of the
\* extended partition e, NBlocks where the chain ends. A link must go forward
\* and stay inside e.
Follow(d, e, b) ==
  IF d[b].next # 0 /\ b < e.start + d[b].next /\ d[b].next < e.size
    THEN e.start + d[b].next ELSE NBlocks

\* The blocks of the records reading finds in e: of a longer chain, which goes
\* forward, the first MaxRecords.
ChainBlocks(d, e) ==
  LET from[b \in Nat] == IF IsRecord(d, b) THEN {b} \cup from[Follow(d, e, b)] ELSE {}
  IN  {b \in from[e.start] : Cardinality({c \in from[e.start] : c < b}) < MaxRecords}

\* The partitions of the records in C, numbered from 5 along the chain.
Numbered(d, e, C) ==
  UNION {{RecordPart(e, b, q, 5 + Cardinality({c \in C : c < b})) : q \in d[b].part} : b \in C}

Chain(d, e) == Numbered(d, e, {b \in ChainBlocks(d, e) : d[b].part # {}})

ReadMbr(d) ==
  LET top == {AsPart(e, IF e.type \in ExtTypes THEN "extended" ELSE "primary", 0) :
                e \in d[0].entries}
  IN  [NoTable(FALSE) EXCEPT !.kind = "mbr",
         !.parts = top \cup UNION {Chain(d, e) : e \in FirstExtended(top)}]

\* Fault: a copy is taken without checking its entry array.
GoodCopyHeaderOnly(d, b) == b < NBlocks /\ d[b].tag = "gpt" /\ d[b].my = b

\* A GPT copy that passes every check: the header is where it says it is and
\* its array holds the entries its checksum was made from.
GoodCopy(d, b) ==
  /\ b < NBlocks
  /\ d[b].tag = "gpt"
  /\ d[b].my = b
  /\ d[b].first <= d[b].last /\ d[b].last < NBlocks
  /\ d[b].ents + ArrBlocks <= NBlocks
  /\ \A i \in 0..(ArrBlocks - 1) : d[d[b].ents + i] = ArrayBlock(d[b].parts, i)

\* The primary copy says where the backup is; without it the last block is tried.
ReadGpt(d, hybrid) ==
  LET pok == GoodCopy(d, 1)
      alt == IF pok THEN d[1].alt ELSE NBlocks - 1
      bok == GoodCopy(d, alt)
      h   == IF pok THEN d[1] ELSE d[alt]
  IN  IF ~pok /\ ~bok THEN NoTable(hybrid)
      ELSE [kind |-> "gpt", parts |-> h.parts, first |-> h.first, last |-> h.last,
            hybrid |-> hybrid, pok |-> pok, bok |-> bok,
            pent |-> IF pok THEN h.ents ELSE 2,
            blba |-> alt, bent |-> IF bok THEN d[alt].ents ELSE 0]

Read(d) ==
  IF d[0].tag = "mbr"
    THEN IF \E e \in d[0].entries : e.type = Protective
           THEN ReadGpt(d, \E e \in d[0].entries : e.type # Protective)
           ELSE ReadMbr(d)
  ELSE IF NBlocks > 1 /\ Signed(d[1]) THEN ReadGpt(d, FALSE)
  ELSE NoTable(FALSE)

\* A table as a reader of the disk sees it.
View(t) == [kind |-> t.kind, parts |-> {[p EXCEPT !.ebr = 0] : p \in t.parts}]
Seen(d) == View(Read(d))

-----------------------------------------------------------------------------
(* Writing: a sequence of writes of one block each                         *)

Put(b, x) == [at |-> b, block |-> x]

InsidePartition(S, b) == \E p \in S : p.start <= b /\ b <= Last(p)

\* Fault: a GPT header is cleared though a partition has its block.
WipeHeaderAnywhere(d, S, b) == IF b < NBlocks /\ Signed(d[b]) THEN <<Put(b, Zero)>> ELSE <<>>

WipeHeader(d, S, b) ==
  IF b < NBlocks /\ ~InsidePartition(S, b) /\ Signed(d[b]) THEN <<Put(b, Zero)>> ELSE <<>>

Sorted(S) ==
  [i \in 1..Cardinality(Logicals(S)) |-> CHOOSE l \in Logicals(S) : Cardinality(Before(S, l)) = i - 1]

\* Fault: an offset is counted from the extended partition.
ChainRecordFromExtended(S, p, link) ==
  Record({[off |-> p.start - ChainHead(S), size |-> p.size, type |-> p.type,
           active |-> p.active]}, link)

\* The offset of a partition is counted from its record.
ChainRecord(S, p, link) ==
  Record({[off |-> p.start - RecordOf(S, p), size |-> p.size, type |-> p.type,
           active |-> p.active]}, link)

\* Fault: a link is counted from the record it is in.
LinkFromRecord(S, i) ==
  IF i < Len(Sorted(S)) THEN RecordOf(S, Sorted(S)[i + 1]) - RecordOf(S, Sorted(S)[i]) ELSE 0

\* A link is counted from the extended partition; the last record has none.
Link(S, i) ==
  IF i < Len(Sorted(S)) THEN RecordOf(S, Sorted(S)[i + 1]) - ChainHead(S) ELSE 0

\* The chain in disk order. An extended partition without logical ones gets
\* an empty record.
ChainWrites(S) ==
  LET logs == Sorted(S)
  IN  IF Extended(S) = {} THEN <<>>
      ELSE IF logs = <<>> THEN <<Put(ChainHead(S), Record({}, 0))>>
      ELSE [i \in 1..Len(logs) |-> Put(RecordOf(S, logs[i]), ChainRecord(S, logs[i], Link(S, i)))]

\* Fault: only the primary GPT header is cleared.
MbrWritesOneHeader(d, t) ==
  WipeHeader(d, t.parts, 1)
    \o <<Put(0, Sector({Entry(p) : p \in NonLogical(t.parts)}))>> \o ChainWrites(t.parts)

\* Fault: block 0 is cleared before the chain and written after it.
MbrWritesSectorLast(d, t) ==
  WipeHeader(d, t.parts, 1) \o WipeHeader(d, t.parts, NBlocks - 1) \o <<Put(0, Zero)>>
    \o ChainWrites(t.parts) \o <<Put(0, Sector({Entry(p) : p \in NonLogical(t.parts)}))>>

MbrWrites(d, t) ==
  WipeHeader(d, t.parts, 1) \o WipeHeader(d, t.parts, NBlocks - 1)
    \o <<Put(0, Sector({Entry(p) : p \in NonLogical(t.parts)}))>> \o ChainWrites(t.parts)

NewLast == NBlocks - 2 - ArrBlocks

\* write_gpt refuses a table that does not fit the disk.
FitsDisk(t) ==
  /\ 2 + ArrBlocks <= t.first /\ t.first <= NewLast
  /\ \A p \in t.parts : t.first <= p.start /\ Last(p) <= NewLast

ProtectiveSector ==
  Sector({[num |-> 1, start |-> 1, size |-> NBlocks - 1, type |-> Protective, active |-> FALSE]})

ArrayWrites(b, S) == [i \in 1..ArrBlocks |-> Put(b + i - 1, ArrayBlock(S, i - 1))]

CopyWrites(my, alt, ents, t) ==
  ArrayWrites(ents, t.parts) \o <<Put(my, Header(my, alt, ents, t.first, NewLast, t.parts))>>

\* Fault: both arrays are written before both headers.
GptWritesArraysFirst(t) ==
  LET back == NBlocks - 1
      p    == CopyWrites(1, back, 2, t)
      b    == CopyWrites(back, 1, back - ArrBlocks, t)
  IN  (IF t.hybrid THEN <<>> ELSE <<Put(0, ProtectiveSector)>>)
        \o SeqOps!Front(p) \o SeqOps!Front(b) \o <<SeqOps!Last(p), SeqOps!Last(b)>>

\* Fault: the backup copy stays where the disk used to end.
GptWritesOldEnd(t) ==
  LET back == IF t.blba # 0 THEN t.blba ELSE NBlocks - 1
  IN  (IF t.hybrid THEN <<>> ELSE <<Put(0, ProtectiveSector)>>)
        \o CopyWrites(1, back, 2, t) \o CopyWrites(back, 1, back - ArrBlocks, t)

\* The two copies one after the other, each its array first; a hybrid MBR is
\* left as it is.
GptWrites(t) ==
  LET back == NBlocks - 1
  IN  (IF t.hybrid THEN <<>> ELSE <<Put(0, ProtectiveSector)>>)
        \o CopyWrites(1, back, 2, t) \o CopyWrites(back, 1, back - ArrBlocks, t)

EraseWrites ==
  <<Put(0, Zero)>> \o (IF NBlocks > 2 THEN <<Put(1, Zero), Put(NBlocks - 1, Zero)>> ELSE <<>>)

Writable(t) == t.kind = "gpt" => FitsDisk(t)

Writes(d, t) ==
  CASE t.kind = "gpt" -> GptWrites(t)
    [] t.kind = "mbr" -> MbrWrites(d, t)
    [] OTHER          -> EraseWrites

\* The disk after all the writes of ops: of a block the last one counts.
AfterAll(d, ops) ==
  [b \in Blocks |->
     LET W == {i \in DOMAIN ops : ops[i].at = b}
     IN  IF W = {} THEN d[b] ELSE ops[CHOOSE i \in W : \A j \in W : j <= i].block]
=============================================================================

------------------------------- MODULE Parts -------------------------------
(***************************************************************************)
(* Partitions and sets of partitions, as ptedit.c, ptable.c and ptwrite.c  *)
(* share them (PtPart of ptable.h): who is logical, the order and numbers  *)
(* of the logical ones, and where the chain has the record of each.        *)
(***************************************************************************)
EXTENDS Integers, FiniteSets

CONSTANTS
  NBlocks,     \* blocks of the disk
  ArrBlocks,   \* blocks of the entry array of a GPT
  Names        \* names of GPT partitions

ExtTypes == {5, 15, 133}      \* 05, 0F and 85 mean "extended partition"
Roles    == {"primary", "extended", "logical"}

Part == [num: Nat, role: Roles, start: Nat, size: Nat \ {0}, type: Nat,
         active: BOOLEAN, ebr: Nat, name: Names]

Last(p)       == p.start + p.size - 1
NonLogical(S) == {p \in S : p.role # "logical"}
Logicals(S)   == {p \in S : p.role = "logical"}
Extended(S)   == {p \in S : p.role = "extended"}
Nums(S)       == {p.num : p \in S}

\* A disk should have one extended partition; of several, reading follows
\* the chain of the first.
FirstExtended(S) == {e \in Extended(S) : \A f \in Extended(S) : e.num <= f.num}

Overlaps(a1, a2, b1, b2) == a1 <= b2 /\ b1 <= a2

\* Logical partitions are numbered 5, 6... in disk order; the others keep
\* their number.
Before(S, l) == {q \in Logicals(S) : q.start < l.start}
Renumber(S)  ==
  NonLogical(S) \cup
    {[l EXCEPT !.num = 5 + Cardinality(Before(S, l))] : l \in Logicals(S)}

\* Logical partitions lie after the first block of the extended one, and
\* neither they nor the block before each of them overlap.
LogicalLayout(S) ==
  /\ \A l \in Logicals(S) : \E e \in Extended(S) : e.start < l.start /\ Last(l) <= Last(e)
  /\ \A l, m \in Logicals(S) : l # m => ~Overlaps(l.start - 1, Last(l), m.start - 1, Last(m))

-----------------------------------------------------------------------------
(* The record of the chain that describes logical partition l, as write_mbr *)
(* places it: the first one in the first block of the extended partition    *)
(* (of several, the last), the others where they were if that is still      *)
(* between the two partitions, or else just before their partition. (The    *)
(* code compares with the partition before it in disk order, which of       *)
(* partitions that do not overlap is the one that ends last.)               *)

ChainHead(S) == (CHOOSE e \in Extended(S) : \A f \in Extended(S) : f.num <= e.num).start

\* Fault: a record is left where it was though a partition was added there.
RecordOfKept(S, l) ==
  IF Before(S, l) = {} THEN ChainHead(S) ELSE IF l.ebr < l.start THEN l.ebr ELSE l.start - 1

RecordOf(S, l) ==
  IF Before(S, l) = {} THEN ChainHead(S)
  ELSE IF l.ebr < l.start /\ \A q \in Before(S, l) : Last(q) < l.ebr THEN l.ebr
  ELSE l.start - 1
=============================================================================

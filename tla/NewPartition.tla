---------------------------- MODULE NewPartition ----------------------------
(***************************************************************************)
(* New partition (new_partition of diskview.c): the role, the start, the   *)
(* size and the type that the user gives for a partition in a free area,   *)
(* checked and rounded before pt_add is asked, and what the dialog         *)
(* proposes. The user may type anything; the code computes with numbers of *)
(* bytes that wrap around at 64 bits.                                      *)
(***************************************************************************)
EXTENDS PtEdit, Units

CONSTANTS
  StartTexts,   \* what a user may type as the start
  SizeTexts     \* and as the size

BlockSize == MiB \div Align

\* Sizes of blocks and units are powers of two, so one divides the other.
ASSUME BlockAssumption ==
  /\ BlockSize * Align = MiB /\ NBlocks * BlockSize <= MaxNum
  /\ BlockSize % Kilo = 0 \/ Kilo % BlockSize = 0

ASSUME TextsAssumption == \A t \in StartTexts \cup SizeTexts : IsText(t)

NoRequest == [ok |-> FALSE, start |-> 0, size |-> 0]

\* The roles asked for: outside the extended partition both are offered while
\* there is none; a GPT has primary ones only.
RolesOffered(area) ==
  IF kind = "gpt" THEN {"primary"}
  ELSE IF area.logical THEN {"logical"}
  ELSE IF Extended(parts) = {} THEN {"primary", "logical"}
  ELSE {"primary"}

\* A logical partition that creates the extended one leaves 1 MiB before it.
FirstStart(area, role) ==
  area.start + (IF role = "logical" /\ ~area.logical THEN Align ELSE 0)

\* The text that the dialog proposes as the start.
ProposedStart(area, role) == FmtExact(FirstStart(area, role) * BlockSize)

\* Fault: a start between two MiB boundaries goes back to the first.
StartBlockDown(text) == (ParseSize(text, BlockSize).bytes \div MiB) * Align

\* A position is rounded up to a block and to a MiB boundary.
StartBlock(text) ==
  RoundUp(((ParseSize(text, BlockSize).bytes + BlockSize - 1) % (MaxNum + 1)) \div BlockSize)

StartAccepted(area, role, text) ==
  /\ FirstStart(area, role) <= area.last
  /\ ParseSize(text, BlockSize).ok /\ ~ParseSize(text, BlockSize).rest
  /\ FirstStart(area, role) <= StartBlock(text) /\ StartBlock(text) <= area.last

\* A size is cut down to whole blocks.
SizeBlocks(area, start, text) ==
  LET z == ParseSize(text, BlockSize)
  IN  IF z.rest THEN area.last - start + 1 ELSE z.bytes \div BlockSize

\* Fault: the last block of the area is not counted.
SizeAcceptedLess(area, start, text) ==
  /\ ParseSize(text, BlockSize).ok
  /\ SizeBlocks(area, start, text) \in 1..(area.last - start)

SizeAccepted(area, start, text) ==
  /\ ParseSize(text, BlockSize).ok
  /\ SizeBlocks(area, start, text) \in 1..(area.last - start + 1)

\* What is asked of pt_add.
Typed(area, role, startText, sizeText) ==
  IF ~StartAccepted(area, role, startText) THEN NoRequest
  ELSE LET start == StartBlock(startText)
       IN  IF SizeAccepted(area, start, sizeText)
             THEN [ok |-> TRUE, start |-> start, size |-> SizeBlocks(area, start, sizeText)]
             ELSE NoRequest

\* The types that choose_type lets through, from the list or typed: a byte from
\* 01 to FF, or any GUID.
Typable(y) == kind = "mbr" => y \in 1..255

\* pt_add takes the request, a full table aside.
Taken(r, role, y) ==
  LET p == Request(r.start, r.size, y)
  IN  IF kind = "gpt" THEN FitsGpt(p)
      ELSE IF role = "primary" THEN FitsPrimary(p)
      ELSE IF Extended(parts) # {}
        THEN \E e \in FirstExtended(parts) : \E g \in LogicalGaps(e) : FitsInside(p, e, g)
      ELSE \E g \in TopGaps : FitsNew(p, g)

-----------------------------------------------------------------------------
(* Properties                                                              *)

\* What a number says, to the decimal that is kept.
ExactBytes(t) ==
  ((t.whole * Kept + KeptOf(t.frac)) * Multiple(t.unit, BlockSize)) \div Kept

Numbers == {t \in StartTexts \cup SizeTexts : t.form = "number" /\ Known(t, BlockSize)}

\* The sizes and positions in the rows of the table on the screen.
InRows ==
  {x * BlockSize : x \in (UNION {{p.start, p.size} : p \in parts})
                           \cup (UNION {{a.start, a.last - a.start + 1} : a \in FreeSpace})}

\* Every number typed is taken exactly or is too large.
TypedExactly ==
  \A t \in Numbers :
    LET z == ParseSize(t, BlockSize)
    IN  IF z.ok THEN z.bytes = ExactBytes(t)
        ELSE ExactBytes(t) > MaxNum \/ t.whole + 9 > MaxNum

\* Every size shown, typed, asks for no more than there is.
ShownTypable ==
  \A n \in 0..MaxNum :
    LET shown == ParseSize(FmtSize(n), BlockSize)
    IN  /\ shown.ok => shown.bytes <= n
        /\ n % MiB = 0 /\ n + 9 <= MaxNum => ParseSize(FmtExact(n), BlockSize).bytes = n

\* A size typed is the number of bytes it says or is refused, never one that
\* wrapped around (units.c:75-80), and is refused only when it is too large (the
\* last ten numbers are too large as well). Typing a size that a screen shows
\* asks for no more than there is, and for exactly that if it is whole MiB; what
\* the rows show of the table is too small by less than a tenth and one of the
\* next smaller unit.
SizesExact ==
  /\ TypedExactly
  /\ ShownTypable
  /\ \A n \in InRows :
       LET shown == ParseSize(FmtSize(n), BlockSize)
       IN  shown.ok =>
             (n - shown.bytes) * 10 * Kilo < Multiple(FmtSize(n).unit, BlockSize) * (Kilo + 10)

\* The types that pt_add refuses though the dialog lets them through: the types
\* of an extended partition and the GUID of no type at all, typed by hand.
RefusedTypes == IF kind = "gpt" THEN {0} ELSE ExtTypes

\* Of what the dialog accepts (diskview.c:187-253), pt_add refuses exactly the
\* types 05, 0F and 85 and the GUID 0 (ptedit.c:231, 321), after every question
\* has been answered; never a place or a size. The partition starts on the first
\* MiB boundary at or after the position typed, and is the size typed without
\* the part of a block.
DialogAgrees ==
  \A area \in FreeSpace : \A role \in RolesOffered(area) :
  \A s \in {s \in StartTexts : StartAccepted(area, role, s)}, z \in SizeTexts :
    LET r  == Typed(area, role, s, z)
        at == ExactBytes(s)
    IN  r.ok =>
          /\ \A y \in {y \in Types : Typable(y)} : Taken(r, role, y) <=> y \notin RefusedTypes
          /\ at <= r.start * BlockSize /\ r.start * BlockSize < at + MiB
          /\ r.start % Align = 0
          /\ z.form = "number" =>
               /\ r.size * BlockSize <= ExactBytes(z)
               /\ ExactBytes(z) < (r.size + 1) * BlockSize

\* Enter on every proposal takes the whole free area from the place it is
\* offered from, and the size the dialog shows for the rest can be typed.
ProposalsWork ==
  \A area \in FreeSpace : \A role \in RolesOffered(area) :
    LET start == FirstStart(area, role)
        size  == area.last - start + 1
        text  == ProposedStart(area, role)
    IN  size > 0 =>
          /\ Typed(area, role, text, Rest) = [ok |-> TRUE, start |-> start, size |-> size]
          /\ Typed(area, role, text, FmtSize(size * BlockSize)).ok
=============================================================================

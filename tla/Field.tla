-------------------------------- MODULE Field --------------------------------
(***************************************************************************)
(* The field of an input dialog, a line of UTF-8 edited byte by byte:      *)
(* ui_input of ui.c and gui_input of gui.c, which edit it alike, with      *)
(* utf8_encode and utf8_decode of util.c. A field is a record of the bytes *)
(* buf, the number cur of bytes before the cursor and fresh, which says    *)
(* that the proposed text is replaced by the first character typed.        *)
(***************************************************************************)
EXTENDS Integers, Sequences

CONSTANTS
  FieldBytes,    \* bytes of the buffer, the final 0 included
  FieldColumns   \* columns of the field on the text screen

ASSUME FieldAssumption == FieldBytes \in Nat \ {0} /\ FieldColumns \in Nat \ {0}

FieldSeq == INSTANCE SequencesExt

-----------------------------------------------------------------------------
(* UTF-8                                                                   *)

CodePoints == {c \in Nat : c < 2097152}      \* what four bytes can hold

\* The bytes of a character: six bits of it in each byte but the first.
Low(c, unit) == 128 + ((c \div unit) % 64)

Encode(c) ==
  IF c < 128 THEN <<c>>
  ELSE IF c < 2048 THEN <<192 + (c \div 64), Low(c, 1)>>
  ELSE IF c < 65536 THEN <<224 + (c \div 4096), Low(c, 64), Low(c, 1)>>
  ELSE <<240 + (c \div 262144), Low(c, 4096), Low(c, 64), Low(c, 1)>>

Continues(byte) == byte \div 64 = 2      \* not the first byte of a character

\* How many bytes the character has that begins with byte; 1 when none does.
Announced(byte) ==
  IF byte \in 192..223 THEN 2 ELSE IF byte \in 224..239 THEN 3 ELSE IF byte \in 240..247 THEN 4 ELSE 1

\* How many bytes utf8_decode takes for the character at i: what is no whole
\* character is read as one wrong byte.
Taken(buf, i) ==
  LET n == Announced(buf[i])
  IN  IF i + n - 1 <= Len(buf) /\ \A j \in (i + 1)..(i + n - 1) : Continues(buf[j]) THEN n ELSE 1

\* The places of buf at which utf8_decode, from its first byte on, finds the
\* characters.
Starts(buf) ==
  LET from[i \in 1..(Len(buf) + 1)] ==
        IF i > Len(buf) THEN <<>> ELSE <<i>> \o from[i + Taken(buf, i)]
  IN  from[1]

-----------------------------------------------------------------------------
(* Keys                                                                    *)

Edited(f, buf, cur) == [f EXCEPT !.buf = buf, !.cur = cur, !.fresh = FALSE]

\* Fault: the cursor goes one byte to the left.
LeftOneByte(f) == IF f.cur = 0 THEN 0 ELSE f.cur - 1

\* Where the character before the cursor begins, and where the one at it ends.
Left(f) ==
  IF f.cur = 0 THEN 0
  ELSE CHOOSE i \in 0..(f.cur - 1) :
         /\ i = 0 \/ ~Continues(f.buf[i + 1])
         /\ \A j \in (i + 1)..(f.cur - 1) : Continues(f.buf[j + 1])

Right(f) ==
  IF f.cur = Len(f.buf) THEN f.cur
  ELSE CHOOSE i \in (f.cur + 1)..Len(f.buf) :
         /\ i = Len(f.buf) \/ ~Continues(f.buf[i + 1])
         /\ \A j \in (f.cur + 1)..(i - 1) : Continues(f.buf[j + 1])

\* The buffer without the bytes after from up to to.
Without(buf, from, to) == SubSeq(buf, 1, from) \o SubSeq(buf, to + 1, Len(buf))

Insert(f, c) ==
  LET old == IF f.fresh THEN [f EXCEPT !.buf = <<>>, !.cur = 0] ELSE f
      u   == Encode(c)
  IN  IF Len(old.buf) + Len(u) < FieldBytes
        THEN Edited(f, SubSeq(old.buf, 1, old.cur) \o u \o SubSeq(old.buf, old.cur + 1, Len(old.buf)),
                    old.cur + Len(u))
        ELSE Edited(f, old.buf, old.cur)

\* Home and End always count as a key of the field; Left, Right, Backspace
\* and Delete only where they can do something.
FieldKeys == {"left", "right", "home", "end", "backspace", "delete"}

TakesKey(f, key) ==
  CASE key \in {"left", "backspace"} -> f.cur > 0
    [] key \in {"right", "delete"}   -> f.cur < Len(f.buf)
    [] OTHER -> TRUE

FieldKey(f, key) ==
  CASE key = "left"      -> Edited(f, f.buf, Left(f))
    [] key = "right"     -> Edited(f, f.buf, Right(f))
    [] key = "home"      -> Edited(f, f.buf, 0)
    [] key = "end"       -> Edited(f, f.buf, Len(f.buf))
    [] key = "backspace" -> Edited(f, Without(f.buf, Left(f), f.cur), Left(f))
    [] OTHER             -> Edited(f, Without(f.buf, f.cur, Right(f)), f.cur)

Proposed(buf) == [buf |-> buf, cur |-> Len(buf), fresh |-> TRUE]

-----------------------------------------------------------------------------
(* The text screen shows the field from a character on that leaves the     *)
(* cursor in the last column at most.                                      *)

CharsBefore(f) == Len(Starts(SubSeq(f.buf, 1, f.cur)))

FirstChar(f) ==
  IF CharsBefore(f) >= FieldColumns THEN CharsBefore(f) - FieldColumns + 1 ELSE 0

CursorColumn(f) == CharsBefore(f) - FirstChar(f)

ShownFrom(f) ==
  LET s == Starts(f.buf)
  IN  IF FirstChar(f) < Len(s) THEN s[FirstChar(f) + 1] ELSE Len(f.buf) + 1

-----------------------------------------------------------------------------
\* The buffer is a sequence of whole characters.
WholeChars(buf) ==
  \A i \in FieldSeq!Range(Starts(buf)) : ~Continues(buf[i]) /\ Taken(buf, i) = Announced(buf[i])
=============================================================================

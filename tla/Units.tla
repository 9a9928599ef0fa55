-------------------------------- MODULE Units --------------------------------
(***************************************************************************)
(* Sizes as the user writes and reads them (units.c): what pm_parse_size   *)
(* makes of a text, and the texts pm_fmt_size and pm_fmt_exact show. The   *)
(* code computes in 64 bits; here the largest number, the factor between   *)
(* two units and the precision of a fraction are constants.                *)
(***************************************************************************)
EXTENDS Integers

CONSTANTS
  MaxNum,     \* the largest number (UINT64_MAX)
  Kilo,       \* the factor from each unit to the next (1024)
  Kept        \* a fraction is kept in units of 1/Kept (six decimals: 1000000)

ASSUME UnitsAssumption ==
  /\ MaxNum \in Nat /\ Kilo \in Nat \ {0, 1} /\ Kept \in Nat \ {0} /\ Kept % 10 = 0
  /\ Kept * Kilo * Kilo * Kilo * Kilo <= MaxNum     \* "no overflow" (units.c:77)

-----------------------------------------------------------------------------
(* Texts. A number has a whole part, one decimal more than are kept, a     *)
(* unit and what stands behind the unit.                                   *)

Rest == [form |-> "rest"]          \* rest, all or max
Word == [form |-> "word"]          \* anything else that is not a number

Number(whole, frac, unit, tail) ==
  [form |-> "number", whole |-> whole, frac |-> frac, unit |-> unit, tail |-> tail]

\* What a user may type: the digits after the point are fewer than a whole.
IsNumber(t) ==
  t.form = "number" /\ t.whole \in Nat /\ t.frac \in Nat /\ t.frac \div 10 \in 0..(Kept - 1)

IsText(t) == t.form \in {"rest", "word"} \/ IsNumber(t)

\* The bytes of a unit; without one the number is in MiB. S means blocks.
Multiple(unit, bsize) ==
  CASE unit = "B" -> 1
    [] unit = "K" -> Kilo
    [] unit \in {"none", "M"} -> Kilo * Kilo
    [] unit = "G" -> Kilo * Kilo * Kilo
    [] unit = "T" -> Kilo * Kilo * Kilo * Kilo
    [] OTHER -> bsize

Known(t, bsize) ==
  /\ t.unit # "other"
  /\ t.unit = "S" => bsize # 0
  /\ t.tail \in (IF t.unit \in {"K", "M", "G", "T"} THEN {"none", "B", "iB"} ELSE {"none"})

\* Before a digit is added the number must leave room for any digit.
FitsDigits(whole) == whole \div 10 <= (MaxNum - 9) \div 10

-----------------------------------------------------------------------------
(* pm_parse_size. The digits not kept are dropped and the part below one   *)
(* byte is cut off.                                                        *)

KeptOf(frac) == frac \div 10

\* Fault: a fraction is divided before it is multiplied.
FractionBytesEarly(t, mul) == KeptOf(t.frac) * (mul \div Kept)

FractionBytes(t, mul) == (KeptOf(t.frac) * mul) \div Kept

FitsNumber(t, mul) ==
  /\ t.whole <= MaxNum \div mul
  /\ t.whole * mul <= MaxNum - FractionBytes(t, mul)

Refused == [ok |-> FALSE, rest |-> FALSE, bytes |-> 0]

ParseSize(t, bsize) ==
  IF t.form = "rest" THEN [ok |-> TRUE, rest |-> TRUE, bytes |-> 0]
  ELSE IF t.form = "word" \/ ~FitsDigits(t.whole) \/ ~Known(t, bsize) THEN Refused
  ELSE LET mul == Multiple(t.unit, bsize)
       IN  IF FitsNumber(t, mul)
             THEN [ok |-> TRUE, rest |-> FALSE,
                   bytes |-> (t.whole * mul + FractionBytes(t, mul)) % (MaxNum + 1)]
             ELSE Refused

-----------------------------------------------------------------------------
(* pm_fmt_size and pm_fmt_exact. Both show what a number holds of a unit,  *)
(* cut off after one decimal.                                              *)

Ladder == <<"B", "K", "M", "G", "T", "other">>      \* the last one is PiB

\* The size in the largest unit it reaches: one more unit up is one more
\* division, and the decimal is what the last one leaves over.
FmtSize(bytes) ==
  LET held[u \in 1..6] == IF u = 1 THEN bytes ELSE held[u - 1] \div Kilo
      u == CHOOSE v \in 1..6 : (v = 6 \/ held[v] < Kilo) /\ \A t \in 1..(v - 1) : held[t] >= Kilo
  IN  IF u = 1 THEN Number(bytes, 0, "B", "none")
      ELSE Number(held[u], (((held[u - 1] % Kilo) * 10) \div Kilo) * Kept, Ladder[u], "iB")

MiB == Kilo * Kilo
GiB == Kilo * Kilo * Kilo

FmtExact(bytes) ==
  IF bytes # 0 /\ bytes % GiB = 0 THEN Number(bytes \div GiB, 0, "G", "iB")
  ELSE IF bytes % MiB = 0 THEN Number(bytes \div MiB, 0, "M", "iB")
  ELSE FmtSize(bytes)
=============================================================================

--------------------------- MODULE EditingProofs ---------------------------
(***************************************************************************)
(* Proofs about the table in memory: PtEdit, the dialog for a new          *)
(* partition (NewPartition, with the sizes of Units) and the table written *)
(* and read back (EditAndWrite), for every disk, every table read, every   *)
(* edit and everything a user may type.                                    *)
(***************************************************************************)
EXTENDS NewPartition, EditAndWrite, ImageProofs

-----------------------------------------------------------------------------
(* Renumbering changes nothing but the numbers of logical partitions.      *)

LEMMA RenumberParts ==
  ASSUME NEW S \in SUBSET Part
  PROVE  /\ NonLogical(Renumber(S)) = NonLogical(S)
         /\ Extended(Renumber(S)) = Extended(S)
         /\ \A m \in Logicals(Renumber(S)) : \E l \in Logicals(S) :
              m = [l EXCEPT !.num = 5 + Cardinality(Before(S, l))]
<1>1. ASSUME NEW l \in Logicals(S)
      PROVE  [l EXCEPT !.num = 5 + Cardinality(Before(S, l))].role = "logical"
  BY DEF Logicals, Part
<1>2. \A m \in Renumber(S) :
        \/ m \in NonLogical(S)
        \/ \E l \in Logicals(S) : m = [l EXCEPT !.num = 5 + Cardinality(Before(S, l))]
  BY DEF Renumber
<1>3. NonLogical(S) \subseteq Renumber(S)
  BY DEF Renumber
<1>4. NonLogical(Renumber(S)) = NonLogical(S)
  BY <1>1, <1>2, <1>3 DEF NonLogical
<1>5. Extended(Renumber(S)) = Extended(S)
  <2>1. \A T : Extended(T) = {p \in NonLogical(T) : p.role = "extended"}
    BY DEF Extended, NonLogical
  <2> QED BY <2>1, <1>4
<1>6. \A m \in Logicals(Renumber(S)) : m \notin NonLogical(S)
  BY DEF Logicals, NonLogical
<1>7. Logicals(Renumber(S)) \subseteq Renumber(S)
  BY DEF Logicals
<1> QED BY <1>2, <1>4, <1>5, <1>6, <1>7

LEMMA FiniteBefore ==
  ASSUME NEW S, IsFiniteSet(S), NEW l
  PROVE  IsFiniteSet(Before(S, l)) /\ Cardinality(Before(S, l)) \in Nat
<1>1. Before(S, l) \subseteq S
  BY DEF Before, Logicals
<1> QED BY <1>1, FS_Subset, FS_CardinalityType

LEMMA RenumberType ==
  ASSUME NEW S \in SUBSET Part, IsFiniteSet(S)
  PROVE  Renumber(S) \in SUBSET Part /\ IsFiniteSet(Renumber(S))
<1> DEFINE num(l) == [l EXCEPT !.num = 5 + Cardinality(Before(S, l))]
<1>1. ASSUME NEW l \in Logicals(S)
      PROVE  num(l) \in Part
  <2>1. l \in Part
    BY DEF Logicals
  <2>2. 5 + Cardinality(Before(S, l)) \in Nat
    BY FiniteBefore
  <2> QED BY <2>1, <2>2 DEF Part
<1>2. NonLogical(S) \subseteq S /\ Logicals(S) \subseteq S
  BY DEF NonLogical, Logicals
<1>3. IsFiniteSet(NonLogical(S)) /\ IsFiniteSet(Logicals(S))
  BY <1>2, FS_Subset
<1>4. IsFiniteSet({num(l) : l \in Logicals(S)})
  <2> DEFINE T == {num(l) : l \in Logicals(S)}
             f == [l \in Logicals(S) |-> num(l)]
  <2>1. f \in Surjection(Logicals(S), T)
    BY DEF Surjection
  <2> HIDE DEF T, f
  <2>2. IsFiniteSet(T)
    BY <1>3, <2>1, FS_Surjection
  <2> QED BY <2>2 DEF T
<1>5. Renumber(S) = NonLogical(S) \cup {num(l) : l \in Logicals(S)}
  BY DEF Renumber
<1>6. IsFiniteSet(Renumber(S))
  <2> HIDE DEF num
  <2> QED BY <1>3, <1>4, <1>5, FS_Union
<1> QED BY <1>1, <1>2, <1>5, <1>6

LEMMA RenumberLayout ==
  ASSUME NEW S \in SUBSET Part, NEW k, NEW f, NEW e, LayoutOf(k, S, f, e)
  PROVE  LayoutOf(k, Renumber(S), f, e)
<1> DEFINE num(l) == [l EXCEPT !.num = 5 + Cardinality(Before(S, l))]
<1>1. ASSUME NEW l \in Logicals(S)
      PROVE  num(l).start = l.start /\ Last(num(l)) = Last(l)
  BY DEF Last, Logicals, Part
<1>2. \A m \in Logicals(Renumber(S)) : \E l \in Logicals(S) : m = num(l)
  BY RenumberParts
<1>3. NonLogical(Renumber(S)) = NonLogical(S) /\ Extended(Renumber(S)) = Extended(S)
  BY RenumberParts
<1> HIDE DEF num
<1>4. LogicalLayout(Renumber(S))
  BY <1>1, <1>2, <1>3 DEF LayoutOf, LogicalLayout
<1>5. TopLayout(k, Renumber(S), f, e)
  <2>1. k = "none" => Renumber(S) = {}
    BY DEF LayoutOf, TopLayout, Renumber, NonLogical, Logicals
  <2>2. k = "gpt" => Renumber(S) = S
    <3> SUFFICES ASSUME k = "gpt" PROVE Renumber(S) = S
      OBVIOUS
    <3>1. \A p \in S : p.role = "primary"
      BY DEF LayoutOf, TopLayout
    <3> QED BY <3>1 DEF Renumber, NonLogical, Logicals
  <2> QED BY <1>3, <2>1, <2>2 DEF LayoutOf, TopLayout
<1> QED BY <1>4, <1>5 DEF LayoutOf
\* A table whose partitions are (some of) those of S, each where it was, is
\* laid out as S is, unless it lost the extended partition but not the logical
\* ones.
LEMMA SameLayout ==
  ASSUME NEW S \in SUBSET Part, NEW T, NEW k, NEW f, NEW e, LayoutOf(k, S, f, e),
         NEW u \in [S -> Part],
         \A p \in S : u[p].role = p.role /\ u[p].start = p.start /\ u[p].size = p.size,
         \A q \in T : \E p \in S : q = u[p],
         Logicals(T) = {} \/ \A x \in Extended(S) : u[x] \in T
  PROVE  LayoutOf(k, T, f, e)
<1>1. \A p \in S : Last(u[p]) = Last(p)
  BY DEF Last
<1>2. TopLayout(k, T, f, e)
  BY <1>1 DEF LayoutOf, TopLayout, NonLogical, Extended
<1>3. LogicalLayout(T)
  <2>1. ASSUME NEW l \in Logicals(T)
        PROVE  \E x \in Extended(T) : x.start < l.start /\ Last(l) <= Last(x)
    <3>1. PICK p \in S : l = u[p]
      BY DEF Logicals
    <3>2. p \in Logicals(S)
      BY <3>1 DEF Logicals
    <3>3. PICK x \in Extended(S) : x.start < p.start /\ Last(p) <= Last(x)
      BY <3>2 DEF LayoutOf, LogicalLayout
    <3>4. u[x] \in Extended(T)
      BY <3>3, <2>1 DEF Extended
    <3>5. u[x].start = x.start /\ l.start = p.start
      BY <3>1, <3>3 DEF Extended
    <3>6. Last(u[x]) = Last(x) /\ Last(l) = Last(p)
      BY <1>1, <3>1, <3>3 DEF Extended
    <3> QED BY <3>3, <3>4, <3>5, <3>6
  <2>2. ASSUME NEW l \in Logicals(T), NEW m \in Logicals(T), l # m
        PROVE  ~Overlaps(l.start - 1, Last(l), m.start - 1, Last(m))
    <3>1. PICK p \in S, q \in S : l = u[p] /\ m = u[q]
      BY DEF Logicals
    <3>2. p \in Logicals(S) /\ q \in Logicals(S) /\ p # q
      BY <2>2, <3>1 DEF Logicals
    <3>3. ~Overlaps(p.start - 1, Last(p), q.start - 1, Last(q))
      BY <3>2 DEF LayoutOf, LogicalLayout
    <3> QED BY <1>1, <3>1, <3>3
  <2> QED BY <2>1, <2>2 DEF LogicalLayout
<1> QED BY <1>2, <1>3 DEF LayoutOf

-----------------------------------------------------------------------------
(* Free space.                                                             *)

LEMMA RoundUpBounds ==
  ASSUME NEW v \in Nat
  PROVE  RoundUp(v) \in Nat /\ v <= RoundUp(v)
BY GeometryAssumption DEF RoundUp

LEMMA LastMbrType == LastMbr \in Nat
BY GeometryAssumption DEF LastMbr

\* Blocks a..b within a gap keep clear of every span.
LEMMA GapAvoidsSpans ==
  ASSUME NEW lo \in Int, NEW hi \in Int, NEW spans, NEW g \in Gaps(lo, hi, spans),
         NEW s \in spans, s[1] \in Int, s[2] \in Int, s[1] <= s[2],
         NEW a \in Int, NEW b \in Int, g[1] <= a, a <= b, b <= g[2]
  PROVE  ~Overlaps(a, b, s[1], s[2])
<1>1. g[1] \in Int /\ g[2] \in Int /\ \A x \in g[1]..g[2] : ~Covered(x, spans)
  BY DEF Gaps
<1>2. CASE s[1] <= a
  BY <1>1, <1>2 DEF Covered, Overlaps
<1>3. CASE a < s[1]
  BY <1>1, <1>3 DEF Covered, Overlaps
<1> QED BY <1>2, <1>3
-----------------------------------------------------------------------------
(* Requests.                                                               *)

LEMMA RequestType ==
  ASSUME NEW p \in Requests, Acceptable(p)
  PROVE  /\ p \in Part /\ p.role = "primary" /\ p.active = FALSE
         /\ Last(p) \in Nat /\ p.start <= Last(p)
<1>1. p \in [num: {0}, role: {"primary"}, start: Nat, size: Nat, type: Nat,
             active: {FALSE}, ebr: {0}, name: {"unnamed"}]
  BY InputAssumption DEF Requests
<1>2. p.size \in Nat \ {0} /\ p.start \in Nat
  BY <1>1 DEF Acceptable
<1>3. p \in Part
  <2>1. PICK s \in Nat, z \in Nat \ {0}, y \in Nat :
          p = [num |-> 0, role |-> "primary", start |-> s, size |-> z, type |-> y,
               active |-> FALSE, ebr |-> 0, name |-> "unnamed"]
    BY <1>1, <1>2
  <2> QED BY <2>1, InputAssumption DEF Part, Roles
<1>4. Last(p) \in Nat /\ p.start <= Last(p)
  BY <1>2 DEF Last
<1> QED BY <1>1, <1>3, <1>4

LEMMA GapType ==
  ASSUME TypeOK, kind = "mbr"
  PROVE  /\ \A g \in TopGaps : g[1] \in Nat /\ g[2] \in Nat /\ 1 <= g[1] /\ g[2] <= LastMbr
         /\ \A e \in Extended(parts) : \A g \in LogicalGaps(e) :
              g[1] \in Nat /\ g[2] \in Nat /\ e.start <= g[1] /\ g[2] <= Last(e)
<1>1. \A g \in TopGaps : g[1] \in 1..LastMbr /\ g[2] \in 1..LastMbr
  BY DEF TopGaps, Gaps
<1>2. ASSUME NEW e \in Extended(parts), NEW g \in LogicalGaps(e)
      PROVE  g[1] \in e.start..Last(e) /\ g[2] \in e.start..Last(e)
  BY DEF LogicalGaps, Gaps
<1>3. \A e \in Extended(parts) : e.start \in Nat /\ Last(e) \in Nat
  BY DEF Extended, TypeOK, Part, Last
<1> QED BY <1>1, <1>2, <1>3, LastMbrType

\* The extended partition add_logical makes, and the logical one in it.
LEMMA NewExtendedType ==
  ASSUME TypeOK, NEW p \in Requests, NEW n \in 1..4, NEW g \in TopGaps, FitsNew(p, g)
  PROVE  LET x == NewExtended(g, n)
         IN  /\ x \in Part /\ x.role = "extended" /\ x.num = n
             /\ x.start = RoundUp(g[1]) /\ Last(x) = g[2]
             /\ g[1] <= x.start /\ x.start < p.start /\ Last(p) <= g[2]
             /\ x.type \in ExtTypes /\ x.active = FALSE
<1>1. kind = "mbr" /\ Acceptable(p)
  BY DEF FitsNew, AcceptableMbr
<1>2. g[1] \in Nat /\ g[2] \in Nat
  BY <1>1, GapType
<1>3. RoundUp(g[1]) \in Nat /\ g[1] <= RoundUp(g[1])
  BY <1>2, RoundUpBounds
<1>4. RoundUp(g[1]) < p.start /\ p.start <= Last(p) /\ Last(p) <= g[2] /\ p.start \in Nat /\ Last(p) \in Nat
  BY <1>1, RequestType DEF FitsNew, Part
<1>5. g[2] - RoundUp(g[1]) + 1 \in Nat \ {0}
  BY <1>2, <1>3, <1>4
<1> DEFINE x == NewExtended(g, n)
           y == IF g[2] > ChsLimit THEN 15 ELSE 5
<1>6. x = [num |-> n, role |-> "extended", start |-> RoundUp(g[1]),
           size |-> g[2] - RoundUp(g[1]) + 1, type |-> y, active |-> FALSE,
           ebr |-> 0, name |-> "unnamed"]
  BY DEF NewExtended
<1>7. y \in Nat /\ y \in ExtTypes
  BY DEF ExtTypes
<1>8. x \in Part
  <2> HIDE DEF x, y
  <2> QED BY <1>3, <1>5, <1>6, <1>7, InputAssumption DEF Part, Roles
<1>9. Last(x) = g[2]
  <2> HIDE DEF x, y
  <2> QED BY <1>2, <1>3, <1>6 DEF Last
<1> HIDE DEF y
<1> QED BY <1>3, <1>4, <1>6, <1>7, <1>8, <1>9

-----------------------------------------------------------------------------
(* Type correctness.                                                       *)

LEMMA InitType == Init => TypeOK
BY InputAssumption DEF Init, Load, TypeOK, Table

LEMMA EditType ==
  ASSUME TypeOK, NEW S \in SUBSET Part, IsFiniteSet(S), Edit(S)
  PROVE  TypeOK'
BY DEF TypeOK, Edit

LEMMA NextType == TypeOK /\ [Next]_vars => TypeOK'
<1> SUFFICES ASSUME TypeOK, [Next]_vars PROVE TypeOK'
  OBVIOUS
<1>1. ASSUME NEW k \in {"none", "mbr", "gpt"}, New(k)
      PROVE  TypeOK'
  BY <1>1, FS_EmptySet, GeometryAssumption DEF TypeOK, New, LastUsable
<1>2. CASE AddGpt
  <2>1. PICK p \in Requests, n \in 1..MaxEntries, name \in Names :
          FitsGpt(p) /\ Edit(parts \cup {[p EXCEPT !.num = n, !.name = name]})
    BY <1>2 DEF AddGpt
  <2>2. [p EXCEPT !.num = n, !.name = name] \in Part
    <3>1. p \in Part
      BY <2>1, RequestType DEF FitsGpt
    <3>2. n \in Nat
      BY GeometryAssumption
    <3> QED BY <3>1, <3>2 DEF Part
  <2>3. IsFiniteSet(parts \cup {[p EXCEPT !.num = n, !.name = name]})
    BY FS_AddElement DEF TypeOK
  <2> QED BY <2>1, <2>2, <2>3, EditType DEF TypeOK
<1>3. CASE AddPrimary
  <2>1. PICK p \in Requests, n \in 1..4 :
          FitsPrimary(p) /\ Edit(Renumber(parts \cup {[p EXCEPT !.num = n]}))
    BY <1>3 DEF AddPrimary
  <2>2. [p EXCEPT !.num = n] \in Part
    <3>1. p \in Part
      BY <2>1, RequestType DEF FitsPrimary, AcceptableMbr
    <3> QED BY <3>1 DEF Part
  <2>3. IsFiniteSet(parts \cup {[p EXCEPT !.num = n]})
    BY FS_AddElement DEF TypeOK
  <2> QED BY <2>1, <2>2, <2>3, EditType, RenumberType DEF TypeOK
<1>4. CASE AddLogicalInside
  <2>0. PICK e \in Extended(parts) : \E g \in LogicalGaps(e), p \in Requests :
          /\ FitsInside(p, e, g)
          /\ Edit(Renumber(parts \cup {[p EXCEPT !.num = 99, !.role = "logical", !.ebr = g[1]]}))
    BY <1>4 DEF AddLogicalInside, FirstExtended
  <2>1. PICK g \in LogicalGaps(e), p \in Requests :
          /\ FitsInside(p, e, g)
          /\ Edit(Renumber(parts \cup {[p EXCEPT !.num = 99, !.role = "logical", !.ebr = g[1]]}))
    BY <2>0
  <2>2. [p EXCEPT !.num = 99, !.role = "logical", !.ebr = g[1]] \in Part
    BY <2>1, RequestType, GapType DEF FitsInside, AcceptableMbr, Part, Roles
  <2>3. IsFiniteSet(parts \cup {[p EXCEPT !.num = 99, !.role = "logical", !.ebr = g[1]]})
    BY FS_AddElement DEF TypeOK
  <2> QED BY <2>1, <2>2, <2>3, EditType, RenumberType DEF TypeOK
<1>5. CASE AddLogicalNew
  <2>1. PICK n \in 1..4, g \in TopGaps, p \in Requests :
          /\ FitsNew(p, g)
          /\ Edit(Renumber(parts \cup
               {NewExtended(g, n), [p EXCEPT !.num = 99, !.role = "logical", !.ebr = RoundUp(g[1])]}))
    BY <1>5 DEF AddLogicalNew
  <2> DEFINE l == [p EXCEPT !.num = 99, !.role = "logical", !.ebr = RoundUp(g[1])]
  <2>2. l \in Part
    BY <2>1, RequestType, GapType, RoundUpBounds DEF FitsNew, AcceptableMbr, Part, Roles
  <2>3. NewExtended(g, n) \in Part
    BY <2>1, NewExtendedType
  <2> HIDE DEF l
  <2>4. IsFiniteSet((parts \cup {NewExtended(g, n)}) \cup {l})
    BY FS_AddElement DEF TypeOK
  <2>5. parts \cup {NewExtended(g, n), l} = (parts \cup {NewExtended(g, n)}) \cup {l}
    OBVIOUS
  <2>6. parts \cup {NewExtended(g, n), l} \in SUBSET Part
    BY <2>2, <2>3 DEF TypeOK
  <2>7. Edit(Renumber(parts \cup {NewExtended(g, n), l}))
    BY <2>1 DEF l
  <2> QED BY <2>4, <2>5, <2>6, <2>7, EditType, RenumberType
<1>6. ASSUME NEW p \in parts, Delete(p)
      PROVE  TypeOK'
  <2> DEFINE T == (parts \ {p}) \ (IF p.role = "extended" THEN Logicals(parts) ELSE {})
  <2>1. T \in SUBSET parts /\ Edit(Renumber(T))
    BY <1>6 DEF Delete
  <2> HIDE DEF T
  <2>2. T \in SUBSET Part /\ IsFiniteSet(T)
    BY <2>1, FS_Subset DEF TypeOK
  <2> QED BY <2>1, <2>2, EditType, RenumberType
<1>7. ASSUME NEW p \in parts, NEW q \in Part, Edit((parts \ {p}) \cup {q})
      PROVE  TypeOK'
  <2>1. IsFiniteSet((parts \ {p}) \cup {q})
    BY FS_AddElement, FS_RemoveElement DEF TypeOK
  <2> QED BY <1>7, <2>1, EditType DEF TypeOK
<1>8. ASSUME NEW p \in parts, NEW y \in Types, SetType(p, y)
      PROVE  TypeOK'
  <2>1. [p EXCEPT !.type = y] \in Part
    BY InputAssumption DEF TypeOK, Part
  <2> QED BY <1>7, <1>8, <2>1 DEF SetType
<1>9. ASSUME NEW p \in parts, NEW n \in Names, SetName(p, n)
      PROVE  TypeOK'
  <2>1. [p EXCEPT !.name = n] \in Part
    BY DEF TypeOK, Part
  <2> QED BY <1>7, <1>9, <2>1 DEF SetName
<1>10. ASSUME NEW p \in parts, NEW on \in BOOLEAN, SetActive(p, on)
       PROVE  TypeOK'
  <2> DEFINE F(q) == IF q = p THEN [q EXCEPT !.active = on]
                     ELSE IF on THEN [q EXCEPT !.active = FALSE] ELSE q
             T == {F(q) : q \in parts}
             f == [q \in parts |-> F(q)]
  <2>1. Edit(T)
    BY <1>10 DEF SetActive
  <2>2. \A q \in parts : F(q) \in Part
    BY DEF TypeOK, Part
  <2>3. f \in Surjection(parts, T)
    BY DEF Surjection
  <2>4. T \in SUBSET Part
    BY <2>2
  <2> HIDE DEF T, f
  <2>5. IsFiniteSet(T)
    BY <2>3, FS_Surjection DEF TypeOK
  <2> QED BY <2>1, <2>4, <2>5, EditType
<1>11. CASE UNCHANGED vars
  BY <1>11 DEF TypeOK, vars
<1> QED BY <1>1, <1>2, <1>3, <1>4, <1>5, <1>6, <1>8, <1>9, <1>10, <1>11 DEF Next

\* The table is well formed in every reachable state: every variable has its
\* type and the table holds finitely many partitions.
THEOREM TypeCorrect == Spec => []TypeOK
<1> QED BY InitType, NextType, PTL DEF Spec
-----------------------------------------------------------------------------
(* Layout: adding one partition to a table that is laid out well.          *)

LEMMA AddTopLayout ==
  ASSUME NEW S \in SUBSET Part, NEW k, k # "none", NEW f, NEW e, LayoutOf(k, S, f, e),
         NEW x \in Part, x.role \in {"primary", "extended"},
         x.role = "extended" => k # "gpt" /\ Extended(S) = {},
         IF k = "gpt" THEN f <= x.start /\ Last(x) <= e ELSE 1 <= x.start /\ Last(x) <= LastMbr,
         \A q \in NonLogical(S) : ~Overlaps(x.start, Last(x), q.start, Last(q))
  PROVE  LayoutOf(k, S \cup {x}, f, e)
<1>1. NonLogical(S \cup {x}) = NonLogical(S) \cup {x} /\ Logicals(S \cup {x}) = Logicals(S)
  BY DEF NonLogical, Logicals
<1>2. Extended(S) \subseteq Extended(S \cup {x})
  BY DEF Extended
<1>3. \A p, q \in Extended(S \cup {x}) : p = q
  BY DEF LayoutOf, TopLayout, Extended
<1>4. \A q \in NonLogical(S) : ~Overlaps(q.start, Last(q), x.start, Last(x))
  BY DEF Overlaps
<1>5. TopLayout(k, S \cup {x}, f, e)
  BY <1>1, <1>3, <1>4 DEF LayoutOf, TopLayout
<1>6. LogicalLayout(S \cup {x})
  BY <1>1, <1>2 DEF LayoutOf, LogicalLayout
<1> QED BY <1>5, <1>6 DEF LayoutOf

LEMMA AddLogicalLayout ==
  ASSUME NEW S \in SUBSET Part, NEW f, NEW e, LayoutOf("mbr", S, f, e),
         NEW l \in Part, l.role = "logical",
         NEW x \in Extended(S), x.start < l.start, Last(l) <= Last(x),
         \A m \in Logicals(S) : ~Overlaps(l.start - 1, Last(l), m.start - 1, Last(m))
  PROVE  LayoutOf("mbr", S \cup {l}, f, e)
<1>1. Logicals(S \cup {l}) = Logicals(S) \cup {l} /\ NonLogical(S \cup {l}) = NonLogical(S)
  BY DEF NonLogical, Logicals
<1>2. Extended(S \cup {l}) = Extended(S)
  BY DEF Extended
<1>3. \A m \in Logicals(S) : ~Overlaps(m.start - 1, Last(m), l.start - 1, Last(l))
  BY DEF Overlaps
<1>4. TopLayout("mbr", S \cup {l}, f, e)
  BY <1>1, <1>2 DEF LayoutOf, TopLayout
<1>5. LogicalLayout(S \cup {l})
  BY <1>1, <1>2, <1>3 DEF LayoutOf, LogicalLayout
<1> QED BY <1>4, <1>5 DEF LayoutOf

\* A logical partition that fits in a gap of the extended partition e leaves
\* the block before it free of the other logical ones and their blocks.
LEMMA InsideAvoidsLogicals ==
  ASSUME TypeOK, NEW e \in Extended(parts), NEW g \in LogicalGaps(e),
         NEW p \in Requests, FitsInside(p, e, g), NEW m \in Logicals(parts)
  PROVE  ~Overlaps(p.start - 1, Last(p), m.start - 1, Last(m))
<1> DEFINE spans == {<<e.start, e.start>>} \cup {<<l.start - 1, Last(l)>> : l \in Logicals(parts)}
           s == <<m.start - 1, Last(m)>>
<1>1. s \in spans /\ g \in Gaps(e.start, Last(e), spans)
  BY DEF LogicalGaps
<1>2. e.start \in Int /\ Last(e) \in Int
  BY DEF TypeOK, Extended, Part, Last
<1>3. m.start - 1 \in Int /\ Last(m) \in Int /\ m.start - 1 <= Last(m)
  BY DEF TypeOK, Logicals, Part, Last
<1>4. p \in Part /\ Last(p) \in Nat /\ p.start <= Last(p) /\ g[1] \in Nat
  BY RequestType, GapType DEF FitsInside, AcceptableMbr
<1>5. p.start \in Nat /\ p.start - 1 \in Int /\ Last(p) \in Int /\ p.start - 1 <= Last(p)
  BY <1>4 DEF Part
<1>6. g[1] <= p.start - 1 /\ Last(p) <= g[2]
  BY <1>4, <1>5 DEF FitsInside
<1>7. s[1] = m.start - 1 /\ s[2] = Last(m)
  OBVIOUS
<1> HIDE DEF s, spans
<1> QED BY <1>1, <1>2, <1>3, <1>5, <1>6, <1>7, GapAvoidsSpans

\* Nor does what lies in a gap at the top level overlap a partition there.
LEMMA TopGapAvoids ==
  ASSUME TypeOK, kind = "mbr", NEW g \in TopGaps, NEW q \in NonLogical(parts),
         NEW a \in Int, NEW b \in Int, g[1] <= a, a <= b, b <= g[2]
  PROVE  ~Overlaps(a, b, q.start, Last(q))
<1> DEFINE spans == {<<p.start, Last(p)>> : p \in NonLogical(parts)}
           s == <<q.start, Last(q)>>
<1>1. s \in spans /\ g \in Gaps(1, LastMbr, spans)
  BY DEF TopGaps
<1>2. q.start \in Int /\ Last(q) \in Int /\ q.start <= Last(q)
  BY DEF TypeOK, NonLogical, Part, Last
<1>3. s[1] = q.start /\ s[2] = Last(q)
  OBVIOUS
<1> HIDE DEF s, spans
<1> QED BY <1>1, <1>2, <1>3, LastMbrType, GapAvoidsSpans

-----------------------------------------------------------------------------
(* Layout is preserved by every operation.                                 *)

LEMMA EditLayout ==
  ASSUME NEW S, Edit(S), LayoutOf(kind, S, first, last)
  PROVE  Layout'
BY DEF Edit, Layout, LayoutOf, TopLayout, LogicalLayout

LEMMA NextLayout == TypeOK /\ Layout /\ [Next]_vars => Layout'
<1> SUFFICES ASSUME TypeOK, Layout, [Next]_vars PROVE Layout'
  OBVIOUS
<1>0. parts \in SUBSET Part /\ LayoutOf(kind, parts, first, last)
  BY DEF TypeOK, Layout
<1>1. ASSUME NEW k \in {"none", "mbr", "gpt"}, New(k)
      PROVE  Layout'
  BY <1>1 DEF New, Layout, LayoutOf, TopLayout, LogicalLayout, NonLogical, Logicals, Extended
<1>2. CASE AddGpt
  <2>1. PICK p \in Requests, n \in 1..MaxEntries, name \in Names :
          FitsGpt(p) /\ Edit(parts \cup {[p EXCEPT !.num = n, !.name = name]})
    BY <1>2 DEF AddGpt
  <2> DEFINE x == [p EXCEPT !.num = n, !.name = name]
  <2>2. p \in Part /\ p.role = "primary" /\ n \in Nat /\ kind = "gpt"
    <3>1. p \in Part /\ p.role = "primary" /\ kind = "gpt"
      BY <2>1, RequestType DEF FitsGpt
    <3>2. n \in Nat
      BY GeometryAssumption
    <3> QED BY <3>1, <3>2
  <2>3. x \in Part /\ x.role = "primary" /\ x.start = p.start /\ Last(x) = Last(p)
    BY <2>2 DEF Part, Last
  <2>4. first <= p.start /\ Last(p) <= last /\ \A q \in NonLogical(parts) : ~Overlaps(p.start, Last(p), q.start, Last(q))
    BY <2>1 DEF FitsGpt, NonLogical
  <2> HIDE DEF x
  <2>5. LayoutOf(kind, parts \cup {x}, first, last)
    BY <1>0, <2>2, <2>3, <2>4, AddTopLayout
  <2> QED BY <2>1, <2>5, EditLayout DEF x
<1>3. CASE AddPrimary
  <2>1. PICK p \in Requests, n \in 1..4 :
          FitsPrimary(p) /\ Edit(Renumber(parts \cup {[p EXCEPT !.num = n]}))
    BY <1>3 DEF AddPrimary
  <2> DEFINE x == [p EXCEPT !.num = n]
  <2>2. p \in Part /\ p.role = "primary" /\ kind = "mbr"
    BY <2>1, RequestType DEF FitsPrimary, AcceptableMbr
  <2>3. x \in Part /\ x.role = "primary" /\ x.start = p.start /\ Last(x) = Last(p)
    BY <2>2 DEF Part, Last
  <2>4. 1 <= p.start /\ Last(p) <= LastMbr
    <3>1. Last(p) < NBlocks /\ Last(p) <= MbrLimit /\ p.start # 0
      BY <2>1 DEF FitsPrimary, AcceptableMbr, Acceptable
    <3>2. Last(p) \in Nat
      BY <2>1, RequestType DEF FitsPrimary, AcceptableMbr
    <3>3. p.start \in Nat
      BY <2>2 DEF Part
    <3> QED BY <3>1, <3>2, <3>3, GeometryAssumption DEF LastMbr
  <2>5. \A q \in NonLogical(parts) : ~Overlaps(p.start, Last(p), q.start, Last(q))
    BY <2>1 DEF FitsPrimary
  <2> HIDE DEF x
  <2>6. LayoutOf(kind, parts \cup {x}, first, last)
    BY <1>0, <2>2, <2>3, <2>4, <2>5, AddTopLayout
  <2>7. LayoutOf(kind, Renumber(parts \cup {x}), first, last)
    BY <1>0, <2>3, <2>6, RenumberLayout
  <2> QED BY <2>1, <2>7, EditLayout DEF x
<1>4. CASE AddLogicalInside
  <2>0. PICK e \in Extended(parts) : \E g \in LogicalGaps(e), p \in Requests :
          /\ FitsInside(p, e, g)
          /\ Edit(Renumber(parts \cup {[p EXCEPT !.num = 99, !.role = "logical", !.ebr = g[1]]}))
    BY <1>4 DEF AddLogicalInside, FirstExtended
  <2>1. PICK g \in LogicalGaps(e), p \in Requests :
          /\ FitsInside(p, e, g)
          /\ Edit(Renumber(parts \cup {[p EXCEPT !.num = 99, !.role = "logical", !.ebr = g[1]]}))
    BY <2>0
  <2> DEFINE l == [p EXCEPT !.num = 99, !.role = "logical", !.ebr = g[1]]
  <2>2. p \in Part /\ kind = "mbr" /\ g[1] \in Nat
    BY <2>1, RequestType, GapType DEF FitsInside, AcceptableMbr
  <2>3. l \in Part /\ l.role = "logical" /\ l.start = p.start /\ Last(l) = Last(p)
    BY <2>2 DEF Part, Last, Roles
  <2>4. e.start < p.start /\ Last(p) <= Last(e)
    BY <2>1 DEF FitsInside
  <2>5. \A m \in Logicals(parts) : ~Overlaps(p.start - 1, Last(p), m.start - 1, Last(m))
    BY <2>1, InsideAvoidsLogicals
  <2> HIDE DEF l
  <2>6. LayoutOf(kind, parts \cup {l}, first, last)
    BY <1>0, <2>2, <2>3, <2>4, <2>5, AddLogicalLayout
  <2>7. LayoutOf(kind, Renumber(parts \cup {l}), first, last)
    BY <1>0, <2>3, <2>6, RenumberLayout
  <2> QED BY <2>1, <2>7, EditLayout DEF l
<1>5. CASE AddLogicalNew
  <2>1. PICK n \in 1..4, g \in TopGaps, p \in Requests :
          /\ FitsNew(p, g)
          /\ Edit(Renumber(parts \cup
               {NewExtended(g, n), [p EXCEPT !.num = 99, !.role = "logical", !.ebr = RoundUp(g[1])]}))
    BY <1>5 DEF AddLogicalNew
  <2> DEFINE l == [p EXCEPT !.num = 99, !.role = "logical", !.ebr = RoundUp(g[1])]
             x == NewExtended(g, n)
  <2>2. /\ p \in Part /\ kind = "mbr" /\ p.start <= Last(p)
        /\ g[1] \in Nat /\ g[2] \in Nat /\ 1 <= g[1] /\ g[2] <= LastMbr
        /\ RoundUp(g[1]) \in Nat
    BY <2>1, RequestType, GapType, RoundUpBounds DEF FitsNew, AcceptableMbr
  <2>3. l \in Part /\ l.role = "logical" /\ l.start = p.start /\ Last(l) = Last(p)
    BY <2>2 DEF Part, Last, Roles
  <2>4. /\ x \in Part /\ x.role = "extended" /\ Last(x) = g[2]
        /\ g[1] <= x.start /\ x.start < p.start /\ Last(p) <= g[2]
    BY <2>1, NewExtendedType
  <2>5. Extended(parts) = {} /\ Logicals(parts) = {}
    BY <1>5, <1>0 DEF AddLogicalNew, LayoutOf, LogicalLayout
  <2> HIDE DEF l, x
  <2>6. x.start \in Nat /\ Last(x) \in Int /\ 1 <= x.start /\ x.start <= Last(x) /\ Last(p) \in Int /\ p.start \in Int
    BY <2>2, <2>4 DEF Part, Last
  <2>7. \A q \in NonLogical(parts) : ~Overlaps(x.start, Last(x), q.start, Last(q))
    BY <2>2, <2>4, <2>6, TopGapAvoids
  <2>8. LayoutOf(kind, parts \cup {x}, first, last)
    BY <1>0, <2>2, <2>4, <2>5, <2>6, <2>7, AddTopLayout
  <2>9. x \in Extended(parts \cup {x}) /\ Logicals(parts \cup {x}) = {}
    BY <2>4, <2>5 DEF Extended, Logicals
  <2>10. LayoutOf(kind, (parts \cup {x}) \cup {l}, first, last)
    BY <1>0, <2>2, <2>3, <2>4, <2>8, <2>9, AddLogicalLayout
  <2>11. (parts \cup {x}) \cup {l} = parts \cup {x, l}
    OBVIOUS
  <2>12. LayoutOf(kind, Renumber(parts \cup {x, l}), first, last)
    BY <1>0, <2>3, <2>4, <2>10, <2>11, RenumberLayout
  <2> QED BY <2>1, <2>12, EditLayout DEF l, x
<1>6. ASSUME NEW p \in parts, Delete(p)
      PROVE  Layout'
  <2> DEFINE T == (parts \ {p}) \ (IF p.role = "extended" THEN Logicals(parts) ELSE {})
             u == [q \in parts |-> q]
  <2>1. T \in SUBSET parts /\ Edit(Renumber(T))
    BY <1>6 DEF Delete
  <2>2. Logicals(T) = {} \/ \A x \in Extended(parts) : u[x] \in T
    <3>1. CASE p.role = "extended"
      BY <3>1 DEF Logicals
    <3>2. CASE p.role # "extended"
      BY <3>2 DEF Extended
    <3> QED BY <3>1, <3>2
  <2>3. u \in [parts -> Part] /\ \A q \in parts : u[q] = q
    BY <1>0
  <2> HIDE DEF T, u
  <2>4. LayoutOf(kind, T, first, last)
    BY <1>0, <2>1, <2>2, <2>3, SameLayout
  <2>5. LayoutOf(kind, Renumber(T), first, last)
    BY <1>0, <2>1, <2>4, RenumberLayout
  <2> QED BY <2>1, <2>5, EditLayout
<1>7. ASSUME NEW u \in [parts -> Part], Edit({u[q] : q \in parts}),
             \A q \in parts : u[q].role = q.role /\ u[q].start = q.start /\ u[q].size = q.size
      PROVE  Layout'
  <2> DEFINE T == {u[q] : q \in parts}
  <2>1. \A q \in T : \E p \in parts : q = u[p]
    OBVIOUS
  <2>2. \A x \in Extended(parts) : u[x] \in T
    BY DEF Extended
  <2>3. Edit(T)
    BY <1>7
  <2> HIDE DEF T
  <2>4. LayoutOf(kind, T, first, last)
    BY <1>0, <1>7, <2>1, <2>2, SameLayout
  <2> QED BY <2>3, <2>4, EditLayout
<1>8. ASSUME NEW p \in parts, NEW y \in Types, SetType(p, y)
      PROVE  Layout'
  <2> DEFINE u == [q \in parts |-> IF q = p THEN [p EXCEPT !.type = y] ELSE q]
  <2>1. u \in [parts -> Part]
    BY <1>0, InputAssumption DEF Part
  <2>2. \A q \in parts : u[q].role = q.role /\ u[q].start = q.start /\ u[q].size = q.size
    BY <1>0 DEF Part
  <2>3. (parts \ {p}) \cup {[p EXCEPT !.type = y]} = {u[q] : q \in parts}
    OBVIOUS
  <2>4. Edit({u[q] : q \in parts})
    BY <1>8, <2>3 DEF SetType
  <2> HIDE DEF u
  <2> QED BY <1>7, <2>1, <2>2, <2>4
<1>9. ASSUME NEW p \in parts, NEW n \in Names, SetName(p, n)
      PROVE  Layout'
  <2> DEFINE u == [q \in parts |-> IF q = p THEN [p EXCEPT !.name = n] ELSE q]
  <2>1. u \in [parts -> Part]
    BY <1>0 DEF Part
  <2>2. \A q \in parts : u[q].role = q.role /\ u[q].start = q.start /\ u[q].size = q.size
    BY <1>0 DEF Part
  <2>3. (parts \ {p}) \cup {[p EXCEPT !.name = n]} = {u[q] : q \in parts}
    OBVIOUS
  <2>4. Edit({u[q] : q \in parts})
    BY <1>9, <2>3 DEF SetName
  <2> HIDE DEF u
  <2> QED BY <1>7, <2>1, <2>2, <2>4
<1>10. ASSUME NEW p \in parts, NEW on \in BOOLEAN, SetActive(p, on)
       PROVE  Layout'
  <2> DEFINE u == [q \in parts |-> IF q = p THEN [q EXCEPT !.active = on]
                                   ELSE IF on THEN [q EXCEPT !.active = FALSE] ELSE q]
  <2>1. u \in [parts -> Part]
    BY <1>0 DEF Part
  <2>2. \A q \in parts : u[q].role = q.role /\ u[q].start = q.start /\ u[q].size = q.size
    BY <1>0 DEF Part
  <2>3. Edit({u[q] : q \in parts})
    BY <1>10 DEF SetActive
  <2> HIDE DEF u
  <2> QED BY <1>7, <2>1, <2>2, <2>3
<1>11. CASE UNCHANGED vars
  BY <1>11 DEF Layout, LayoutOf, TopLayout, LogicalLayout, vars
<1> QED BY <1>1, <1>2, <1>3, <1>4, <1>5, <1>6, <1>8, <1>9, <1>10, <1>11 DEF Next

\* If the table read from the disk is laid out well, so is every table that
\* operations on it can produce.
THEOREM LayoutCorrect ==
  ASSUME \A t \in ReadTables : LayoutOf(t.kind, t.parts, t.first, t.last)
  PROVE  Spec => []Layout
<1>1. Init => Layout
  BY DEF Init, Load, Layout
<1> QED BY <1>1, NextLayout, InitType, NextType, PTL DEF Spec
-----------------------------------------------------------------------------
(* The chain of extended boot records.                                     *)

\* Where the record of a logical partition goes, in a table laid out well.
LEMMA RecordPlace ==
  ASSUME TypeOK, Layout, NEW l \in Logicals(parts)
  PROVE  /\ RecordOf(parts, l) \in Int
         /\ \A e \in Extended(parts) : e.start <= RecordOf(parts, l)
         /\ RecordOf(parts, l) < l.start
         /\ \A q \in Before(parts, l) : Last(q) < RecordOf(parts, l)
<1>1. PICK e \in Extended(parts) : e.start < l.start /\ Last(l) <= Last(e)
  BY DEF Layout, LayoutOf, LogicalLayout
<1>2. Extended(parts) = {e}
  BY DEF Layout, LayoutOf, TopLayout
<1>3. e.start \in Nat /\ l.start \in Nat /\ l.ebr \in Nat
  BY DEF TypeOK, Extended, Logicals, Part
<1>4. ASSUME NEW q \in Before(parts, l)
      PROVE  e.start < q.start /\ q.start <= Last(q) /\ Last(q) < l.start - 1 /\ Last(q) \in Int /\ q.start \in Int
  <2>1. q \in Logicals(parts) /\ q.start < l.start
    BY DEF Before
  <2>2. q.start \in Nat /\ Last(q) \in Nat /\ q.start <= Last(q) /\ l.start <= Last(l) /\ Last(l) \in Nat
    BY <2>1 DEF TypeOK, Logicals, Part, Last
  <2>3. ~Overlaps(q.start - 1, Last(q), l.start - 1, Last(l))
    BY <2>1, <2>2, <1>3 DEF Layout, LayoutOf, LogicalLayout
  <2>4. \E x \in Extended(parts) : x.start < q.start
    BY <2>1 DEF Layout, LayoutOf, LogicalLayout
  <2> QED BY <1>2, <1>3, <2>1, <2>2, <2>3, <2>4 DEF Overlaps
<1>5. CASE Before(parts, l) = {}
  <2>1. e.num \in Nat
    BY DEF TypeOK, Extended, Part
  <2>2. ChainHead(parts) = e.start
    BY <1>2, <2>1 DEF ChainHead
  <2>3. RecordOf(parts, l) = e.start
    BY <1>5, <2>2 DEF RecordOf
  <2> QED BY <1>1, <1>2, <1>3, <1>5, <2>3
<1>6. CASE Before(parts, l) # {} /\ l.ebr < l.start /\ \A q \in Before(parts, l) : Last(q) < l.ebr
  <2>1. RecordOf(parts, l) = l.ebr
    BY <1>6 DEF RecordOf
  <2>2. PICK q \in Before(parts, l) : TRUE
    BY <1>6
  <2> QED BY <1>2, <1>3, <1>4, <1>6, <2>1, <2>2
<1>7. CASE Before(parts, l) # {} /\ ~(l.ebr < l.start /\ \A q \in Before(parts, l) : Last(q) < l.ebr)
  <2>1. RecordOf(parts, l) = l.start - 1
    BY <1>7 DEF RecordOf
  <2>2. PICK q \in Before(parts, l) : TRUE
    BY <1>7
  <2> QED BY <1>2, <1>3, <1>4, <2>1, <2>2
<1> QED BY <1>5, <1>6, <1>7

LEMMA LayoutChain == TypeOK /\ Layout => ChainAscends /\ RecordsOutside
<1> SUFFICES ASSUME TypeOK, Layout PROVE ChainAscends /\ RecordsOutside
  OBVIOUS
<1>1. ChainAscends
  <2>1. \A l \in Logicals(parts) : \E e \in Extended(parts) : TRUE
    BY DEF Layout, LayoutOf, LogicalLayout
  <2> QED BY <2>1, RecordPlace DEF ChainAscends
<1>2. ASSUME NEW l \in Logicals(parts), NEW p \in NonLogical(parts) \cup Logicals(parts),
             p.role # "extended"
      PROVE  RecordOf(parts, l) \notin p.start..Last(p)
  <2> DEFINE r == RecordOf(parts, l)
  <2>1. PICK e \in Extended(parts) : e.start < l.start /\ Last(l) <= Last(e)
    BY DEF Layout, LayoutOf, LogicalLayout
  <2>2. /\ r \in Int /\ e.start <= r /\ r < l.start
        /\ \A q \in Before(parts, l) : Last(q) < r
    BY RecordPlace
  <2>3. /\ l.start \in Nat /\ Last(l) \in Nat /\ l.start <= Last(l)
        /\ p.start \in Nat /\ Last(p) \in Nat /\ e.start \in Nat /\ Last(e) \in Nat
    <3>1. l \in Part /\ p \in Part /\ e \in Part
      BY DEF TypeOK, Logicals, NonLogical, Extended
    <3>2. \A x \in Part : x.start \in Nat /\ Last(x) \in Nat /\ x.start <= Last(x)
      BY DEF Part, Last
    <3> QED BY <3>1, <3>2
  <2> SUFFICES r \notin p.start..Last(p)
    OBVIOUS
  <2> HIDE DEF r
  <2>4. CASE p \in NonLogical(parts)
    <3>1. e \in NonLogical(parts) /\ e # p
      BY <1>2 DEF Extended, NonLogical
    <3>2. ~Overlaps(p.start, Last(p), e.start, Last(e))
      BY <2>4, <3>1 DEF Layout, LayoutOf, TopLayout
    <3> QED BY <2>1, <2>2, <2>3, <3>2 DEF Overlaps
  <2>5. CASE p \in Logicals(parts)
    <3>1. CASE p.start < l.start
      <4>1. p \in Before(parts, l)
        BY <2>5, <3>1 DEF Before
      <4> QED BY <2>2, <2>3, <4>1
    <3>2. CASE p.start >= l.start
      BY <2>2, <2>3, <3>2
    <3> QED BY <2>3, <3>1, <3>2
  <2> QED BY <2>4, <2>5
<1> QED BY <1>1, <1>2 DEF RecordsOutside

\* Writing a table never puts a record of the chain over a block of a
\* partition, if the table read from the disk was laid out well; without that
\* (a chain out of disk order) it can.
THEOREM RecordsSafe ==
  ASSUME \A t \in ReadTables : LayoutOf(t.kind, t.parts, t.first, t.last)
  PROVE  Spec => []RecordsOutside
BY LayoutCorrect, TypeCorrect, LayoutChain, PTL

\* The chain written can be read back: it goes forward from the first block of
\* the extended partition, each record between two partitions.
THEOREM ChainCorrect ==
  ASSUME \A t \in ReadTables : LayoutOf(t.kind, t.parts, t.first, t.last)
  PROVE  Spec => []ChainAscends
BY LayoutCorrect, TypeCorrect, LayoutChain, PTL

-----------------------------------------------------------------------------
(* Numbers, which rest on the layout: logical partitions are numbered by    *)
(* the order of their starts, and only the layout says that these differ.   *)

StartsDiffer(S) == \A l, m \in Logicals(S) : l.start = m.start => l = m

-----------------------------------------------------------------------------
(* Numbers in a set of partitions.                                         *)

\* Changing partitions in place leaves as many before each as there were.
LEMMA SameBefore ==
  ASSUME NEW S \in SUBSET Part, IsFiniteSet(S), StartsDiffer(S),
         NEW u \in [S -> Part],
         \A p \in S : u[p].role = p.role /\ u[p].start = p.start,
         NEW T, T = {u[p] : p \in S}, NEW l \in Logicals(S)
  PROVE  Cardinality(Before(T, u[l])) = Cardinality(Before(S, l))
<1> DEFINE A == Before(S, l)
           B == Before(T, u[l])
           f == [x \in A |-> u[x]]
<1>1. l \in S /\ l.role = "logical" /\ u[l].start = l.start
  BY DEF Logicals
<1>2. \A x \in A : x \in S /\ x.role = "logical" /\ x.start < l.start /\ x \in Logicals(S)
  BY DEF Before, Logicals
<1>3. \A x \in A : u[x] \in B
  BY <1>1, <1>2 DEF Before, Logicals
<1>4. \A y \in B : \E x \in A : y = u[x]
  BY <1>1 DEF Before, Logicals
<1>5. \A x, y \in A : u[x] = u[y] => x = y
  BY <1>2 DEF StartsDiffer
<1>6. IsFiniteSet(A)
  BY FiniteBefore
<1> HIDE DEF A, B
<1>7. f \in Injection(A, B)
  BY <1>3, <1>5 DEF Injection, IsInjective
<1>8. f \in Surjection(A, B)
  BY <1>3, <1>4 DEF Surjection
<1>9. ExistsBijection(A, B)
  BY <1>7, <1>8 DEF ExistsBijection, Bijection
<1> QED BY <1>6, <1>9, FS_Bijection DEF A, B

\* Numbers say which partition is meant, and logical ones follow their starts.
LEMMA NumberedStarts ==
  ASSUME NEW S, NEW k, NumberingOf(k, S)
  PROVE  StartsDiffer(S)
<1> SUFFICES ASSUME NEW l \in Logicals(S), NEW m \in Logicals(S), l.start = m.start
             PROVE  l = m
  BY DEF StartsDiffer
<1>1. Before(S, l) = Before(S, m)
  BY DEF Before
<1>2. l.num = m.num /\ l \in S /\ m \in S
  BY <1>1 DEF NumberingOf, Logicals
<1> QED BY <1>2 DEF NumberingOf

\* Renumbering gives the logical partitions the numbers of their places.
LEMMA RenumberNumbers ==
  ASSUME NEW S \in SUBSET Part, IsFiniteSet(S), StartsDiffer(S), NEW k,
         \A p, q \in NonLogical(S) : p.num = q.num => p = q,
         \A p \in NonLogical(S) : p.num \in 1..(IF k = "gpt" THEN MaxEntries ELSE 4),
         k = "gpt" => Logicals(S) = {}
  PROVE  NumberingOf(k, Renumber(S))
<1> DEFINE c(l) == Cardinality(Before(S, l))
           n(l) == [l EXCEPT !.num = 5 + c(l)]
           w == [p \in S |-> IF p.role = "logical" THEN n(p) ELSE p]
           R == Renumber(S)
<1>1. \A l \in S : c(l) \in Nat
  BY FiniteBefore
<1>2. \A l \in Logicals(S) : n(l) \in Part /\ n(l).num = 5 + c(l) /\ n(l).start = l.start /\ n(l).role = l.role
  <2> SUFFICES ASSUME NEW l \in Logicals(S)
               PROVE  n(l) \in Part /\ n(l).num = 5 + c(l) /\ n(l).start = l.start /\ n(l).role = l.role
    OBVIOUS
  <2>1. l \in Part /\ c(l) \in Nat
    BY <1>1 DEF Logicals
  <2> HIDE DEF c
  <2>2. 5 + c(l) \in Nat
    BY <2>1
  <2> QED BY <2>1, <2>2 DEF Part
<1>3. PICK u \in [S -> Part] :
        /\ \A p \in S : u[p].role = p.role /\ u[p].start = p.start
        /\ R = {u[p] : p \in S}
        /\ \A l \in Logicals(S) : n(l) = u[l]
  <2>1. R = NonLogical(S) \cup {n(l) : l \in Logicals(S)}
    BY DEF Renumber
  <2> HIDE DEF n, R
  <2>2. w \in [S -> Part]
    BY <1>2 DEF Logicals
  <2>3. \A p \in S : w[p].role = p.role /\ w[p].start = p.start
    BY <1>2 DEF Logicals
  <2>4. R = {w[p] : p \in S}
    BY <2>1 DEF NonLogical, Logicals
  <2>5. \A l \in Logicals(S) : n(l) = w[l]
    BY DEF Logicals
  <2> HIDE DEF w
  <2> QED BY <2>2, <2>3, <2>4, <2>5
<1>6. \A m \in Logicals(R) : \E l \in Logicals(S) : m = n(l)
  BY RenumberParts
<1> HIDE DEF n, w, R
<1>8. \A m \in Logicals(R) : m.num = 5 + Cardinality(Before(R, m)) /\ m.num \in Nat /\ m.num >= 5
  <2> SUFFICES ASSUME NEW m \in Logicals(R)
               PROVE  m.num = 5 + Cardinality(Before(R, m)) /\ m.num \in Nat /\ m.num >= 5
    OBVIOUS
  <2>1. PICK l \in Logicals(S) : m = n(l)
    BY <1>6
  <2>2. Cardinality(Before(R, u[l])) = Cardinality(Before(S, l))
    <3> HIDE DEF c
    <3>1. l \in Logicals(S) /\ S \in SUBSET Part /\ IsFiniteSet(S) /\ StartsDiffer(S)
      OBVIOUS
    <3>2. \A p \in S : u[p].role = p.role /\ u[p].start = p.start
      BY <1>3
    <3>3. R = {u[p] : p \in S}
      BY <1>3
    <3>4. u \in [S -> Part]
      OBVIOUS
    <3> QED BY ONLY <3>1, <3>2, <3>3, <3>4, SameBefore
  <2>3. l \in S
    BY DEF Logicals
  <2>4. m.num = 5 + Cardinality(Before(S, l)) /\ m = u[l] /\ Cardinality(Before(S, l)) \in Nat
    BY <1>1, <1>2, <1>3, <2>1, <2>3
  <2> QED BY ONLY <2>2, <2>4
<1>9. NonLogical(R) = NonLogical(S)
  BY RenumberParts DEF R
<1>10. ASSUME NEW l \in Logicals(S), NEW m \in Logicals(S), l.start < m.start
       PROVE  c(l) < c(m)
  <2>1. l \in Part /\ m \in Part
    BY DEF Logicals
  <2>2. Before(S, l) \subseteq Before(S, m)
    <3>1. \A x \in Before(S, l) : x \in Logicals(S) /\ x \in Part /\ x.start < l.start
      BY DEF Before, Logicals
    <3>2. \A x \in Part : x.start \in Nat
      BY DEF Part
    <3> QED BY <1>10, <2>1, <3>1, <3>2 DEF Before
  <2>3. l \in Before(S, m) /\ l \notin Before(S, l)
    BY <1>10, <2>1 DEF Before, Part
  <2>4. IsFiniteSet(Before(S, m))
    BY FiniteBefore
  <2>5. c(l) <= c(m) /\ c(l) # c(m)
    BY <2>2, <2>3, <2>4, FS_Subset
  <2>6. c(l) \in Nat /\ c(m) \in Nat
    BY <1>1 DEF Logicals
  <2> HIDE DEF c
  <2> QED BY <2>5, <2>6
<1>11. ASSUME NEW p \in Logicals(R), NEW q \in Logicals(R), p.num = q.num
       PROVE  p = q
  <2>1. PICK l \in Logicals(S) : p = n(l)
    BY <1>6
  <2>2. PICK m \in Logicals(S) : q = n(m)
    BY <1>6
  <2>3. c(l) \in Nat /\ c(m) \in Nat /\ l.start \in Nat /\ m.start \in Nat
    BY <1>1 DEF Logicals, Part
  <2>4. 5 + c(l) = 5 + c(m)
    BY <1>2, <1>11, <2>1, <2>2
  <2>5. c(l) = c(m)
    <3> HIDE DEF c
    <3> QED BY <2>3, <2>4
  <2>6. l.start = m.start
    <3> HIDE DEF c
    <3> QED BY <1>10, <2>3, <2>5
  <2> QED BY <2>1, <2>2, <2>6 DEF StartsDiffer
<1>12. \A p \in NonLogical(R) : p.num \in 1..(IF k = "gpt" THEN MaxEntries ELSE 4)
  BY <1>9
<1>13. ASSUME NEW p \in NonLogical(R), NEW q \in Logicals(R)
       PROVE  p.num # q.num
  <2>1. Logicals(S) # {}
    BY <1>6
  <2>2. p.num \in 1..4
    BY <1>12, <2>1
  <2> QED BY <1>8, <2>2
<1>14. \A p \in R : p \in NonLogical(R) \/ p \in Logicals(R)
  BY DEF NonLogical, Logicals
<1>15. \A p, q \in R : p.num = q.num => p = q
  <2>1. \A p, q \in NonLogical(R) : p.num = q.num => p = q
    BY <1>9
  <2> QED BY <1>11, <1>13, <1>14, <2>1
<1> QED BY <1>8, <1>12, <1>15 DEF NumberingOf, R

\* Changing partitions in place, their numbers too, leaves them numbered.
LEMMA KeptNumbers ==
  ASSUME NEW S \in SUBSET Part, IsFiniteSet(S), NEW k, NumberingOf(k, S),
         NEW u \in [S -> Part],
         \A p \in S : u[p].role = p.role /\ u[p].start = p.start /\ u[p].num = p.num,
         NEW T, T = {u[p] : p \in S}
  PROVE  NumberingOf(k, T)
<1>1. \A p, q \in T : p.num = q.num => p = q
  BY DEF NumberingOf
<1>2. \A p \in NonLogical(T) : p.num \in 1..(IF k = "gpt" THEN MaxEntries ELSE 4)
  <2>1. \A p \in NonLogical(T) : \E q \in NonLogical(S) : p = u[q] /\ p.num = q.num
    BY DEF NonLogical
  <2> QED BY <2>1 DEF NumberingOf
<1>3. ASSUME NEW m \in Logicals(T)
      PROVE  m.num = 5 + Cardinality(Before(T, m))
  <2>1. PICK l \in S : m = u[l]
    BY DEF Logicals
  <2>2. l \in Logicals(S) /\ m.num = l.num
    BY <2>1 DEF Logicals
  <2>3. Cardinality(Before(T, m)) = Cardinality(Before(S, l))
    BY <2>1, <2>2, NumberedStarts, SameBefore
  <2> QED BY <2>2, <2>3 DEF NumberingOf
<1> QED BY <1>1, <1>2, <1>3 DEF NumberingOf

-----------------------------------------------------------------------------
(* Numbering is preserved by every operation.                              *)

LEMMA EditNumbers ==
  ASSUME NEW S, Edit(S), NumberingOf(kind, S)
  PROVE  Numbering'
BY DEF Edit, Numbering, NumberingOf

\* The numbers and starts of the table an operation works on.
LEMMA TableNumbers ==
  ASSUME TypeOK, Layout, Numbering
  PROVE  /\ parts \in SUBSET Part /\ IsFiniteSet(parts) /\ StartsDiffer(parts)
         /\ \A p, q \in parts : p.num = q.num => p = q
         /\ \A p \in NonLogical(parts) : p.num \in 1..(IF kind = "gpt" THEN MaxEntries ELSE 4)
         /\ kind = "gpt" => Logicals(parts) = {}
         /\ Extended(parts) = {} => Logicals(parts) = {}
<1>1. kind = "gpt" => Logicals(parts) = {}
  BY DEF Layout, LayoutOf, TopLayout, Logicals
<1>2. Extended(parts) = {} => Logicals(parts) = {}
  BY DEF Layout, LayoutOf, LogicalLayout
<1> QED BY <1>1, <1>2, NumberedStarts DEF TypeOK, Numbering, NumberingOf

LEMMA NextNumbering == TypeOK /\ Layout /\ Numbering /\ [Next]_vars => Numbering'
<1> SUFFICES ASSUME TypeOK, Layout, Numbering, [Next]_vars PROVE Numbering'
  OBVIOUS
<1>0. /\ parts \in SUBSET Part /\ IsFiniteSet(parts) /\ StartsDiffer(parts)
      /\ \A p, q \in parts : p.num = q.num => p = q
      /\ \A p \in NonLogical(parts) : p.num \in 1..(IF kind = "gpt" THEN MaxEntries ELSE 4)
      /\ kind = "gpt" => Logicals(parts) = {}
      /\ Extended(parts) = {} => Logicals(parts) = {}
  BY TableNumbers
<1>1. ASSUME NEW k \in {"none", "mbr", "gpt"}, New(k)
      PROVE  Numbering'
  BY <1>1 DEF New, Numbering, NumberingOf, NonLogical, Logicals
<1>2. CASE AddGpt
  <2>1. PICK p \in Requests, n \in 1..MaxEntries, name \in Names :
          /\ FitsGpt(p) /\ IsFreeNum(n, MaxEntries, parts)
          /\ Edit(parts \cup {[p EXCEPT !.num = n, !.name = name]})
    BY <1>2 DEF AddGpt
  <2> DEFINE x == [p EXCEPT !.num = n, !.name = name]
  <2>2. p \in Part /\ p.role = "primary" /\ kind = "gpt"
    BY <2>1, RequestType DEF FitsGpt
  <2>3. x.num = n /\ x.role = "primary"
    BY <2>2 DEF Part
  <2>4. \A q \in parts : q.num # n
    BY <2>1 DEF IsFreeNum, Nums
  <2>5. Edit(parts \cup {x})
    BY <2>1
  <2> HIDE DEF x
  <2>6. NumberingOf(kind, parts \cup {x})
    <3>1. Logicals(parts \cup {x}) = {} /\ NonLogical(parts \cup {x}) = NonLogical(parts) \cup {x}
      BY <1>0, <2>2, <2>3 DEF Logicals, NonLogical
    <3> QED BY <1>0, <2>2, <2>3, <2>4, <3>1 DEF NumberingOf
  <2> QED BY <2>5, <2>6, EditNumbers
<1>3. CASE AddPrimary
  <2>1. PICK p \in Requests, n \in 1..4 :
          /\ FitsPrimary(p) /\ IsFreeNum(n, 4, parts)
          /\ Edit(Renumber(parts \cup {[p EXCEPT !.num = n]}))
    BY <1>3 DEF AddPrimary
  <2> DEFINE x == [p EXCEPT !.num = n]
             S == parts \cup {x}
  <2>2. p \in Part /\ p.role = "primary" /\ kind = "mbr"
    BY <2>1, RequestType DEF FitsPrimary, AcceptableMbr
  <2>3. x.num = n /\ x.role = "primary" /\ x \in Part
    BY <2>2 DEF Part
  <2>4. \A q \in parts : q.num # n
    BY <2>1 DEF IsFreeNum, Nums
  <2>5. Edit(Renumber(S))
    BY <2>1
  <2> HIDE DEF x
  <2>6. Logicals(S) = Logicals(parts) /\ NonLogical(S) = NonLogical(parts) \cup {x}
    BY <2>3 DEF Logicals, NonLogical
  <2>7. \A p1, q1 \in NonLogical(S) : p1.num = q1.num => p1 = q1
    BY <1>0, <2>3, <2>4, <2>6 DEF NonLogical
  <2>8. IsFiniteSet(S) /\ S \in SUBSET Part /\ StartsDiffer(S)
    BY <1>0, <2>3, <2>6, FS_AddElement DEF StartsDiffer
  <2>9. \A q \in NonLogical(S) : q.num \in 1..(IF kind = "gpt" THEN MaxEntries ELSE 4)
    BY <1>0, <2>2, <2>3, <2>6
  <2> HIDE DEF S
  <2>10. NumberingOf(kind, Renumber(S))
    BY <1>0, <2>6, <2>7, <2>8, <2>9, RenumberNumbers
  <2> QED BY <2>5, <2>10, EditNumbers
<1>4. CASE AddLogicalInside
  <2>0. PICK e \in Extended(parts) : \E g \in LogicalGaps(e), p \in Requests :
          /\ FitsInside(p, e, g)
          /\ Edit(Renumber(parts \cup {[p EXCEPT !.num = 99, !.role = "logical", !.ebr = g[1]]}))
    BY <1>4 DEF AddLogicalInside, FirstExtended
  <2>1. PICK g \in LogicalGaps(e), p \in Requests :
          /\ FitsInside(p, e, g)
          /\ Edit(Renumber(parts \cup {[p EXCEPT !.num = 99, !.role = "logical", !.ebr = g[1]]}))
    BY <2>0
  <2> DEFINE x == [p EXCEPT !.num = 99, !.role = "logical", !.ebr = g[1]]
             S == parts \cup {x}
  <2>2. p \in Part /\ kind = "mbr" /\ p.start <= Last(p) /\ Last(p) \in Nat
    BY <2>1, RequestType DEF FitsInside, AcceptableMbr
  <2>3. x \in Part /\ x.role = "logical" /\ x.start = p.start
    BY <2>1, <2>2, GapType DEF Part, Roles
  <2>4. \A m \in Logicals(parts) : ~Overlaps(p.start - 1, Last(p), m.start - 1, Last(m))
    BY <2>1, InsideAvoidsLogicals
  <2>5. \A m \in Logicals(parts) : m.start # p.start
    <3>1. \A m \in Logicals(parts) : m.start \in Nat /\ Last(m) \in Nat /\ m.start <= Last(m)
      BY <1>0 DEF Logicals, Part, Last
    <3>2. p.start \in Nat
      BY <2>2 DEF Part
    <3> QED BY <2>2, <2>4, <3>1, <3>2 DEF Overlaps
  <2>6. Edit(Renumber(S))
    BY <2>1
  <2> HIDE DEF x
  <2>7. Logicals(S) = Logicals(parts) \cup {x} /\ NonLogical(S) = NonLogical(parts)
    BY <2>3 DEF Logicals, NonLogical
  <2>8. IsFiniteSet(S) /\ S \in SUBSET Part /\ StartsDiffer(S)
    BY <1>0, <2>3, <2>5, <2>7, FS_AddElement DEF StartsDiffer
  <2>9. \A p1, q1 \in NonLogical(S) : p1.num = q1.num => p1 = q1
    BY <1>0, <2>7 DEF NonLogical
  <2>10. \A q \in NonLogical(S) : q.num \in 1..(IF kind = "gpt" THEN MaxEntries ELSE 4)
    BY <1>0, <2>7
  <2> HIDE DEF S
  <2>11. NumberingOf(kind, Renumber(S))
    BY <2>2, <2>8, <2>9, <2>10, RenumberNumbers
  <2> QED BY <2>6, <2>11, EditNumbers
<1>5. CASE AddLogicalNew
  <2>1. PICK n \in 1..4, g \in TopGaps, p \in Requests :
          /\ FitsNew(p, g) /\ IsFreeNum(n, 4, parts)
          /\ Edit(Renumber(parts \cup
               {NewExtended(g, n), [p EXCEPT !.num = 99, !.role = "logical", !.ebr = RoundUp(g[1])]}))
    BY <1>5 DEF AddLogicalNew
  <2> DEFINE x == NewExtended(g, n)
             l == [p EXCEPT !.num = 99, !.role = "logical", !.ebr = RoundUp(g[1])]
             S == parts \cup {x, l}
  <2>2. p \in Part /\ kind = "mbr"
    BY <2>1, RequestType DEF FitsNew, AcceptableMbr
  <2>3. l \in Part /\ l.role = "logical"
    BY <2>1, <2>2, GapType, RoundUpBounds DEF Part, Roles
  <2>4. x \in Part /\ x.role = "extended" /\ x.num = n
    BY <2>1, NewExtendedType
  <2>5. \A q \in parts : q.num # n
    BY <2>1 DEF IsFreeNum, Nums
  <2>6. Edit(Renumber(S))
    BY <2>1
  <2>7. Logicals(parts) = {}
    BY <1>0, <1>5 DEF AddLogicalNew
  <2> HIDE DEF x, l
  <2>8. Logicals(S) = {l} /\ NonLogical(S) = NonLogical(parts) \cup {x}
    BY <2>3, <2>4, <2>7 DEF Logicals, NonLogical
  <2>9. S \in SUBSET Part /\ StartsDiffer(S)
    BY <1>0, <2>3, <2>4, <2>8 DEF StartsDiffer
  <2>10. IsFiniteSet(S)
    <3>1. IsFiniteSet((parts \cup {x}) \cup {l})
      BY <1>0, FS_AddElement
    <3>2. S = (parts \cup {x}) \cup {l}
      OBVIOUS
    <3> QED BY <3>1, <3>2
  <2>11. \A p1, q1 \in NonLogical(S) : p1.num = q1.num => p1 = q1
    BY <1>0, <2>4, <2>5, <2>8 DEF NonLogical
  <2>12. \A q \in NonLogical(S) : q.num \in 1..(IF kind = "gpt" THEN MaxEntries ELSE 4)
    BY <1>0, <2>2, <2>4, <2>8
  <2> HIDE DEF S
  <2>13. NumberingOf(kind, Renumber(S))
    BY <2>2, <2>9, <2>10, <2>11, <2>12, RenumberNumbers
  <2> QED BY <2>6, <2>13, EditNumbers
<1>6. ASSUME NEW p \in parts, Delete(p)
      PROVE  Numbering'
  <2> DEFINE T == (parts \ {p}) \ (IF p.role = "extended" THEN Logicals(parts) ELSE {})
  <2>1. T \in SUBSET parts /\ Edit(Renumber(T))
    BY <1>6 DEF Delete
  <2> HIDE DEF T
  <2>2. T \in SUBSET Part /\ IsFiniteSet(T) /\ StartsDiffer(T)
    BY <1>0, <2>1, FS_Subset DEF StartsDiffer, Logicals
  <2>3. NonLogical(T) \subseteq NonLogical(parts) /\ Logicals(T) \subseteq Logicals(parts)
    BY <2>1 DEF NonLogical, Logicals
  <2>4. \A p1, q1 \in NonLogical(T) : p1.num = q1.num => p1 = q1
    BY <1>0, <2>1 DEF NonLogical
  <2>5. NumberingOf(kind, Renumber(T))
    BY <1>0, <2>2, <2>3, <2>4, RenumberNumbers
  <2> QED BY <2>1, <2>5, EditNumbers
<1>7. ASSUME NEW u \in [parts -> Part],
             \A q \in parts : u[q].role = q.role /\ u[q].start = q.start /\ u[q].num = q.num,
             Edit({u[q] : q \in parts})
      PROVE  Numbering'
  <2>1. NumberingOf(kind, {u[q] : q \in parts})
    BY <1>0, <1>7, KeptNumbers DEF Numbering
  <2> QED BY <1>7, <2>1, EditNumbers
<1>8. ASSUME NEW p \in parts, NEW x \in Part,
             x.role = p.role /\ x.start = p.start /\ x.num = p.num,
             Edit((parts \ {p}) \cup {x})
      PROVE  Numbering'
  <2> DEFINE u == [q \in parts |-> IF q = p THEN x ELSE q]
  <2>1. (parts \ {p}) \cup {x} = {u[q] : q \in parts}
    OBVIOUS
  <2>2. u \in [parts -> Part] /\ \A q \in parts : u[q].role = q.role /\ u[q].start = q.start /\ u[q].num = q.num
    BY <1>0, <1>8
  <2> HIDE DEF u
  <2> QED BY <1>7, <1>8, <2>1, <2>2
<1>9. ASSUME NEW p \in parts, NEW y \in Types, SetType(p, y)
      PROVE  Numbering'
  <2>1. [p EXCEPT !.type = y] \in Part
    BY <1>0, InputAssumption DEF Part
  <2>2. LET x == [p EXCEPT !.type = y]
        IN  x.role = p.role /\ x.start = p.start /\ x.num = p.num
    BY <1>0 DEF Part
  <2> QED BY <1>8, <1>9, <2>1, <2>2 DEF SetType
<1>10. ASSUME NEW p \in parts, NEW n \in Names, SetName(p, n)
       PROVE  Numbering'
  <2>1. [p EXCEPT !.name = n] \in Part
    BY <1>0 DEF Part
  <2>2. LET x == [p EXCEPT !.name = n]
        IN  x.role = p.role /\ x.start = p.start /\ x.num = p.num
    BY <1>0 DEF Part
  <2> QED BY <1>8, <1>10, <2>1, <2>2 DEF SetName
<1>11. ASSUME NEW p \in parts, NEW on \in BOOLEAN, SetActive(p, on)
       PROVE  Numbering'
  <2> DEFINE F(q) == IF q = p THEN [q EXCEPT !.active = on]
                     ELSE IF on THEN [q EXCEPT !.active = FALSE] ELSE q
             u == [q \in parts |-> F(q)]
  <2>1. \A q \in parts : F(q) \in Part /\ F(q).role = q.role /\ F(q).start = q.start /\ F(q).num = q.num
    BY <1>0 DEF Part
  <2>2. Edit({F(q) : q \in parts})
    BY <1>11 DEF SetActive
  <2> HIDE DEF F
  <2>3. {F(q) : q \in parts} = {u[q] : q \in parts}
    OBVIOUS
  <2>4. u \in [parts -> Part] /\ \A q \in parts : u[q].role = q.role /\ u[q].start = q.start /\ u[q].num = q.num
    BY <2>1
  <2> HIDE DEF u
  <2> QED BY <1>7, <2>2, <2>3, <2>4
<1>12. CASE UNCHANGED vars
  BY <1>12 DEF Numbering, NumberingOf, vars
<1> QED BY <1>1, <1>2, <1>3, <1>4, <1>5, <1>6, <1>9, <1>10, <1>11, <1>12 DEF Next

\* If the table read from the disk is laid out and numbered as pt_read does it,
\* no two partitions ever have the same number and logical ones are numbered in
\* disk order without holes: pt_find(num) means the partition that was chosen.
THEOREM NumberingCorrect ==
  ASSUME \A t \in ReadTables :
           LayoutOf(t.kind, t.parts, t.first, t.last) /\ NumberingOf(t.kind, t.parts)
  PROVE  Spec => []Numbering
<1>1. Init => Layout /\ Numbering
  BY DEF Init, Load, Layout, Numbering
<1>2. TypeOK /\ Layout /\ [Next]_vars => Layout'
  BY NextLayout
<1> QED BY <1>1, <1>2, NextNumbering, InitType, NextType, PTL DEF Spec

-----------------------------------------------------------------------------
(* The active flag.                                                        *)

LEMMA EditActive ==
  ASSUME NEW S, Edit(S), OneActiveOf(S)
  PROVE  OneActive'
BY DEF Edit, OneActive, OneActiveOf

\* Renumbering and adding what is not active keep one active partition.
LEMMA RenumberActive ==
  ASSUME NEW S \in SUBSET Part, OneActiveOf(S)
  PROVE  OneActiveOf(Renumber(S))
<1> DEFINE n(l) == [l EXCEPT !.num = 5 + Cardinality(Before(S, l))]
<1>1. \A l \in Logicals(S) : l \in S /\ n(l).active = l.active /\ n(l).role = "logical"
  BY DEF Logicals, Part
<1>2. Renumber(S) = NonLogical(S) \cup {n(l) : l \in Logicals(S)}
  BY DEF Renumber
<1> HIDE DEF n
<1>3. \A p \in Renumber(S) :
        \/ p \in S /\ p.role # "logical"
        \/ \E l \in S : l.role = "logical" /\ p = n(l) /\ p.active = l.active /\ p.role = "logical"
  BY <1>1, <1>2 DEF NonLogical, Logicals
<1> QED BY <1>3 DEF OneActiveOf

LEMMA AddActive ==
  ASSUME NEW S, NEW T, OneActiveOf(S), \A x \in T \ S : x.active = FALSE
  PROVE  OneActiveOf(T)
BY DEF OneActiveOf

LEMMA NextActive == TypeOK /\ OneActive /\ [Next]_vars => OneActive'
<1> SUFFICES ASSUME TypeOK, OneActive, [Next]_vars PROVE OneActive'
  OBVIOUS
<1>0. parts \in SUBSET Part /\ OneActiveOf(parts)
  BY DEF TypeOK, OneActive
<1>1. ASSUME NEW k \in {"none", "mbr", "gpt"}, New(k)
      PROVE  OneActive'
  BY <1>1 DEF New, OneActive, OneActiveOf
<1>2. CASE AddGpt
  <2>1. PICK p \in Requests, n \in 1..MaxEntries, name \in Names :
          FitsGpt(p) /\ Edit(parts \cup {[p EXCEPT !.num = n, !.name = name]})
    BY <1>2 DEF AddGpt
  <2> DEFINE x == [p EXCEPT !.num = n, !.name = name]
  <2>2. x.active = FALSE
    BY <2>1, RequestType DEF FitsGpt, Part
  <2>3. Edit(parts \cup {x})
    BY <2>1
  <2> HIDE DEF x
  <2>4. OneActiveOf(parts \cup {x})
    BY <1>0, <2>2, AddActive
  <2> QED BY <2>3, <2>4, EditActive
<1>3. CASE AddPrimary
  <2>1. PICK p \in Requests, n \in 1..4 :
          FitsPrimary(p) /\ Edit(Renumber(parts \cup {[p EXCEPT !.num = n]}))
    BY <1>3 DEF AddPrimary
  <2> DEFINE x == [p EXCEPT !.num = n]
  <2>2. x \in Part /\ x.active = FALSE
    <3>1. p \in Part /\ p.active = FALSE
      BY <2>1, RequestType DEF FitsPrimary, AcceptableMbr
    <3> QED BY <3>1 DEF Part
  <2>3. Edit(Renumber(parts \cup {x}))
    BY <2>1
  <2> HIDE DEF x
  <2>4. OneActiveOf(parts \cup {x})
    BY <1>0, <2>2, AddActive
  <2> QED BY <1>0, <2>2, <2>3, <2>4, RenumberActive, EditActive
<1>4. CASE AddLogicalInside
  <2>1. PICK e \in Extended(parts) : \E g \in LogicalGaps(e), p \in Requests :
          /\ FitsInside(p, e, g)
          /\ Edit(Renumber(parts \cup {[p EXCEPT !.num = 99, !.role = "logical", !.ebr = g[1]]}))
    BY <1>4 DEF AddLogicalInside, FirstExtended
  <2>2. PICK g \in LogicalGaps(e), p \in Requests :
          /\ FitsInside(p, e, g)
          /\ Edit(Renumber(parts \cup {[p EXCEPT !.num = 99, !.role = "logical", !.ebr = g[1]]}))
    BY <2>1
  <2> DEFINE x == [p EXCEPT !.num = 99, !.role = "logical", !.ebr = g[1]]
  <2>3. x \in Part /\ x.active = FALSE
    BY <2>2, RequestType, GapType DEF FitsInside, AcceptableMbr, Part, Roles
  <2>4. Edit(Renumber(parts \cup {x}))
    BY <2>2
  <2> HIDE DEF x
  <2>5. OneActiveOf(parts \cup {x})
    BY <1>0, <2>3, AddActive
  <2> QED BY <1>0, <2>3, <2>4, <2>5, RenumberActive, EditActive
<1>5. CASE AddLogicalNew
  <2>1. PICK n \in 1..4, g \in TopGaps, p \in Requests :
          /\ FitsNew(p, g)
          /\ Edit(Renumber(parts \cup
               {NewExtended(g, n), [p EXCEPT !.num = 99, !.role = "logical", !.ebr = RoundUp(g[1])]}))
    BY <1>5 DEF AddLogicalNew
  <2> DEFINE x == NewExtended(g, n)
             l == [p EXCEPT !.num = 99, !.role = "logical", !.ebr = RoundUp(g[1])]
  <2>2. l \in Part /\ l.active = FALSE
    BY <2>1, RequestType, GapType, RoundUpBounds DEF FitsNew, AcceptableMbr, Part, Roles
  <2>3. x \in Part /\ x.active = FALSE
    BY <2>1, NewExtendedType
  <2>4. Edit(Renumber(parts \cup {x, l}))
    BY <2>1
  <2> HIDE DEF x, l
  <2>5. OneActiveOf(parts \cup {x, l})
    BY <1>0, <2>2, <2>3, AddActive
  <2> QED BY <1>0, <2>2, <2>3, <2>4, <2>5, RenumberActive, EditActive
<1>6. ASSUME NEW p \in parts, Delete(p)
      PROVE  OneActive'
  <2> DEFINE T == (parts \ {p}) \ (IF p.role = "extended" THEN Logicals(parts) ELSE {})
  <2>1. T \in SUBSET parts /\ Edit(Renumber(T))
    BY <1>6 DEF Delete
  <2> HIDE DEF T
  <2>2. T \in SUBSET Part /\ OneActiveOf(T)
    BY <1>0, <2>1 DEF OneActiveOf
  <2> QED BY <2>1, <2>2, RenumberActive, EditActive
<1>7. ASSUME NEW p \in parts, NEW x, x.role = p.role, x.active = p.active,
             Edit((parts \ {p}) \cup {x})
      PROVE  OneActive'
  <2>1. OneActiveOf((parts \ {p}) \cup {x})
    BY <1>0, <1>7 DEF OneActiveOf
  <2> QED BY <1>7, <2>1, EditActive
<1>8. ASSUME NEW p \in parts, NEW y \in Types, SetType(p, y)
      PROVE  OneActive'
  <2>1. [p EXCEPT !.type = y].role = p.role /\ [p EXCEPT !.type = y].active = p.active
    BY <1>0 DEF Part
  <2> QED BY <1>7, <1>8, <2>1 DEF SetType
<1>9. ASSUME NEW p \in parts, NEW n \in Names, SetName(p, n)
      PROVE  OneActive'
  <2>1. [p EXCEPT !.name = n].role = p.role /\ [p EXCEPT !.name = n].active = p.active
    BY <1>0 DEF Part
  <2> QED BY <1>7, <1>9, <2>1 DEF SetName
<1>10. ASSUME NEW p \in parts, NEW on \in BOOLEAN, SetActive(p, on)
       PROVE  OneActive'
  <2> DEFINE F(q) == IF q = p THEN [q EXCEPT !.active = on]
                     ELSE IF on THEN [q EXCEPT !.active = FALSE] ELSE q
  <2>1. Edit({F(q) : q \in parts}) /\ p.role # "extended"
    BY <1>10 DEF SetActive
  <2>2. \A q \in parts : F(q).role = q.role /\ F(q).active = (IF q = p THEN on ELSE IF on THEN FALSE ELSE q.active)
    BY <1>0 DEF Part
  <2> HIDE DEF F
  <2>3. CASE on
    <3>1. \A q \in parts : F(q).active => q = p /\ F(q).role # "extended"
      BY <2>1, <2>2, <2>3
    <3>2. OneActiveOf({F(q) : q \in parts})
      BY <3>1 DEF OneActiveOf
    <3> QED BY <2>1, <3>2, EditActive
  <2>4. CASE ~on
    <3>1. \A q \in parts : F(q).active => q.active /\ F(q).role = q.role
      BY <2>2, <2>4
    <3>2. OneActiveOf({F(q) : q \in parts})
      BY <1>0, <3>1 DEF OneActiveOf
    <3> QED BY <2>1, <3>2, EditActive
  <2> QED BY <2>3, <2>4
<1>11. CASE UNCHANGED vars
  BY <1>11 DEF OneActive, OneActiveOf, vars
<1> QED BY <1>1, <1>2, <1>3, <1>4, <1>5, <1>6, <1>8, <1>9, <1>10, <1>11 DEF Next

\* If the table read from the disk has at most one active partition, which is
\* not the extended one, so has every table that operations on it produce.
THEOREM OneActiveCorrect ==
  ASSUME \A t \in ReadTables : OneActiveOf(t.parts)
  PROVE  Spec => []OneActive
<1>1. Init => OneActive
  BY DEF Init, Load, OneActive
<1> QED BY <1>1, NextActive, InitType, NextType, PTL DEF Spec

-----------------------------------------------------------------------------
(* What an operation removes.                                              *)

LEMMA RenumberPlaces ==
  ASSUME NEW S \in SUBSET Part, NEW p \in S
  PROVE  \E q \in Renumber(S) : SamePlace(p, q)
<1> DEFINE n(l) == [l EXCEPT !.num = 5 + Cardinality(Before(S, l))]
<1>1. CASE p.role = "logical"
  <2>1. p \in Logicals(S)
    BY <1>1 DEF Logicals
  <2>2. n(p) \in Renumber(S)
    BY <2>1 DEF Renumber
  <2>3. n(p).start = p.start /\ n(p).size = p.size /\ n(p).role = p.role
    BY DEF Part
  <2> HIDE DEF n
  <2> QED BY <1>1, <2>2, <2>3 DEF SamePlace
<1>2. CASE p.role # "logical"
  BY <1>2 DEF SamePlace, Renumber, NonLogical
<1> QED BY <1>1, <1>2

\* What is lost when only the partitions of T stay.
Gone == {p \in parts : ~\E q \in parts' : SamePlace(p, q)}
OnlyLocal ==
  parts' = {} \/ Cardinality(Gone) <= 1 \/ Gone = Extended(parts) \cup Logicals(parts)

LEMMA OneGone ==
  ASSUME TypeOK, NEW x, Gone \subseteq {x}
  PROVE  OnlyLocal
<1>1. IsFiniteSet({x}) /\ Cardinality({x}) = 1
  BY FS_Singleton
<1>2. Cardinality(Gone) <= 1
  BY <1>1, FS_Subset
<1> QED BY <1>2 DEF OnlyLocal

LEMMA AddLocal ==
  ASSUME TypeOK, NEW S \in SUBSET Part, parts \subseteq S, parts' = S \/ parts' = Renumber(S)
  PROVE  OnlyLocal
<1>1. \A p \in parts : \E q \in parts' : SamePlace(p, q)
  <2>1. CASE parts' = S
    BY <2>1 DEF SamePlace
  <2>2. CASE parts' = Renumber(S)
    BY <2>2, RenumberPlaces
  <2> QED BY <2>1, <2>2
<1>2. Gone \subseteq {0}
  BY <1>1 DEF Gone
<1> QED BY <1>2, OneGone

LEMMA ChangeLocal ==
  ASSUME TypeOK, NEW p \in parts, NEW x, x.role = p.role, x.start = p.start, x.size = p.size,
         x.num = p.num, parts' = (parts \ {p}) \cup {x}
  PROVE  OnlyLocal
<1>1. \A q \in parts : \E y \in parts' : SamePlace(q, y)
  BY DEF SamePlace
<1>2. Gone \subseteq {0}
  BY <1>1 DEF Gone
<1> QED BY <1>2, OneGone

LEMMA NextLocal == TypeOK /\ Layout /\ [Next]_vars => OnlyLocal
<1> SUFFICES ASSUME TypeOK, Layout, [Next]_vars PROVE OnlyLocal
  OBVIOUS
<1>0. parts \in SUBSET Part
  BY DEF TypeOK
<1>1. ASSUME NEW k \in {"none", "mbr", "gpt"}, New(k) PROVE OnlyLocal
  BY <1>1 DEF New, OnlyLocal
<1>2. CASE AddGpt
  <2>1. PICK p \in Requests, n \in 1..MaxEntries, name \in Names :
          FitsGpt(p) /\ Edit(parts \cup {[p EXCEPT !.num = n, !.name = name]})
    BY <1>2 DEF AddGpt
  <2> DEFINE x == [p EXCEPT !.num = n, !.name = name]
  <2>2. x \in Part
    <3>1. p \in Part
      BY <2>1, RequestType DEF FitsGpt
    <3>2. n \in Nat
      BY GeometryAssumption
    <3> QED BY <3>1, <3>2 DEF Part
  <2>3. parts' = parts \cup {x}
    BY <2>1 DEF Edit
  <2> HIDE DEF x
  <2> QED BY <1>0, <2>2, <2>3, AddLocal
<1>3. CASE AddPrimary
  <2>1. PICK p \in Requests, n \in 1..4 :
          FitsPrimary(p) /\ Edit(Renumber(parts \cup {[p EXCEPT !.num = n]}))
    BY <1>3 DEF AddPrimary
  <2> DEFINE x == [p EXCEPT !.num = n]
  <2>2. x \in Part
    <3>1. p \in Part
      BY <2>1, RequestType DEF FitsPrimary, AcceptableMbr
    <3> QED BY <3>1 DEF Part
  <2>3. parts' = Renumber(parts \cup {x})
    BY <2>1 DEF Edit
  <2> HIDE DEF x
  <2> QED BY <1>0, <2>2, <2>3, AddLocal
<1>4. CASE AddLogicalInside
  <2>1. PICK e \in Extended(parts) : \E g \in LogicalGaps(e), p \in Requests :
          /\ FitsInside(p, e, g)
          /\ Edit(Renumber(parts \cup {[p EXCEPT !.num = 99, !.role = "logical", !.ebr = g[1]]}))
    BY <1>4 DEF AddLogicalInside, FirstExtended
  <2>2. PICK g \in LogicalGaps(e), p \in Requests :
          /\ FitsInside(p, e, g)
          /\ Edit(Renumber(parts \cup {[p EXCEPT !.num = 99, !.role = "logical", !.ebr = g[1]]}))
    BY <2>1
  <2> DEFINE x == [p EXCEPT !.num = 99, !.role = "logical", !.ebr = g[1]]
  <2>3. x \in Part
    BY <2>2, RequestType, GapType DEF FitsInside, AcceptableMbr, Part, Roles
  <2>4. parts' = Renumber(parts \cup {x})
    BY <2>2 DEF Edit
  <2> HIDE DEF x
  <2> QED BY <1>0, <2>3, <2>4, AddLocal
<1>5. CASE AddLogicalNew
  <2>1. PICK n \in 1..4, g \in TopGaps, p \in Requests :
          /\ FitsNew(p, g)
          /\ Edit(Renumber(parts \cup
               {NewExtended(g, n), [p EXCEPT !.num = 99, !.role = "logical", !.ebr = RoundUp(g[1])]}))
    BY <1>5 DEF AddLogicalNew
  <2> DEFINE x == NewExtended(g, n)
             l == [p EXCEPT !.num = 99, !.role = "logical", !.ebr = RoundUp(g[1])]
  <2>2. l \in Part
    BY <2>1, RequestType, GapType, RoundUpBounds DEF FitsNew, AcceptableMbr, Part, Roles
  <2>3. x \in Part
    BY <2>1, NewExtendedType
  <2>4. parts' = Renumber(parts \cup {x, l})
    BY <2>1 DEF Edit
  <2> HIDE DEF x, l
  <2>5. parts \cup {x, l} \in SUBSET Part /\ parts \subseteq parts \cup {x, l}
    BY <1>0, <2>2, <2>3
  <2> QED BY <2>4, <2>5, AddLocal
<1>6. ASSUME NEW p \in parts, Delete(p) PROVE OnlyLocal
  <2> DEFINE T == (parts \ {p}) \ (IF p.role = "extended" THEN Logicals(parts) ELSE {})
  <2>1. T \in SUBSET Part /\ parts' = Renumber(T)
    BY <1>0, <1>6 DEF Delete, Edit
  <2>2. \A q \in T : \E y \in parts' : SamePlace(q, y)
    BY <2>1, RenumberPlaces
  <2>3. CASE p.role # "extended"
    <3>1. \A q \in parts : q # p => q \in T
      BY <2>3
    <3> HIDE DEF T
    <3>2. Gone \subseteq {p}
      BY <2>2, <3>1 DEF Gone
    <3> QED BY <3>2, OneGone
  <2>4. CASE p.role = "extended"
    <3>1. Extended(parts) = {p}
      BY <2>4 DEF Layout, LayoutOf, TopLayout, Extended
    <3>2. \A q \in T : q.role # "extended" /\ q.role # "logical"
      BY <2>4, <3>1 DEF Extended, Logicals
    <3>3. \A q \in parts : q.role # "extended" /\ q.role # "logical" => q \in T
      BY <2>4 DEF Logicals
    <3> HIDE DEF T
    <3>4. Extended(parts') = {} /\ Logicals(parts') = {}
      <4>1. Extended(T) = {} /\ Logicals(T) = {}
        BY <3>2 DEF Extended, Logicals
      <4>2. Extended(Renumber(T)) = Extended(T) /\ \A m \in Logicals(Renumber(T)) : \E l \in Logicals(T) : TRUE
        BY <2>1, RenumberParts
      <4> QED BY <2>1, <4>1, <4>2
    <3>5. \A q \in parts : q \in Gone <=> q.role = "extended" \/ q.role = "logical"
      BY <2>2, <3>3, <3>4 DEF Gone, SamePlace, Extended, Logicals
    <3>6. Gone = Extended(parts) \cup Logicals(parts)
      BY <3>5 DEF Gone, Extended, Logicals
    <3> QED BY <3>6 DEF OnlyLocal
  <2> QED BY <2>3, <2>4
<1>7. ASSUME NEW p \in parts, NEW y \in Types, SetType(p, y) PROVE OnlyLocal
  <2> DEFINE x == [p EXCEPT !.type = y]
  <2>1. x.role = p.role /\ x.start = p.start /\ x.size = p.size /\ x.num = p.num
    BY <1>0 DEF Part
  <2>2. parts' = (parts \ {p}) \cup {x}
    BY <1>7 DEF SetType, Edit
  <2> HIDE DEF x
  <2> QED BY <2>1, <2>2, ChangeLocal
<1>8. ASSUME NEW p \in parts, NEW n \in Names, SetName(p, n) PROVE OnlyLocal
  <2> DEFINE x == [p EXCEPT !.name = n]
  <2>1. x.role = p.role /\ x.start = p.start /\ x.size = p.size /\ x.num = p.num
    BY <1>0 DEF Part
  <2>2. parts' = (parts \ {p}) \cup {x}
    BY <1>8 DEF SetName, Edit
  <2> HIDE DEF x
  <2> QED BY <2>1, <2>2, ChangeLocal
<1>9. ASSUME NEW p \in parts, NEW on \in BOOLEAN, SetActive(p, on) PROVE OnlyLocal
  <2> DEFINE F(q) == IF q = p THEN [q EXCEPT !.active = on]
                     ELSE IF on THEN [q EXCEPT !.active = FALSE] ELSE q
  <2>1. parts' = {F(q) : q \in parts}
    BY <1>9 DEF SetActive, Edit
  <2>2. \A q \in parts : F(q).role = q.role /\ F(q).start = q.start /\ F(q).size = q.size /\ F(q).num = q.num
    BY <1>0 DEF Part
  <2> HIDE DEF F
  <2>3. \A q \in parts : SamePlace(q, F(q)) /\ F(q) \in parts'
    BY <2>1, <2>2 DEF SamePlace
  <2>4. Gone \subseteq {0}
    BY <2>3 DEF Gone
  <2> QED BY <2>4, OneGone
<1>10. CASE UNCHANGED vars
  <2>1. parts' = parts
    BY <1>10 DEF vars
  <2> QED BY <1>0, <2>1, AddLocal
<1> QED BY <1>1, <1>2, <1>3, <1>4, <1>5, <1>6, <1>7, <1>8, <1>9, <1>10 DEF Next

\* If the table read is laid out, an operation on one partition leaves all the
\* others in their place, and deletes at most it, or the extended partition
\* with exactly its logical ones.
THEOREM EditsLocal ==
  ASSUME \A t \in ReadTables : LayoutOf(t.kind, t.parts, t.first, t.last)
  PROVE  Spec => EditsAreLocal
<1>1. TypeOK /\ Layout /\ [Next]_vars =>
        [LET gone == {p \in parts : ~\E q \in parts' : SamePlace(p, q)}
         IN  \/ parts' = {}
             \/ Cardinality(gone) <= 1
             \/ gone = Extended(parts) \cup Logicals(parts)]_vars
  BY NextLocal DEF OnlyLocal, Gone
<1>2. Init => Layout
  BY DEF Init, Load, Layout
<1> QED BY <1>1, <1>2, NextLayout, InitType, NextType, PTL DEF Spec, EditsAreLocal

-----------------------------------------------------------------------------
(* The dialog for a new partition.                                         *)

-----------------------------------------------------------------------------
(* What is free.                                                           *)

\* The usable area of a GPT lies on the disk.
OnDisk == kind = "gpt" => last < NBlocks

\* Where an area lies in the gap it comes from.
LEMMA AreaInGap ==
  ASSUME NEW gaps, NEW r \in Nat, NEW logical, NEW a \in FreeAreas(gaps, r, logical),
         \A g \in gaps : g[1] \in Nat /\ g[2] \in Nat
  PROVE  \E g \in gaps :
           /\ a.start = RoundUp(g[1] + r) /\ a.last = g[2] /\ a.logical = logical
           /\ a.start \in Nat /\ a.last \in Nat
           /\ g[1] + r <= a.start /\ a.start <= a.last
<1>1. PICK g \in gaps :
        /\ g[2] - RoundUp(g[1] + r) + 1 >= Align
        /\ a = [start |-> RoundUp(g[1] + r), last |-> g[2], logical |-> logical]
  BY DEF FreeAreas
<1>2. g[1] + r \in Nat /\ g[2] \in Nat
  OBVIOUS
<1>3. RoundUp(g[1] + r) \in Nat /\ g[1] + r <= RoundUp(g[1] + r)
  BY <1>2, RoundUpBounds
<1>4. RoundUp(g[1] + r) <= g[2]
  BY <1>1, <1>2, <1>3, GeometryAssumption
<1>5. a.start = RoundUp(g[1] + r) /\ a.last = g[2] /\ a.logical = logical
  BY <1>1
<1> QED BY <1>2, <1>3, <1>4, <1>5

LEMMA GapRange ==
  ASSUME NEW lo \in Nat, NEW hi \in Int, NEW spans, NEW g \in Gaps(lo, hi, spans)
  PROVE  g[1] \in Nat /\ g[2] \in Nat /\ lo <= g[1] /\ g[2] <= hi
<1>1. g[1] \in lo..hi /\ g[2] \in lo..hi
  BY DEF Gaps
<1> QED BY <1>1

\* What a request for blocks from..to is.
LEMMA RequestOf ==
  ASSUME NEW from \in Nat, NEW to \in Nat, from <= to, NEW y
  PROVE  LET p == Request(from, to - from + 1, y)
         IN  p.start = from /\ p.size # 0 /\ p.type = y /\ Last(p) = to
<1> DEFINE p == Request(from, to - from + 1, y)
<1>1. p.start = from /\ p.size = to - from + 1 /\ p.type = y
  BY DEF Request
<1> HIDE DEF p
<1>2. p.size # 0 /\ Last(p) = to
  BY <1>1 DEF Last
<1> QED BY <1>1, <1>2 DEF p

\* Whatever part of an area is asked for fits.
Within(a, from, to) == a.start <= from /\ from <= to /\ to <= a.last

LEMMA GptAreaFits ==
  ASSUME TypeOK, Layout, OnDisk, kind = "gpt", NEW a \in FreeAreas(TopGaps, 0, FALSE), NEW y, y # 0,
         NEW from \in Nat, NEW to \in Nat, Within(a, from, to)
  PROVE  FitsGpt(Request(from, to - from + 1, y))
<1> DEFINE spans == {<<p.start, Last(p)>> : p \in NonLogical(parts)}
<1>0. TopGaps = Gaps(first, last, spans)
  BY DEF TopGaps
<1>1. \A g \in TopGaps : g[1] \in Nat /\ g[2] \in Nat /\ first <= g[1] /\ g[2] <= last
  <2>1. first \in Nat /\ last \in Int
    BY DEF TypeOK
  <2> HIDE DEF spans
  <2> QED BY <1>0, <2>1, GapRange
<1>2. 0 \in Nat
  OBVIOUS
<1>3. PICK g \in TopGaps :
        /\ a.start = RoundUp(g[1] + 0) /\ a.last = g[2]
        /\ a.start \in Nat /\ a.last \in Nat
        /\ g[1] + 0 <= a.start /\ a.start <= a.last
  BY <1>1, <1>2, AreaInGap
<1> DEFINE p == Request(from, to - from + 1, y)
<1>9. a.start <= from /\ from <= to /\ to <= a.last
  BY DEF Within
<1>4. p.start = from /\ p.size # 0 /\ p.type = y /\ Last(p) = to
  BY <1>9, RequestOf
<1> HIDE DEF p
<1>5. first <= p.start /\ Last(p) <= last
  BY <1>1, <1>3, <1>4, <1>9 DEF TypeOK
<1>6. Acceptable(p)
  BY <1>4, <1>5, GeometryAssumption DEF OnDisk, Acceptable, TypeOK
<1>7. ASSUME NEW q \in parts, q.role # "logical"
      PROVE  ~Overlaps(p.start, Last(p), q.start, Last(q))
  <2> DEFINE s == <<q.start, Last(q)>>
  <2>1. s \in spans
    BY <1>7 DEF NonLogical
  <2>2. q.start \in Int /\ Last(q) \in Int /\ q.start <= Last(q)
    BY DEF TypeOK, Part, Last
  <2>3. s[1] = q.start /\ s[2] = Last(q)
    OBVIOUS
  <2>4. g \in Gaps(first, last, spans) /\ first \in Int /\ last \in Int
    BY <1>0 DEF TypeOK
  <2>5. g[1] <= from /\ to <= g[2] /\ from \in Int /\ to \in Int /\ from <= to
    BY <1>1, <1>3, <1>9
  <2> HIDE DEF s, spans
  <2>6. ~Overlaps(from, to, s[1], s[2])
    BY <2>1, <2>2, <2>3, <2>4, <2>5, GapAvoidsSpans
  <2> QED BY <1>4, <2>3, <2>6
<1>8. \A q \in parts : q.role # "logical"
  BY DEF Layout, LayoutOf, TopLayout
<1> QED BY <1>5, <1>6, <1>7, <1>8 DEF FitsGpt, p

\* An area outside the extended partition holds a primary partition, and after
\* its first block a logical one with a new extended one around it.
LEMMA MbrAreaFits ==
  ASSUME TypeOK, kind = "mbr", NEW a \in FreeAreas(TopGaps, 0, FALSE), NEW y, y # 0, y \notin ExtTypes,
         NEW from \in Nat, NEW to \in Nat, Within(a, from, to)
  PROVE  LET p == Request(from, to - from + 1, y)
         IN  FitsPrimary(p) /\ (a.start < from => \E g \in TopGaps : FitsNew(p, g))
<1>1. \A g \in TopGaps : g[1] \in Nat /\ g[2] \in Nat /\ 1 <= g[1] /\ g[2] <= LastMbr
  BY GapType
<1>2. 0 \in Nat
  OBVIOUS
<1>3. PICK g \in TopGaps :
        /\ a.start = RoundUp(g[1] + 0) /\ a.last = g[2]
        /\ a.start \in Nat /\ a.last \in Nat
        /\ g[1] + 0 <= a.start /\ a.start <= a.last
  BY <1>1, <1>2, AreaInGap
<1>4. a.last <= LastMbr /\ LastMbr < NBlocks /\ LastMbr <= MbrLimit /\ 1 <= a.start /\ g[1] <= a.start
  BY <1>1, <1>3, GeometryAssumption DEF LastMbr
<1> DEFINE p == Request(from, to - from + 1, y)
<1>5. a.start <= from /\ from <= to /\ to <= a.last
  BY DEF Within
<1>6. p.start = from /\ p.size # 0 /\ p.type = y /\ Last(p) = to
  BY <1>5, RequestOf
<1> HIDE DEF p
<1>7. AcceptableMbr(p)
  BY <1>3, <1>4, <1>5, <1>6, LastMbrType, GeometryAssumption DEF AcceptableMbr, Acceptable
<1>8. FitsPrimary(p)
  <2>1. g[1] <= from /\ to <= g[2]
    BY <1>1, <1>3, <1>4, <1>5
  <2>2. \A q \in NonLogical(parts) : ~Overlaps(p.start, Last(p), q.start, Last(q))
    BY <1>5, <1>6, <2>1, TopGapAvoids
  <2> QED BY <1>7, <2>2 DEF FitsPrimary
<1>9. ASSUME a.start < from PROVE FitsNew(p, g)
  <2>1. RoundUp(g[1]) = a.start
    <3>1. g[1] + 0 = g[1]
      BY <1>1
    <3> QED BY <1>3, <3>1
  <2> QED BY <1>1, <1>3, <1>4, <1>5, <1>6, <1>7, <1>9, <2>1 DEF FitsNew
<1> QED BY <1>8, <1>9 DEF p

\* An area inside the extended partition holds a logical one with its record.
LEMMA LogicalAreaFits ==
  ASSUME TypeOK, Layout, kind = "mbr", NEW e \in FirstExtended(parts),
         NEW a \in FreeAreas(LogicalGaps(e), 1, TRUE), NEW y, y # 0, y \notin ExtTypes,
         NEW from \in Nat, NEW to \in Nat, Within(a, from, to)
  PROVE  \E g \in LogicalGaps(e) : FitsInside(Request(from, to - from + 1, y), e, g)
<1>1. e \in Extended(parts) /\ e \in NonLogical(parts)
  BY DEF FirstExtended, Extended, NonLogical
<1>2. \A g \in LogicalGaps(e) : g[1] \in Nat /\ g[2] \in Nat /\ e.start <= g[1] /\ g[2] <= Last(e)
  BY <1>1, GapType
<1>3. 1 \in Nat
  OBVIOUS
<1>4. PICK g \in LogicalGaps(e) :
        /\ a.start = RoundUp(g[1] + 1) /\ a.last = g[2]
        /\ a.start \in Nat /\ a.last \in Nat
        /\ g[1] + 1 <= a.start /\ a.start <= a.last
  BY <1>2, <1>3, AreaInGap
<1>5. e.start \in Nat /\ Last(e) \in Nat /\ Last(e) <= LastMbr
  <2>1. Last(e) <= LastMbr
    BY <1>1 DEF Layout, LayoutOf, TopLayout
  <2>2. e.start \in Nat /\ Last(e) \in Nat
    BY <1>1 DEF TypeOK, Extended, Part, Last
  <2> QED BY <2>1, <2>2
<1>6. LastMbr < NBlocks /\ LastMbr <= MbrLimit /\ LastMbr \in Nat
  BY GeometryAssumption DEF LastMbr
<1> DEFINE p == Request(from, to - from + 1, y)
<1>10. a.start <= from /\ from <= to /\ to <= a.last
  BY DEF Within
<1>7. p.start = from /\ p.size # 0 /\ p.type = y /\ Last(p) = to
  BY <1>10, RequestOf
<1> HIDE DEF p
<1>8. AcceptableMbr(p)
  BY <1>2, <1>4, <1>5, <1>6, <1>7, <1>10, GeometryAssumption DEF AcceptableMbr, Acceptable
<1>9. e.start < p.start /\ Last(p) <= Last(e) /\ g[1] < p.start /\ Last(p) <= g[2]
  BY <1>2, <1>4, <1>5, <1>7, <1>10
<1> QED BY <1>8, <1>9 DEF FitsInside, p

\* Where the areas offered lie.
LEMMA AreaPlace ==
  ASSUME TypeOK, Layout, OnDisk, NEW a \in FreeSpace
  PROVE  /\ a.start \in Nat /\ a.last \in Nat /\ a.start <= a.last /\ a.last < NBlocks
         /\ (IF kind = "gpt" THEN first ELSE 1) <= a.start
         /\ \E b \in Nat : a.start = b * Align
         /\ \/ ~a.logical /\ a \in FreeAreas(TopGaps, 0, FALSE)
            \/ a.logical /\ kind = "mbr"
                 /\ \E e \in FirstExtended(parts) : a \in FreeAreas(LogicalGaps(e), 1, TRUE)
<1>0. 0 \in Nat /\ 1 \in Nat /\ LastMbr < NBlocks /\ first \in Nat /\ last \in Nat
  BY GeometryAssumption DEF LastMbr, TypeOK
<1>1. \A v \in Nat : \E b \in Nat : RoundUp(v) = b * Align
  <2>1. \A v \in Nat : (v + Align - 1) \div Align \in Nat
    BY GeometryAssumption
  <2> QED BY <2>1 DEF RoundUp
<1>2. CASE a \in FreeAreas(TopGaps, 0, FALSE)
  <2>1. a.logical = FALSE
    BY <1>2 DEF FreeAreas
  <2>2. \A g \in TopGaps : g[1] \in Nat /\ g[2] \in Nat /\ g[2] < NBlocks
          /\ (IF kind = "gpt" THEN first ELSE 1) <= g[1]
    <3>1. CASE kind = "gpt"
      <4> DEFINE spans == {<<p.start, Last(p)>> : p \in NonLogical(parts)}
      <4>1. TopGaps = Gaps(first, last, spans) /\ last < NBlocks
        BY <3>1 DEF TopGaps, OnDisk
      <4> HIDE DEF spans
      <4> QED BY <1>0, <3>1, <4>1, GapRange, GeometryAssumption
    <3>2. CASE kind # "gpt"
      <4>1. kind = "mbr"
        BY <3>2 DEF TypeOK, FreeSpace
      <4> QED BY <1>0, <4>1, GapType, LastMbrType, GeometryAssumption
    <3> QED BY <3>1, <3>2
  <2>3. PICK g \in TopGaps :
          /\ a.start = RoundUp(g[1] + 0) /\ a.last = g[2]
          /\ a.start \in Nat /\ a.last \in Nat
          /\ g[1] + 0 <= a.start /\ a.start <= a.last
    BY <1>0, <1>2, <2>2, AreaInGap
  <2>4. \E b \in Nat : a.start = b * Align
    <3>1. g[1] + 0 \in Nat
      BY <2>2
    <3> QED BY <1>1, <2>3, <3>1
  <2>5. PICK lo \in Nat : lo = IF kind = "gpt" THEN first ELSE 1
    BY <1>0
  <2>6. lo <= a.start
    <3>1. g[1] \in Nat /\ lo <= g[1]
      BY <2>2, <2>5
    <3> QED BY <2>3, <3>1
  <2>7. a.last < NBlocks
    BY <2>2, <2>3
  <2> QED BY <1>2, <2>1, <2>3, <2>4, <2>5, <2>6, <2>7
<1>3. ASSUME NEW e \in FirstExtended(parts), a \in FreeAreas(LogicalGaps(e), 1, TRUE)
      PROVE  /\ a.start \in Nat /\ a.last \in Nat /\ a.start <= a.last /\ a.last < NBlocks
             /\ 1 <= a.start /\ kind = "mbr" /\ a.logical
             /\ \E b \in Nat : a.start = b * Align
  <2>1. e \in Extended(parts) /\ e \in NonLogical(parts) /\ e \in parts /\ e.role = "extended"
    BY DEF FirstExtended, Extended, NonLogical
  <2>2. kind = "mbr"
    BY <2>1 DEF TypeOK, FreeSpace, Layout, LayoutOf, TopLayout
  <2>3. \A g \in LogicalGaps(e) : g[1] \in Nat /\ g[2] \in Nat /\ e.start <= g[1] /\ g[2] <= Last(e)
    BY <2>1, <2>2, GapType
  <2>4. Last(e) <= LastMbr /\ 1 <= e.start
    BY <2>1, <2>2 DEF Layout, LayoutOf, TopLayout
  <2>5. e.start \in Nat /\ Last(e) \in Nat
    BY <2>1 DEF TypeOK, Part, Last
  <2>6. PICK g \in LogicalGaps(e) :
          /\ a.start = RoundUp(g[1] + 1) /\ a.last = g[2]
          /\ a.start \in Nat /\ a.last \in Nat
          /\ g[1] + 1 <= a.start /\ a.start <= a.last
    BY <1>0, <1>3, <2>3, AreaInGap
  <2>7. \E b \in Nat : a.start = b * Align
    <3>1. g[1] + 1 \in Nat
      BY <2>3
    <3> QED BY <1>1, <2>6, <3>1
  <2>8. a.last < NBlocks /\ 1 <= a.start
    BY <1>0, <2>3, <2>4, <2>5, <2>6, LastMbrType, GeometryAssumption
  <2>9. a.logical
    BY <1>3 DEF FreeAreas
  <2> QED BY <2>2, <2>6, <2>7, <2>8, <2>9
<1>4. \/ a \in FreeAreas(TopGaps, 0, FALSE)
      \/ \E e \in FirstExtended(parts) : a \in FreeAreas(LogicalGaps(e), 1, TRUE)
  BY DEF FreeSpace
<1>5. CASE \E e \in FirstExtended(parts) : a \in FreeAreas(LogicalGaps(e), 1, TRUE)
  BY <1>3, <1>5
<1> QED BY <1>2, <1>4, <1>5

LEMMA AreaTakes ==
  ASSUME TypeOK, Layout, OnDisk, NEW a \in FreeSpace,
         NEW y, y # 0, kind = "mbr" => y \notin ExtTypes,
         NEW from \in Nat, NEW to \in Nat, Within(a, from, to)
  PROVE  LET p == Request(from, to - from + 1, y)
         IN  IF kind = "gpt" THEN FitsGpt(p)
             ELSE IF a.logical
               THEN \E e \in FirstExtended(parts) : \E g \in LogicalGaps(e) : FitsInside(p, e, g)
             ELSE /\ FitsPrimary(p)
                  /\ a.start < from => \E g \in TopGaps : FitsNew(p, g)
<1>1. kind \in {"mbr", "gpt"}
  BY DEF FreeSpace, TypeOK
<1>2. CASE kind = "gpt"
  BY <1>2, AreaPlace, GptAreaFits
<1>3. CASE kind = "mbr" /\ ~a.logical
  BY <1>3, AreaPlace, MbrAreaFits
<1>4. CASE kind = "mbr" /\ a.logical
  BY <1>4, AreaPlace, LogicalAreaFits
<1> QED BY <1>1, <1>2, <1>3, <1>4

LEMMA FreeSpaceFitsLayout == TypeOK /\ Layout /\ OnDisk => FreeSpaceFits
<1> SUFFICES ASSUME TypeOK, Layout, OnDisk, NEW a \in FreeSpace, NEW y \in Types \ ({0} \cup ExtTypes)
             PROVE  LET whole == Request(a.start, a.last - a.start + 1, y)
                        later == Request(a.start + Align, a.last - a.start + 1 - Align, y)
                    IN  IF kind = "gpt" THEN FitsGpt(whole)
                        ELSE IF a.logical
                          THEN \E e \in FirstExtended(parts) : \E g \in LogicalGaps(e) : FitsInside(whole, e, g)
                        ELSE /\ FitsPrimary(whole)
                             /\ later.size > 0 => \E g \in TopGaps : FitsNew(later, g)
  BY DEF FreeSpaceFits
<1>1. y # 0 /\ y \notin ExtTypes
  OBVIOUS
<1>2. PICK s \in Nat, l \in Nat : s = a.start /\ l = a.last /\ s <= l
  BY AreaPlace
<1>3. Within(a, s, l)
  BY <1>2 DEF Within
<1>4. PICK f \in Nat : f = s + Align /\ s < f
  BY <1>2, GeometryAssumption
<1>5. l - s + 1 - Align = l - f + 1
  BY <1>2, <1>4, GeometryAssumption
<1>6. l - f + 1 > 0 => Within(a, f, l)
  BY <1>2, <1>4 DEF Within
<1>7. Request(f, l - f + 1, y).size = l - f + 1
  BY DEF Request
<1>8. kind # "gpt" /\ ~a.logical /\ l - f + 1 > 0 => \E g \in TopGaps : FitsNew(Request(f, l - f + 1, y), g)
  BY <1>1, <1>2, <1>4, <1>6, AreaTakes
<1>9. IF kind = "gpt" THEN FitsGpt(Request(s, l - s + 1, y))
      ELSE IF a.logical
        THEN \E e \in FirstExtended(parts) : \E g \in LogicalGaps(e) : FitsInside(Request(s, l - s + 1, y), e, g)
      ELSE FitsPrimary(Request(s, l - s + 1, y))
  BY <1>1, <1>3, AreaTakes
<1> QED BY <1>2, <1>4, <1>5, <1>7, <1>8, <1>9

LEMMA StaysOnDisk == OnDisk /\ [Next]_vars => OnDisk'
<1> SUFFICES ASSUME OnDisk, [Next]_vars PROVE OnDisk'
  OBVIOUS
<1>1. ASSUME NEW k, New(k) PROVE OnDisk'
  BY <1>1, GeometryAssumption DEF New, OnDisk, LastUsable
<1>2. ASSUME UNCHANGED <<kind, last>> PROVE OnDisk'
  BY <1>2 DEF OnDisk
<1>3. \/ \E k \in {"none", "mbr", "gpt"} : New(k)
      \/ UNCHANGED <<kind, last>>
  BY DEF Next, AddGpt, AddPrimary, AddLogicalInside, AddLogicalNew, Delete, SetType, SetName,
         SetActive, Edit, vars
<1> QED BY <1>1, <1>2, <1>3

\* If the table read from the disk is laid out well and a GPT ends on the disk,
\* pt_add takes every area that pt_free_space offers, whole, whatever was
\* edited before: rounding to mebibytes and the block reserved for a record
\* never offer a block too many.
THEOREM FreeSpaceTrue ==
  ASSUME \A t \in ReadTables :
           LayoutOf(t.kind, t.parts, t.first, t.last) /\ (t.kind = "gpt" => t.last < NBlocks)
  PROVE  Spec => []FreeSpaceFits
<1>1. Init => Layout /\ OnDisk
  BY DEF Init, Load, Layout, OnDisk
<1> QED BY <1>1, NextLayout, StaysOnDisk, InitType, NextType, FreeSpaceFitsLayout, PTL DEF Spec


-----------------------------------------------------------------------------
(* The sizes that are typed.                                               *)

\* What it says, to the decimal that is kept.
Says(t, bsize) == ((t.whole * Kept + KeptOf(t.frac)) * Multiple(t.unit, bsize)) \div Kept

LEMMA MultipleType ==
  ASSUME NEW bsize \in Nat \ {0}, NEW unit
  PROVE  Multiple(unit, bsize) \in Nat \ {0}
<1>0. Kilo \in Nat \ {0} /\ Kilo * Kilo \in Nat \ {0}
  BY UnitsAssumption
<1>1. Kilo * Kilo * Kilo \in Nat \ {0}
  BY <1>0
<1>2. Kilo * Kilo * Kilo * Kilo \in Nat \ {0}
  BY <1>0, <1>1
<1>3. CASE unit = "B"
  BY <1>3 DEF Multiple
<1>4. CASE unit = "K"
  BY <1>0, <1>4 DEF Multiple
<1>5. CASE unit \in {"none", "M"}
  BY <1>0, <1>5 DEF Multiple
<1>6. CASE unit = "G"
  BY <1>1, <1>6 DEF Multiple
<1>7. CASE unit = "T"
  BY <1>2, <1>7 DEF Multiple
<1>8. CASE unit \notin {"B", "K", "none", "M", "G", "T"}
  BY <1>8 DEF Multiple
<1> QED BY <1>3, <1>4, <1>5, <1>6, <1>7, <1>8

\* Whole multiples of k come out of a division by k unchanged.
LEMMA DivShift ==
  ASSUME NEW a \in Nat, NEW b \in Nat, NEW k \in Nat \ {0}
  PROVE  (a * k + b) \div k = a + (b \div k) /\ b \div k \in Nat
OBVIOUS

\* What the whole part and the fraction add up to is what the number says.
LEMMA PartsAddUp ==
  ASSUME NEW t, IsNumber(t), NEW bsize \in Nat \ {0}
  PROVE  LET mul == Multiple(t.unit, bsize)
         IN  /\ FractionBytes(t, mul) \in Nat
             /\ t.whole * mul + FractionBytes(t, mul) = Says(t, bsize)
<1> DEFINE mul == Multiple(t.unit, bsize)
           k == KeptOf(t.frac)
<1>1. mul \in Nat /\ t.whole \in Nat /\ k \in Nat /\ Kept \in Nat \ {0}
  BY MultipleType, UnitsAssumption DEF IsNumber, KeptOf
<1>2. FractionBytes(t, mul) = (k * mul) \div Kept /\ Says(t, bsize) = ((t.whole * Kept + k) * mul) \div Kept
  BY DEF FractionBytes, Says
<1> HIDE DEF mul, k
<1>3. t.whole * mul \in Nat /\ k * mul \in Nat
  BY <1>1
<1>4. (t.whole * Kept + k) * mul = (t.whole * mul) * Kept + k * mul
  BY <1>1
<1>5. \A a, b \in Nat : (a * Kept + b) \div Kept = a + (b \div Kept) /\ b \div Kept \in Nat
  BY <1>1, DivShift
<1>6. ((t.whole * mul) * Kept + k * mul) \div Kept = t.whole * mul + ((k * mul) \div Kept)
      /\ (k * mul) \div Kept \in Nat
  BY ONLY <1>3, <1>5, Zenon
<1>7. FractionBytes(t, mul) \in Nat /\ t.whole * mul + FractionBytes(t, mul) = Says(t, bsize)
  BY ONLY <1>2, <1>4, <1>6, Zenon
<1> QED BY <1>7, Zenon DEF mul

\* A size that is taken is exactly what was typed and never wraps around at the
\* largest number (pm_parse_size, units.c:75-80).
THEOREM ParsedExactly ==
  ASSUME NEW t, IsNumber(t), NEW bsize \in Nat \ {0}, ParseSize(t, bsize).ok
  PROVE  ParseSize(t, bsize).bytes = Says(t, bsize) /\ Says(t, bsize) <= MaxNum
<1> DEFINE mul == Multiple(t.unit, bsize)
           f == FractionBytes(t, mul)
<1>1. mul \in Nat \ {0} /\ t.whole \in Nat /\ f \in Nat /\ MaxNum \in Nat
      /\ t.whole * mul + f = Says(t, bsize)
  BY MultipleType, PartsAddUp, UnitsAssumption DEF IsNumber, KeptOf
<1>2. FitsNumber(t, mul) /\ ParseSize(t, bsize).bytes = (t.whole * mul + f) % (MaxNum + 1)
  BY DEF ParseSize, Refused, IsNumber
<1>3. t.whole * mul <= MaxNum - f
  BY <1>2 DEF FitsNumber
<1> HIDE DEF mul, f
<1>4. t.whole * mul \in Nat
  BY <1>1
<1>5. t.whole * mul + f \in 0..MaxNum
  BY <1>1, <1>3, <1>4
<1>6. (t.whole * mul + f) % (MaxNum + 1) = t.whole * mul + f
  BY <1>1, <1>5
<1> QED BY <1>1, <1>2, <1>5, <1>6

\* A number in a unit that is known is refused only for being too large, and
\* of those that are not, only among the last ten numbers (units.c:23, 75).
THEOREM RefusedTooLarge ==
  ASSUME NEW t, IsNumber(t), NEW bsize \in Nat \ {0}, Known(t, bsize), ~ParseSize(t, bsize).ok
  PROVE  Says(t, bsize) > MaxNum \/ t.whole + 9 > MaxNum
<1> DEFINE mul == Multiple(t.unit, bsize)
           f == FractionBytes(t, mul)
<1>1. mul \in Nat \ {0} /\ t.whole \in Nat /\ f \in Nat /\ MaxNum \in Nat
      /\ t.whole * mul + f = Says(t, bsize)
  BY MultipleType, PartsAddUp, UnitsAssumption DEF IsNumber, KeptOf
<1>2. ~FitsDigits(t.whole) \/ ~FitsNumber(t, mul)
  BY DEF ParseSize, IsNumber
<1>3. CASE ~FitsDigits(t.whole)
  BY <1>1, <1>3 DEF FitsDigits
<1>4. CASE ~FitsNumber(t, mul)
  <2>1. t.whole > MaxNum \div mul \/ t.whole * mul > MaxNum - f
    BY <1>1, <1>4 DEF FitsNumber
  <2> HIDE DEF mul, f
  <2>2. t.whole > MaxNum \div mul => t.whole * mul > MaxNum
    BY <1>1
  <2> QED BY <1>1, <2>1, <2>2
<1> QED BY <1>2, <1>3, <1>4

-----------------------------------------------------------------------------
(* The sizes the screens show.                                             *)

Climbs(h, n) ==
  h \in [1..6 -> Nat] /\ h[1] = n /\ \A v \in 2..6 : h[v] = h[v - 1] \div Kilo

\* Where the division by the factor between units stops.
Stops(h, u) ==
  u \in 1..6 /\ (u = 6 \/ h[u] < Kilo) /\ \A t \in 1..(u - 1) : h[t] >= Kilo

LEMMA DivBounds ==
  ASSUME NEW a \in Nat, NEW k \in Nat \ {0}
  PROVE  /\ a \div k \in Nat /\ a % k \in 0..(k - 1)
         /\ a = (a \div k) * k + (a % k)
OBVIOUS

LEMMA DivWhole ==
  ASSUME NEW q \in Nat, NEW k \in Nat \ {0}, NEW r \in 0..(k - 1)
  PROVE  (q * k + r) \div k = q
OBVIOUS

LEMMA DivExact ==
  ASSUME NEW a \in Nat, NEW k \in Nat \ {0}, a % k = 0
  PROVE  \E q \in Nat : q = a \div k /\ a = q * k
<1>1. PICK q \in Nat, r \in Nat : q = a \div k /\ r = a % k /\ a = q * k + r
  BY DivBounds
<1>2. q * k \in Nat
  OBVIOUS
<1> QED BY <1>1, <1>2

LEMMA Climb ==
  ASSUME NEW n \in Nat
  PROVE  \E h, u :
           /\ Climbs(h, n) /\ Stops(h, u)
           /\ FmtSize(n) =
                IF u = 1 THEN Number(n, 0, "B", "none")
                ELSE Number(h[u], (((h[u - 1] % Kilo) * 10) \div Kilo) * Kept, Ladder[u], "iB")
<1> DEFINE From(g) == [u \in 1..6 |-> IF u = 1 THEN n ELSE g[u - 1] \div Kilo]
           held == CHOOSE g : g = From(g)
           Stop(g, v) == (v = 6 \/ g[v] < Kilo) /\ \A t \in 1..(v - 1) : g[t] >= Kilo
           u == CHOOSE v \in 1..6 : Stop(held, v)
<1>1. FmtSize(n) = IF u = 1 THEN Number(n, 0, "B", "none")
                   ELSE Number(held[u], (((held[u - 1] % Kilo) * 10) \div Kilo) * Kept, Ladder[u], "iB")
  BY DEF FmtSize
<1>2. \A a \in Nat : a \div Kilo \in Nat
  BY DivBounds, UnitsAssumption
<1>3. \E g : g = From(g) /\ g \in [1..6 -> Nat]
  <2>1. PICK step : step = [i \in 1..5 |-> [a \in Nat |-> a \div Kilo]]
    OBVIOUS
  <2>2. step \in Steps(5, Nat)
    BY <1>2, <2>1 DEF Steps
  <2>3. PICK f : Made(f, 5, Nat, n, step)
    BY <2>2, Recursion
  <2> DEFINE g == [v \in 1..6 |-> f[v - 1]]
  <2>4. f \in [0..5 -> Nat] /\ f[0] = n /\ \A i \in 1..5 : f[i] = f[i - 1] \div Kilo
    BY <2>1, <2>3 DEF Made
  <2>5. g \in [1..6 -> Nat]
    BY <2>4
  <2>6. ASSUME NEW v \in 1..6 PROVE g[v] = IF v = 1 THEN n ELSE g[v - 1] \div Kilo
    <3>1. CASE v = 1
      BY <2>4, <3>1
    <3>2. CASE v # 1
      <4>1. v - 1 \in 1..5 /\ v - 1 \in 1..6 /\ (v - 1) - 1 \in 0..5
        BY <3>2
      <4>2. g[v] = f[v - 1] /\ g[v - 1] = f[(v - 1) - 1]
        BY <4>1
      <4>3. f[v - 1] = f[(v - 1) - 1] \div Kilo
        BY <2>4, <4>1
      <4> QED BY <3>2, <4>2, <4>3
    <3> QED BY <3>1, <3>2
  <2>7. g = From(g)
    BY <2>5, <2>6
  <2> QED BY <2>5, <2>7
<1>4. PICK g : g = From(g) /\ g \in [1..6 -> Nat]
  BY <1>3
<1>5. held = From(held)
  BY <1>4
<1> HIDE DEF held
<1>6. Climbs(held, n)
  <2>1. \A v \in 1..6 : held[v] = IF v = 1 THEN n ELSE held[v - 1] \div Kilo
    BY <1>5
  <2>2. held[1] = n /\ held[2] = held[1] \div Kilo /\ held[3] = held[2] \div Kilo
        /\ held[4] = held[3] \div Kilo /\ held[5] = held[4] \div Kilo /\ held[6] = held[5] \div Kilo
    BY <2>1
  <2>3. held[1] \in Nat /\ held[2] \in Nat /\ held[3] \in Nat /\ held[4] \in Nat /\ held[5] \in Nat
        /\ held[6] \in Nat
    BY <1>2, <2>2
  <2>4. \A v \in 1..6 : held[v] \in Nat
    BY <2>3
  <2>5. held \in [1..6 -> Nat]
    BY <1>5, <2>4
  <2>6. \A v \in 2..6 : held[v] = held[v - 1] \div Kilo
    BY <2>1
  <2> QED BY <2>2, <2>5, <2>6 DEF Climbs
<1>7. \E v \in 1..6 : Stop(held, v)
  <2> DEFINE S == {v \in 1..6 : v = 6 \/ held[v] < Kilo}
  <2>1. S \in SUBSET Nat /\ S # {}
    <3>1. 6 \in S
      OBVIOUS
    <3> QED BY <3>1
  <2>2. PICK v \in S : \A w \in S : v <= w
    <3> HIDE DEF S
    <3> QED BY <2>1, LeastNatural
  <2>3. ASSUME NEW t \in 1..(v - 1) PROVE held[t] >= Kilo
    <3>1. t \in 1..6 /\ ~(v <= t)
      BY <2>2
    <3>2. t \notin S
      BY <2>2, <3>1
    <3>3. held[t] \in Nat
      BY <1>6, <3>1 DEF Climbs
    <3> QED BY <3>1, <3>2, <3>3, UnitsAssumption
  <2> QED BY <2>2, <2>3
<1>8. u \in 1..6 /\ Stop(held, u)
  BY <1>7
<1>9. Stops(held, u)
  BY <1>8 DEF Stops
<1> HIDE DEF u
<1> QED BY <1>1, <1>6, <1>9

\* A number n above the first unit: q of a unit of P * Kilo bytes, m of the
\* unit below it and r bytes.
Splits(n, q, m, P, r) ==
  /\ q \in Nat \ {0} /\ m \in 0..(Kilo - 1) /\ P \in Nat \ {0} /\ r \in 0..(P - 1)
  /\ n = q * (P * Kilo) + (m * P + r)

\* n is a units of P bytes and r bytes.
Holds(n, a, P, r) == a \in Nat /\ P \in Nat \ {0} /\ r \in 0..(P - 1) /\ n = a * P + r

LEMMA SplitOnce ==
  ASSUME NEW n \in Nat, NEW a, NEW P, NEW r, Holds(n, a, P, r)
  PROVE  Holds(n, a \div Kilo, P * Kilo, (a % Kilo) * P + r) /\ a % Kilo \in 0..(Kilo - 1)
<1>1. Kilo \in Nat \ {0} /\ a \in Nat /\ P \in Nat \ {0} /\ r \in 0..(P - 1) /\ n = a * P + r
  BY UnitsAssumption DEF Holds
<1>2. PICK q, m : q = a \div Kilo /\ m = a % Kilo
  OBVIOUS
<1>3. q \in Nat /\ m \in 0..(Kilo - 1) /\ a = q * Kilo + m
  BY <1>1, <1>2, DivBounds
<1>4. n = q * (P * Kilo) + (m * P + r)
  <2>1. (q * Kilo + m) * P = q * (P * Kilo) + m * P
    BY <1>1, <1>3
  <2>2. m * P \in Nat /\ q * (P * Kilo) \in Nat
    BY <1>1, <1>3
  <2>3. n = (q * Kilo + m) * P + r
    BY <1>1, <1>3
  <2> QED BY ONLY <2>1, <2>2, <2>3, <1>1
<1>5. P * Kilo \in Nat \ {0}
  BY <1>1
<1>6. m * P + r \in 0..(P * Kilo - 1)
  <2>1. m + 1 <= Kilo /\ m \in Nat
    BY <1>1, <1>3
  <2>2. (m + 1) * P <= Kilo * P
    BY <1>1, <2>1
  <2>3. PICK x \in Nat, y \in Nat : x = m * P /\ y = Kilo * P
    BY <1>1, <2>1
  <2>4. (m + 1) * P = x + P /\ Kilo * P = y /\ P * Kilo = y
    BY <1>1, <2>1, <2>3
  <2>5. x + P <= y
    BY <2>2, <2>4
  <2>6. x + r \in 0..(y - 1)
    BY <1>1, <2>3, <2>5
  <2> QED BY <2>3, <2>4, <2>6
<1> QED BY <1>2, <1>3, <1>4, <1>5, <1>6 DEF Holds

\* The bytes of the unit that is u divisions up.
Power(u) == CASE u = 1 -> 1 [] u = 2 -> Kilo [] u = 3 -> Kilo * Kilo [] u = 4 -> Kilo * Kilo * Kilo
              [] OTHER -> Kilo * Kilo * Kilo * Kilo

LEMMA ClimbSplits ==
  ASSUME NEW n \in Nat, NEW h, Climbs(h, n)
  PROVE  \A u \in 1..5 : \E r : Holds(n, h[u], Power(u), r)
<1>0. Kilo \in Nat \ {0}
  BY UnitsAssumption
<1>1. h[1] = n
  BY DEF Climbs
<1>2. h[2] = h[1] \div Kilo /\ h[3] = h[2] \div Kilo /\ h[4] = h[3] \div Kilo /\ h[5] = h[4] \div Kilo
  BY DEF Climbs
<1> DEFINE Fine(u) == \E r : Holds(n, h[u], Power(u), r)
<1>3. Power(1) = 1 /\ Power(2) = Kilo /\ Power(3) = Kilo * Kilo
      /\ Power(4) = Kilo * Kilo * Kilo /\ Power(5) = Kilo * Kilo * Kilo * Kilo
  BY DEF Power
<1>4. Power(2) = Power(1) * Kilo /\ Power(3) = Power(2) * Kilo
      /\ Power(4) = Power(3) * Kilo /\ Power(5) = Power(4) * Kilo
  BY <1>0, <1>3
<1>5. ASSUME NEW u \in 1..4, Fine(u), h[u + 1] = h[u] \div Kilo, Power(u + 1) = Power(u) * Kilo
      PROVE  Fine(u + 1)
  BY <1>5, SplitOnce
<1>6. Fine(1)
  <2>1. Holds(n, n, 1, 0)
    BY DEF Holds
  <2> QED BY <1>1, <1>3, <2>1
<1> HIDE DEF Fine
<1>7. Fine(2)
  BY <1>1, <1>2, <1>4, <1>5, <1>6
<1>8. Fine(3)
  BY <1>1, <1>2, <1>4, <1>5, <1>7
<1>9. Fine(4)
  BY <1>1, <1>2, <1>4, <1>5, <1>8
<1>10. Fine(5)
  BY <1>1, <1>2, <1>4, <1>5, <1>9
<1>11. \A u \in 1..5 : Fine(u)
  BY <1>6, <1>7, <1>8, <1>9, <1>10
<1> QED BY <1>11 DEF Fine

\* What pm_fmt_size shows of n: all of it, so many units and tenths, or
\* petabytes, which nobody may type.
Pebi == Kilo * Kilo * Kilo * Kilo * Kilo

LEMMA ShownSplits ==
  ASSUME NEW n \in Nat
  PROVE  \/ n < Kilo /\ FmtSize(n) = Number(n, 0, "B", "none")
         \/ n >= Pebi /\ FmtSize(n).unit = "other"
         \/ \E q, m, P, r : \E unit \in {"K", "M", "G", "T"} :
              /\ Splits(n, q, m, P, r) /\ q < Kilo
              /\ \A bsize : Multiple(unit, bsize) = P * Kilo
              /\ P = 1 \/ P >= Kilo
              /\ FmtSize(n) = Number(q, ((m * 10) \div Kilo) * Kept, unit, "iB")
<1>0. Kilo \in Nat \ {0}
  BY UnitsAssumption
<1>1. PICK h, u : /\ Climbs(h, n) /\ Stops(h, u)
                  /\ FmtSize(n) =
                       IF u = 1 THEN Number(n, 0, "B", "none")
                       ELSE Number(h[u], (((h[u - 1] % Kilo) * 10) \div Kilo) * Kept, Ladder[u], "iB")
  BY Climb
<1>2. u \in 1..6 /\ h \in [1..6 -> Nat] /\ h[1] = n /\ \A v \in 2..6 : h[v] = h[v - 1] \div Kilo
  BY <1>1 DEF Climbs, Stops
<1>3. CASE u = 1
  BY <1>1, <1>2, <1>3 DEF Stops
<1>4. CASE u = 6
  <2>1. FmtSize(n).unit = "other"
    BY <1>1, <1>4 DEF Number, Ladder
  <2>2. PICK r : Holds(n, h[5], Power(5), r)
    BY <1>1, ClimbSplits
  <2>3. PICK a \in Nat, P \in Nat \ {0} : a = h[5] /\ P = Power(5)
    BY <2>2 DEF Holds
  <2>4. n = a * P + r /\ r \in Nat /\ a >= Kilo
    <3>1. h[5] >= Kilo
      BY <1>1, <1>4 DEF Stops
    <3> QED BY <2>2, <2>3, <3>1 DEF Holds
  <2>5. a * P >= Kilo * P
    BY <1>0, <2>3, <2>4
  <2>6. Kilo * P = Pebi
    BY <1>0, <2>3 DEF Pebi, Power
  <2>7. PICK x \in Nat, y \in Nat : x = a * P /\ y = Kilo * P
    BY <1>0, <2>3
  <2>8. n >= y
    BY <2>4, <2>5, <2>7
  <2> QED BY <2>1, <2>6, <2>7, <2>8
<1>5. CASE u \in 2..5
  <2>1. PICK a, P : a = h[u - 1] /\ P = Power(u - 1)
    OBVIOUS
  <2>2. u - 1 \in 1..5 /\ u - 1 \in 1..4 /\ u \in 2..6
    BY <1>5
  <2>3. PICK r : Holds(n, a, P, r)
    BY <1>1, <2>1, <2>2, ClimbSplits
  <2>4. a \in Nat
    BY <2>3 DEF Holds
  <2>5. Holds(n, a \div Kilo, P * Kilo, (a % Kilo) * P + r) /\ a % Kilo \in 0..(Kilo - 1)
    BY <2>3, SplitOnce
  <2>6. h[u] = a \div Kilo /\ h[u] < Kilo /\ a >= Kilo
    <3>1. h[u] = a \div Kilo
      BY <1>2, <2>1, <2>2
    <3>2. h[u] < Kilo
      BY <1>1, <1>5 DEF Stops
    <3>3. h[u - 1] >= Kilo
      BY <1>1, <1>5 DEF Stops
    <3> QED BY <2>1, <3>1, <3>2, <3>3
  <2>7. a \div Kilo # 0
    BY <1>0, <2>4, <2>6
  <2>8. Splits(n, a \div Kilo, a % Kilo, P, r)
    BY <2>3, <2>5, <2>7 DEF Splits, Holds
  <2>9. PICK unit : unit = Ladder[u]
    OBVIOUS
  <2>10. unit \in {"K", "M", "G", "T"} /\ \A bsize : Multiple(unit, bsize) = P * Kilo
    <3>1. CASE u = 2
      <4>1. unit = "K" /\ P = 1
        BY <2>1, <2>9, <3>1 DEF Ladder, Power
      <4> QED BY <4>1, <1>0 DEF Multiple
    <3>2. CASE u = 3
      <4>1. unit = "M" /\ P = Kilo
        BY <2>1, <2>9, <3>2 DEF Ladder, Power
      <4> QED BY <4>1, <1>0 DEF Multiple
    <3>3. CASE u = 4
      <4>1. unit = "G" /\ P = Kilo * Kilo
        BY <2>1, <2>9, <3>3 DEF Ladder, Power
      <4> QED BY <4>1, <1>0 DEF Multiple
    <3>4. CASE u = 5
      <4>1. unit = "T" /\ P = Kilo * Kilo * Kilo
        BY <2>1, <2>9, <3>4 DEF Ladder, Power
      <4> QED BY <4>1, <1>0 DEF Multiple
    <3> QED BY <1>5, <3>1, <3>2, <3>3, <3>4
  <2>11. P = 1 \/ P >= Kilo
    <3>1. u - 1 \in {1, 2, 3, 4}
      BY <2>2
    <3>2. Kilo * Kilo \in Nat /\ Kilo * Kilo >= Kilo
      BY <1>0
    <3>3. Kilo * Kilo * Kilo >= Kilo
      BY <1>0, <3>2
    <3> QED BY <1>0, <2>1, <3>1, <3>2, <3>3 DEF Power
  <2>12. FmtSize(n) = Number(a \div Kilo, (((a % Kilo) * 10) \div Kilo) * Kept, unit, "iB")
    BY <1>1, <1>5, <2>1, <2>6, <2>9
  <2>13. (a \div Kilo) < Kilo
    BY <2>6
  <2>14. \E q, m : /\ Splits(n, q, m, P, r) /\ q < Kilo
                   /\ FmtSize(n) = Number(q, ((m * 10) \div Kilo) * Kept, unit, "iB")
    BY <2>8, <2>12, <2>13
  <2> QED BY <2>10, <2>11, <2>14
<1>6. u = 1 \/ u = 6 \/ u \in 2..5
  BY <1>2
<1> QED BY <1>3, <1>4, <1>5, <1>6

\* The decimal shown is read as so many tenths of the unit.
LEMMA TenthsRead ==
  ASSUME NEW q, NEW d \in Nat, NEW unit, NEW M \in Nat
  PROVE  LET t == Number(q, d * Kept, unit, "iB")
         IN  /\ FractionBytes(t, M) = (d * M) \div 10
             /\ d <= 9 /\ q \in Nat => IsNumber(t)
<1>1. PICK K \in Nat \ {0} : Kept = K * 10
  <2>1. Kept \in Nat \ {0} /\ Kept = (Kept \div 10) * 10 /\ Kept \div 10 \in Nat
    BY UnitsAssumption
  <2> QED BY <2>1
<1> DEFINE t == Number(q, d * Kept, unit, "iB")
<1>2. t.frac = d * Kept /\ t.whole = q /\ t.form = "number"
  BY DEF Number
<1>3. t.frac \div 10 = d * K
  <2>1. d * Kept = (d * K) * 10 /\ d * K \in Nat
    BY <1>1
  <2>2. PICK x \in Nat : x = d * K
    BY <2>1
  <2>3. (x * 10) \div 10 = x
    BY <2>2
  <2> QED BY <1>2, <2>1, <2>2, <2>3
<1>4. FractionBytes(t, M) = ((d * K) * M) \div Kept
  BY <1>3 DEF FractionBytes, KeptOf
<1>5. ((d * K) * M) \div Kept = (d * M) \div 10
  <2>1. PICK x \in Nat : x = d * M
    BY <1>1
  <2>2. PICK y \in Nat, z \in 0..9 : y = x \div 10 /\ x = y * 10 + z
    <3>1. x \div 10 \in Nat /\ x % 10 \in 0..9 /\ x = (x \div 10) * 10 + (x % 10)
      OBVIOUS
    <3> QED BY <3>1
  <2>3. (d * K) * M = x * K
    BY <1>1, <2>1
  <2>4. x * K = y * (K * 10) + z * K
    BY <1>1, <2>2
  <2>5. z * K \in 0..(K * 10 - 1)
    <3>1. z \in Nat /\ z + 1 <= 10
      OBVIOUS
    <3>2. (z + 1) * K <= 10 * K /\ (z + 1) * K = z * K + K /\ z * K \in Nat
      BY <1>1, <3>1
    <3>3. PICK w \in Nat : w = z * K
      BY <3>2
    <3> QED BY <1>1, <3>2, <3>3
  <2>6. PICK w \in Nat, k \in Nat \ {0} : w = z * K /\ k = K * 10
    BY <1>1, <2>5
  <2>7. (y * k + w) \div k = y + (w \div k)
    BY <2>6, DivShift
  <2>8. w \in 0..(k - 1)
    BY <2>5, <2>6
  <2>9. w \div k = 0
    BY <2>6, <2>8
  <2>10. (x * K) \div Kept = (y * k + w) \div k
    BY <1>1, <2>4, <2>6
  <2> QED BY <2>1, <2>2, <2>3, <2>7, <2>9, <2>10
<1>6. ASSUME d <= 9, q \in Nat PROVE IsNumber(t)
  <2>1. d * K \in Nat /\ d * K <= 9 * K /\ d * Kept \in Nat
    BY <1>1, <1>6
  <2>2. PICK x \in Nat : x = d * K
    BY <2>1
  <2>3. d * K \in 0..(Kept - 1)
    BY <1>1, <2>1, <2>2
  <2> QED BY <1>2, <1>3, <1>6, <2>1, <2>3 DEF IsNumber
<1> QED BY <1>4, <1>5, <1>6

\* What is shown is never more than there is, and less by less than a tenth
\* and one of the unit below.
LEMMA ShownClose ==
  ASSUME NEW n \in Nat, NEW q, NEW m, NEW P, NEW r, Splits(n, q, m, P, r)
  PROVE  LET d == (m * 10) \div Kilo
             M == P * Kilo
             f == (d * M) \div 10
         IN  /\ d \in 0..9 /\ M \in Nat \ {0} /\ f \in Nat /\ q * M \in Nat
             /\ q * M + f <= n
             /\ (n - (q * M + f)) * 10 * Kilo < M * (Kilo + 10)
             /\ m = 0 /\ r = 0 => q * M + f = n
             /\ M <= q * M + f
<1>1. /\ Kilo \in Nat \ {0} /\ q \in Nat \ {0} /\ m \in 0..(Kilo - 1) /\ P \in Nat \ {0}
      /\ r \in 0..(P - 1) /\ m \in Nat /\ r \in Nat
  BY UnitsAssumption DEF Splits
<1>2. PICK d : d = (m * 10) \div Kilo
  OBVIOUS
<1>3. PICK M \in Nat \ {0} : M = P * Kilo
  BY <1>1
<1>4. PICK e \in 0..(Kilo - 1) : m * 10 = d * Kilo + e /\ d \in Nat
  <2>1. PICK x \in Nat : x = m * 10
    BY <1>1
  <2>2. x \div Kilo \in Nat /\ x % Kilo \in 0..(Kilo - 1) /\ x = (x \div Kilo) * Kilo + (x % Kilo)
    BY <1>1, DivBounds
  <2> QED BY <1>2, <2>1, <2>2
<1>5. d \in 0..9
  <2>1. d * Kilo < 10 * Kilo
    <3>1. PICK x \in Nat : x = d * Kilo
      BY <1>1, <1>4
    <3> QED BY <1>1, <1>4, <3>1
  <2>2. d >= 10 => d * Kilo >= 10 * Kilo
    BY <1>1, <1>4
  <2>3. d * Kilo \in Nat
    BY <1>1, <1>4
  <2> QED BY <1>1, <1>4, <2>1, <2>2, <2>3
<1>6. PICK f \in Nat, g \in 0..9 : f = (d * M) \div 10 /\ d * M = f * 10 + g
  <2>1. PICK x \in Nat : x = d * M
    BY <1>4
  <2>2. x \div 10 \in Nat /\ x % 10 \in 0..9 /\ x = (x \div 10) * 10 + (x % 10)
    OBVIOUS
  <2> QED BY <2>1, <2>2
\* Everything by unknowns: the products are those of P.
<1>7. PICK mP \in Nat, dM \in Nat, eP \in Nat, qM \in Nat :
        mP = m * P /\ dM = d * M /\ eP = e * P /\ qM = q * M
  BY <1>1, <1>3, <1>4
<1>8. mP * 10 = dM + eP /\ eP <= M - P
  <2>1. (m * 10) * P = (d * Kilo + e) * P
    BY <1>4
  <2>2. (m * 10) * P = mP * 10
    BY <1>1, <1>7
  <2>3. (d * Kilo + e) * P = dM + eP
    BY <1>1, <1>3, <1>4, <1>7
  <2>4. (e + 1) * P <= Kilo * P /\ (e + 1) * P = eP + P
    <3>1. e \in Nat /\ e + 1 <= Kilo
      BY <1>1, <1>4
    <3> QED BY <1>1, <1>7, <3>1
  <2>5. Kilo * P = M
    BY <1>1, <1>3
  <2> QED BY <1>1, <1>7, <2>1, <2>2, <2>3, <2>4, <2>5
<1>9. n = qM + (mP + r)
  BY <1>3, <1>7 DEF Splits
<1>10. dM = f * 10 + g
  BY <1>6, <1>7
<1>11. qM + f <= n /\ (n - (qM + f)) * 10 < M + 10 * P
  <2>1. f * 10 <= mP * 10
    BY <1>7, <1>8, <1>10
  <2>2. f <= mP
    BY <1>7, <2>1
  <2>3. n - (qM + f) = mP + r - f /\ (mP + r - f) * 10 = mP * 10 + r * 10 - f * 10
    BY <1>1, <1>7, <1>9
  <2>4. mP * 10 + r * 10 - f * 10 = eP + g + r * 10
    BY <1>1, <1>7, <1>8, <1>10
  <2> QED BY <1>1, <1>3, <1>7, <1>8, <1>9, <2>2, <2>3, <2>4
<1>12. (n - (qM + f)) * 10 * Kilo < M * (Kilo + 10)
  <2>1. PICK x \in Nat : x = (n - (qM + f)) * 10
    BY <1>7, <1>11
  <2>2. x + 1 <= M + 10 * P
    BY <1>1, <1>3, <1>11, <2>1
  <2>3. PICK y \in Nat : y = M + 10 * P
    BY <1>1, <1>3
  <2>4. (x + 1) * Kilo <= y * Kilo
    BY <1>1, <2>2, <2>3
  <2>5. y * Kilo = M * (Kilo + 10)
    BY <1>1, <1>3, <2>3
  <2>6. (x + 1) * Kilo = x * Kilo + Kilo /\ x * Kilo \in Nat /\ y * Kilo \in Nat
    BY <1>1, <2>1, <2>3
  <2>7. x * Kilo < y * Kilo
    BY <1>1, <2>4, <2>6
  <2> QED BY <2>1, <2>5, <2>7
<1>13. ASSUME m = 0, r = 0 PROVE qM + f = n
  <2>1. mP = 0 /\ dM = 0
    BY <1>1, <1>7, <1>8, <1>13
  <2>2. f = 0
    BY <1>10, <2>1
  <2> QED BY <1>7, <1>9, <1>13, <2>1, <2>2
<1>14. M <= qM + f
  <2>1. q >= 1
    BY <1>1
  <2>2. q * M >= 1 * M
    BY <1>1, <1>3, <2>1
  <2> QED BY <1>3, <1>6, <1>7, <2>2
<1> QED BY <1>2, <1>3, <1>5, <1>6, <1>7, <1>11, <1>12, <1>13, <1>14

LEMMA SmallMod == \A a, b \in Nat : a <= b => a % (b + 1) = a
OBVIOUS

\* A number in a known unit that is within reach is taken as what it says.
LEMMA Taking ==
  ASSUME NEW t, t.form = "number", NEW bsize, Known(t, bsize), NEW M \in Nat \ {0},
         M = Multiple(t.unit, bsize), NEW n \in Nat, n <= MaxNum, t.whole \in Nat, t.whole + 9 <= MaxNum,
         t.whole * M + FractionBytes(t, M) <= n, FractionBytes(t, M) \in Nat
  PROVE  ParseSize(t, bsize) = [ok |-> TRUE, rest |-> FALSE, bytes |-> t.whole * M + FractionBytes(t, M)]
<1>1. PICK w \in Nat, f \in Nat, x \in Nat : w = t.whole /\ f = FractionBytes(t, M) /\ x = w * M
  OBVIOUS
<1>2. MaxNum \in Nat /\ x + f <= n /\ w + 9 <= MaxNum
  BY <1>1, UnitsAssumption
<1>3. FitsDigits(w)
  BY <1>1, <1>2 DEF FitsDigits
<1>4. w <= MaxNum \div M
  <2>1. w * M <= MaxNum
    BY <1>1, <1>2
  <2>2. MaxNum \div M \in Nat /\ MaxNum % M \in 0..(M - 1) /\ MaxNum = (MaxNum \div M) * M + (MaxNum % M)
    BY <1>2, DivBounds
  <2>3. PICK q \in Nat, r \in 0..(M - 1) : q = MaxNum \div M /\ MaxNum = q * M + r
    BY <2>2
  <2>4. ASSUME q + 1 <= w PROVE FALSE
    <3>1. (q + 1) * M <= w * M /\ (q + 1) * M = q * M + M
      BY <1>1, <2>3, <2>4
    <3>2. PICK y \in Nat : y = q * M
      BY <2>3
    <3> QED BY <1>1, <1>2, <2>1, <2>3, <3>1, <3>2
  <2> QED BY <1>1, <2>3, <2>4
<1>5. FitsNumber(t, M)
  BY <1>1, <1>2, <1>4 DEF FitsNumber
<1>6. (x + f) % (MaxNum + 1) = x + f
  <2>1. x + f \in Nat /\ x + f <= MaxNum
    BY <1>2
  <2> QED BY ONLY <1>2, <2>1, SmallMod
<1> QED BY <1>1, <1>3, <1>5, <1>6 DEF ParseSize

LEMMA KiloSmall == MaxNum >= 20 /\ \A w \in Nat : w <= Kilo => w + 9 <= MaxNum
<1>1. MaxNum \in Nat /\ Kilo \in Nat /\ Kilo >= 2 /\ Kept \in Nat /\ Kept >= 10
  BY UnitsAssumption
<1>2. PICK c \in Nat, k \in Nat : c = Kilo * Kilo * Kilo /\ k = Kept * Kilo
  BY <1>1
<1>3. k >= 10 * Kilo
  BY <1>1, <1>2
<1>4. c >= 1
  <2>1. Kilo * Kilo \in Nat /\ Kilo * Kilo >= 1
    BY <1>1
  <2> QED BY <1>1, <1>2, <2>1
<1>5. k * c >= k
  BY <1>2, <1>4
<1>6. Kept * Kilo * Kilo * Kilo * Kilo = k * c
  BY <1>1, <1>2
<1>7. k <= MaxNum
  BY <1>1, <1>2, <1>5, <1>6, UnitsAssumption
<1> QED BY <1>1, <1>2, <1>3, <1>7

\* What a size that a screen shows is when it is typed.
LEMMA ShownRead ==
  ASSUME NEW n \in Nat, n <= MaxNum, NEW bsize \in Nat \ {0}
  PROVE  LET z == ParseSize(FmtSize(n), bsize)
         IN  /\ ~z.rest
             /\ z.ok => /\ z.bytes \in Nat /\ z.bytes <= n
                        /\ (n - z.bytes) * 10 * Kilo < Multiple(FmtSize(n).unit, bsize) * (Kilo + 10)
             /\ n < Pebi =>
                  /\ z.ok
                  /\ \/ z.bytes = n
                     \/ \E P \in Nat \ {0} : /\ P * Kilo <= z.bytes /\ (P = 1 \/ P >= Kilo)
                                             /\ P = 1 /\ n % Kilo = 0 => z.bytes = n
<1> DEFINE t == FmtSize(n)
           z == ParseSize(t, bsize)
<1>0. MaxNum \in Nat /\ Kilo \in Nat \ {0}
  BY UnitsAssumption
<1>1. CASE n < Kilo /\ t = Number(n, 0, "B", "none")
  <2>1. t.form = "number" /\ t.whole = n /\ t.frac = 0 /\ t.unit = "B" /\ Known(t, bsize)
    BY <1>1 DEF Number, Known
  <2>2. Multiple(t.unit, bsize) = 1
    BY <2>1 DEF Multiple
  <2>3. FractionBytes(t, 1) = 0
    BY <2>1, UnitsAssumption DEF FractionBytes, KeptOf
  <2>4. n + 9 <= MaxNum
    BY <1>0, <1>1, KiloSmall
  <2> HIDE DEF t
  <2>5. t.whole * 1 + FractionBytes(t, 1) = n
    BY <2>1, <2>3
  <2>6. z = [ok |-> TRUE, rest |-> FALSE, bytes |-> t.whole * 1 + FractionBytes(t, 1)]
    BY <2>1, <2>2, <2>3, <2>4, <2>5, Taking
  <2>7. z.ok /\ ~z.rest /\ z.bytes = n
    BY <2>5, <2>6
  <2>8. (n - z.bytes) * 10 * Kilo < Multiple(t.unit, bsize) * (Kilo + 10)
    BY <1>0, <2>2, <2>7
  <2> QED BY <2>7, <2>8 DEF t
<1>2. CASE n >= Pebi /\ t.unit = "other"
  <2>1. z = Refused \/ z.rest
    <3>1. ~Known(t, bsize)
      BY <1>2 DEF Known
    <3> QED BY <3>1 DEF ParseSize
  <2>2. t.form = "number"
    <3>1. \E a, b, c, d : t = Number(a, b, c, d)
      BY DEF FmtSize
    <3> QED BY <3>1 DEF Number
  <2>3. z = Refused
    <3>1. ~Known(t, bsize)
      BY <1>2 DEF Known
    <3> QED BY <2>2, <3>1 DEF ParseSize
  <2>4. Pebi \in Nat
    <3>1. Kilo * Kilo \in Nat
      BY <1>0
    <3>2. Kilo * Kilo * Kilo \in Nat
      BY <1>0, <3>1
    <3>3. Kilo * Kilo * Kilo * Kilo \in Nat
      BY <1>0, <3>2
    <3> QED BY <1>0, <3>3 DEF Pebi
  <2> QED BY <1>2, <2>3, <2>4 DEF Refused
<1>3. ASSUME NEW q, NEW m, NEW P, NEW r, NEW unit \in {"K", "M", "G", "T"},
             Splits(n, q, m, P, r), q < Kilo, \A b : Multiple(unit, b) = P * Kilo, P = 1 \/ P >= Kilo,
             t = Number(q, ((m * 10) \div Kilo) * Kept, unit, "iB")
      PROVE  /\ z.ok /\ ~z.rest /\ z.bytes \in Nat /\ z.bytes <= n
             /\ (n - z.bytes) * 10 * Kilo < Multiple(t.unit, bsize) * (Kilo + 10)
             /\ P \in Nat \ {0} /\ P * Kilo <= z.bytes
             /\ P = 1 /\ n % Kilo = 0 => z.bytes = n
  <2>1. PICK d, M, f : d = (m * 10) \div Kilo /\ M = P * Kilo /\ f = (d * M) \div 10
    OBVIOUS
  <2>2. /\ d \in 0..9 /\ M \in Nat \ {0} /\ f \in Nat /\ q * M \in Nat
        /\ q * M + f <= n
        /\ (n - (q * M + f)) * 10 * Kilo < M * (Kilo + 10)
        /\ m = 0 /\ r = 0 => q * M + f = n
        /\ M <= q * M + f
    BY <1>3, <2>1, ShownClose
  <2>3. q \in Nat /\ m \in 0..(Kilo - 1) /\ P \in Nat \ {0} /\ r \in 0..(P - 1)
    BY <1>3 DEF Splits
  <2>4. t.form = "number" /\ t.whole = q /\ t.unit = unit /\ Known(t, bsize)
    BY <1>3 DEF Number, Known
  <2>5. Multiple(t.unit, bsize) = M
    BY <1>3, <2>1, <2>4
  <2>6. FractionBytes(t, M) = f
    <3>1. t = Number(q, d * Kept, unit, "iB") /\ d \in Nat /\ M \in Nat
      BY <1>3, <2>1, <2>2
    <3> HIDE DEF t
    <3>2. FractionBytes(Number(q, d * Kept, unit, "iB"), M) = (d * M) \div 10
      BY <3>1, TenthsRead
    <3> QED BY <2>1, <3>1, <3>2
  <2>7. q + 9 <= MaxNum
    BY <1>0, <1>3, <2>3, KiloSmall
  <2> HIDE DEF t
  <2>8. z = [ok |-> TRUE, rest |-> FALSE, bytes |-> t.whole * M + FractionBytes(t, M)]
    BY <2>2, <2>3, <2>4, <2>5, <2>6, <2>7, Taking
  <2>9. z.ok /\ ~z.rest /\ z.bytes = q * M + f
    BY <2>4, <2>6, <2>8
  <2>10. ASSUME P = 1, n % Kilo = 0 PROVE q * M + f = n
    <3>1. r = 0 /\ M = Kilo /\ n = q * Kilo + m
      BY <1>0, <1>3, <2>1, <2>3, <2>10 DEF Splits
    <3>2. n % Kilo = m
      <4>1. PICK x \in Nat : x = q * Kilo
        BY <1>0, <2>3
      <4>2. (q * Kilo + m) % Kilo = m
        BY <1>0, <2>3
      <4> QED BY <3>1, <4>2
    <3> QED BY <2>2, <2>10, <3>1, <3>2
  <2>11. (n - z.bytes) * 10 * Kilo < Multiple(t.unit, bsize) * (Kilo + 10)
    BY <2>2, <2>5, <2>9
  <2> QED BY <2>1, <2>2, <2>3, <2>9, <2>10, <2>11
<1>4. ASSUME NEW q, NEW m, NEW P, NEW r, NEW unit \in {"K", "M", "G", "T"},
             Splits(n, q, m, P, r), q < Kilo, \A b : Multiple(unit, b) = P * Kilo, P = 1 \/ P >= Kilo,
             t = Number(q, ((m * 10) \div Kilo) * Kept, unit, "iB")
      PROVE  /\ ~z.rest
             /\ z.ok => /\ z.bytes \in Nat /\ z.bytes <= n
                        /\ (n - z.bytes) * 10 * Kilo < Multiple(t.unit, bsize) * (Kilo + 10)
             /\ z.ok
             /\ \/ z.bytes = n
                \/ \E Q \in Nat \ {0} : /\ Q * Kilo <= z.bytes /\ (Q = 1 \/ Q >= Kilo)
                                        /\ Q = 1 /\ n % Kilo = 0 => z.bytes = n
  BY <1>3, <1>4
<1> HIDE DEF z
<1> QED BY <1>1, <1>2, <1>4, ShownSplits DEF z

\* What pm_fmt_exact shows of whole mebibytes is read as the same number.
LEMMA ExactRead ==
  ASSUME NEW n \in Nat, n <= MaxNum, n % MiB = 0, NEW bsize \in Nat \ {0}
  PROVE  ParseSize(FmtExact(n), bsize) = [ok |-> TRUE, rest |-> FALSE, bytes |-> n]
<1>0. Kilo \in Nat /\ Kilo >= 2 /\ MaxNum \in Nat /\ MaxNum >= 20
  BY UnitsAssumption, KiloSmall
<1>1. MiB \in Nat /\ MiB >= 4
  BY <1>0 DEF MiB
<1>2. GiB \in Nat /\ GiB >= 4
  <2>1. GiB = MiB * Kilo
    BY DEF GiB, MiB
  <2>2. MiB * Kilo >= MiB
    BY <1>0, <1>1
  <2> QED BY <1>0, <1>1, <2>1, <2>2
<1>3. ASSUME NEW M \in Nat, M >= 4, NEW unit \in {"M", "G"}, Multiple(unit, bsize) = M, n % M = 0
      PROVE  ParseSize(Number(n \div M, 0, unit, "iB"), bsize) = [ok |-> TRUE, rest |-> FALSE, bytes |-> n]
  <2> DEFINE t == Number(n \div M, 0, unit, "iB")
  <2>1. t.form = "number" /\ t.whole = n \div M /\ t.frac = 0 /\ t.unit = unit /\ Known(t, bsize)
    BY DEF Number, Known
  <2>2. FractionBytes(t, M) = 0
    <3>1. t.frac \div 10 = 0 /\ 0 * M = 0 /\ 0 \div Kept = 0
      BY <1>3, <2>1, UnitsAssumption
    <3> QED BY <3>1 DEF FractionBytes, KeptOf
  <2>3. PICK w \in Nat : w = n \div M /\ n = w * M
    <3>1. n \div M \in Nat /\ n = (n \div M) * M + (n % M) /\ (n \div M) * M \in Nat
      BY <1>3, DivBounds
    <3> QED BY <1>3, <3>1
  <2>4. w * 4 <= n
    <3>1. w * 4 <= w * M
      BY <1>3, <2>3
    <3> QED BY <2>3, <3>1
  <2>5. w + 9 <= MaxNum
    BY <1>0, <2>4
  <2> HIDE DEF t
  <2>6. t.whole * M + FractionBytes(t, M) = n
    <3>1. t.whole * M = n
      BY <2>1, <2>3
    <3> QED BY <2>2, <3>1
  <2>7. t.whole \in Nat /\ t.whole + 9 <= MaxNum
    BY <2>1, <2>3, <2>5
  <2>8. M \in Nat \ {0} /\ M = Multiple(t.unit, bsize) /\ t.whole * M + FractionBytes(t, M) <= n
        /\ FractionBytes(t, M) \in Nat
    BY <1>3, <2>1, <2>2, <2>6
  <2>9. ParseSize(t, bsize) = [ok |-> TRUE, rest |-> FALSE, bytes |-> t.whole * M + FractionBytes(t, M)]
    BY <2>1, <2>7, <2>8, Taking
  <2> QED BY <2>6, <2>9 DEF t
<1>4. Multiple("M", bsize) = MiB /\ Multiple("G", bsize) = GiB
  BY DEF Multiple, MiB, GiB
<1>5. CASE n # 0 /\ n % GiB = 0
  BY <1>2, <1>3, <1>4, <1>5 DEF FmtExact
<1>6. CASE ~(n # 0 /\ n % GiB = 0)
  BY <1>1, <1>3, <1>4, <1>6 DEF FmtExact
<1> QED BY <1>5, <1>6

LEMMA BlockType == BlockSize \in Nat \ {0} /\ BlockSize * Align = MiB /\ MiB \in Nat \ {0}
<1>1. BlockSize * Align = MiB /\ Align \in Nat \ {0}
  BY BlockAssumption, GeometryAssumption
<1>2. MiB \in Nat \ {0}
  BY UnitsAssumption DEF MiB
<1>3. BlockSize = MiB \div Align
  BY DEF BlockSize
<1> HIDE DEF BlockSize
<1>4. BlockSize \in Nat
  BY <1>1, <1>2, <1>3, DivBounds
<1> QED BY <1>1, <1>2, <1>4

LEMMA TypedNumbers == TypedExactly
<1>1. ASSUME NEW t \in Numbers
      PROVE  LET z == ParseSize(t, BlockSize)
             IN  IF z.ok THEN z.bytes = ExactBytes(t)
                 ELSE ExactBytes(t) > MaxNum \/ t.whole + 9 > MaxNum
  <2>1. IsNumber(t) /\ Known(t, BlockSize)
    BY TextsAssumption DEF Numbers, IsText
  <2>2. ExactBytes(t) = Says(t, BlockSize)
    BY DEF ExactBytes, Says
  <2> QED BY <2>1, <2>2, BlockType, ParsedExactly, RefusedTooLarge
<1> QED BY <1>1 DEF TypedExactly

LEMMA ShownSizes == ShownTypable
<1>1. ASSUME NEW n \in 0..MaxNum
      PROVE  LET shown == ParseSize(FmtSize(n), BlockSize)
             IN  /\ shown.ok => shown.bytes <= n
                 /\ n % MiB = 0 /\ n + 9 <= MaxNum => ParseSize(FmtExact(n), BlockSize).bytes = n
  <2>1. n \in Nat /\ n <= MaxNum /\ BlockSize \in Nat \ {0}
    BY BlockType, UnitsAssumption
  <2>2. ParseSize(FmtSize(n), BlockSize).ok => ParseSize(FmtSize(n), BlockSize).bytes <= n
    BY <2>1, ShownRead
  <2>3. n % MiB = 0 => ParseSize(FmtExact(n), BlockSize).bytes = n
    <3>1. n % MiB = 0 => ParseSize(FmtExact(n), BlockSize) = [ok |-> TRUE, rest |-> FALSE, bytes |-> n]
      BY <2>1, ExactRead
    <3> QED BY <3>1
  <2> QED BY <2>2, <2>3
<1> QED BY <1>1 DEF ShownTypable

-----------------------------------------------------------------------------
(* The table on the screen.                                                *)

LEMMA PartPlace ==
  ASSUME TypeOK, Layout, OnDisk, NEW p \in parts
  PROVE  p.start \in Nat /\ p.size \in Nat \ {0} /\ p.start + p.size <= NBlocks
<1>1. p \in Part /\ p.start \in Nat /\ p.size \in Nat \ {0} /\ Last(p) = p.start + p.size - 1
  BY DEF TypeOK, Part, Last
<1>2. LastMbr < NBlocks /\ LastMbr \in Nat /\ NBlocks \in Nat
  BY LastMbrType, GeometryAssumption DEF LastMbr
<1>3. ASSUME NEW q \in NonLogical(parts) PROVE Last(q) < NBlocks
  <2>1. q \in parts /\ Last(q) \in Int /\ last \in Nat
    BY DEF NonLogical, TypeOK, Part, Last
  <2>2. IF kind = "gpt" THEN Last(q) <= last ELSE Last(q) <= LastMbr
    BY DEF Layout, LayoutOf, TopLayout
  <2> QED BY <1>2, <2>1, <2>2 DEF OnDisk
<1>4. CASE p.role # "logical"
  <2>1. p \in NonLogical(parts)
    BY <1>4 DEF NonLogical
  <2> QED BY <1>1, <1>2, <1>3, <2>1
<1>5. CASE p.role = "logical"
  <2>1. p \in Logicals(parts)
    BY <1>5 DEF Logicals
  <2>2. PICK e \in Extended(parts) : Last(p) <= Last(e)
    BY <2>1 DEF Layout, LayoutOf, LogicalLayout
  <2>3. e \in NonLogical(parts) /\ Last(e) \in Int
    BY DEF Extended, NonLogical, TypeOK, Part, Last
  <2> QED BY <1>1, <1>2, <1>3, <2>2, <2>3
<1> QED BY <1>4, <1>5

\* No number of bytes on the disk is too large.
LEMMA BytesFit ==
  ASSUME NEW x \in Nat, x <= NBlocks
  PROVE  x * BlockSize \in Nat /\ x * BlockSize <= MaxNum
<1>1. PICK b \in Nat \ {0} : b = BlockSize
  BY BlockType
<1>2. NBlocks * b <= MaxNum /\ NBlocks \in Nat /\ MaxNum \in Nat
  BY <1>1, BlockAssumption, GeometryAssumption, UnitsAssumption
<1>3. x * b <= NBlocks * b /\ x * b \in Nat /\ NBlocks * b \in Nat
  BY <1>2
<1> QED BY <1>1, <1>2, <1>3

LEMMA RowSizes ==
  ASSUME TypeOK, Layout, OnDisk, NEW n \in InRows
  PROVE  n \in Nat /\ n <= MaxNum
<1>1. PICK x : /\ n = x * BlockSize
               /\ \/ \E p \in parts : x \in {p.start, p.size}
                  \/ \E a \in FreeSpace : x \in {a.start, a.last - a.start + 1}
  BY DEF InRows
<1>2. x \in Nat /\ x <= NBlocks
  <2>1. ASSUME NEW p \in parts, x \in {p.start, p.size} PROVE x \in Nat /\ x <= NBlocks
    <3>1. PICK s \in Nat, z \in Nat : s = p.start /\ z = p.size /\ s + z <= NBlocks
      BY PartPlace
    <3> QED BY <2>1, <3>1, GeometryAssumption
  <2>2. ASSUME NEW a \in FreeSpace, x \in {a.start, a.last - a.start + 1} PROVE x \in Nat /\ x <= NBlocks
    <3>1. PICK s \in Nat, l \in Nat : s = a.start /\ l = a.last /\ s <= l /\ l < NBlocks
      BY AreaPlace
    <3> QED BY <2>2, <3>1, GeometryAssumption
  <2> QED BY <1>1, <2>1, <2>2
<1> QED BY <1>1, <1>2, BytesFit

LEMMA RowsExact == TypeOK /\ Layout /\ OnDisk => SizesExact
<1> SUFFICES ASSUME TypeOK, Layout, OnDisk PROVE SizesExact
  OBVIOUS
<1>1. ASSUME NEW n \in InRows, ParseSize(FmtSize(n), BlockSize).ok
      PROVE  (n - ParseSize(FmtSize(n), BlockSize).bytes) * 10 * Kilo
               < Multiple(FmtSize(n).unit, BlockSize) * (Kilo + 10)
  <2>1. n \in Nat /\ n <= MaxNum
    BY RowSizes
  <2> QED BY <1>1, <2>1, BlockType, ShownRead
<1> QED BY <1>1, TypedNumbers, ShownSizes DEF SizesExact

-----------------------------------------------------------------------------
(* The dialog.                                                             *)

\* The usable area of a GPT is not one with block 0.
AfterFirst == kind = "gpt" => 1 <= first

LEMMA FirstStartPlace ==
  ASSUME TypeOK, Layout, OnDisk, AfterFirst, NEW a \in FreeSpace, NEW role \in RolesOffered(a)
  PROVE  /\ FirstStart(a, role) \in Nat /\ 1 <= FirstStart(a, role) /\ a.start <= FirstStart(a, role)
         /\ role = "logical" /\ ~a.logical => a.start < FirstStart(a, role)
         /\ \E b \in Nat : FirstStart(a, role) = b * Align
<1>1. PICK s \in Nat, b \in Nat : s = a.start /\ s = b * Align /\ 1 <= s
  <2>1. (IF kind = "gpt" THEN first ELSE 1) <= a.start /\ a.start \in Nat
    BY AreaPlace
  <2>2. 1 <= a.start
    BY <2>1 DEF AfterFirst, TypeOK
  <2> QED BY <2>1, <2>2, AreaPlace
<1>2. Align \in Nat \ {0}
  BY GeometryAssumption
<1>3. CASE role = "logical" /\ ~a.logical
  <2>1. FirstStart(a, role) = s + Align
    BY <1>1, <1>3 DEF FirstStart
  <2>2. s + Align = (b + 1) * Align
    BY <1>1, <1>2
  <2>3. PICK f \in Nat : f = s + Align /\ s < f
    BY <1>1, <1>2
  <2>4. b + 1 \in Nat /\ f = (b + 1) * Align
    BY <2>2, <2>3
  <2>5. \E c \in Nat : f = c * Align
    BY <2>4
  <2> QED BY <1>1, <2>1, <2>3, <2>5
<1>4. CASE ~(role = "logical" /\ ~a.logical)
  <2>1. FirstStart(a, role) = s + 0
    BY <1>1, <1>4 DEF FirstStart
  <2> QED BY <1>1, <1>4, <2>1
<1> QED BY <1>3, <1>4

\* A number of bytes rounded up to blocks, as long as it is no number at the
\* very end, which wraps around to 0.
LEMMA UpToBlock ==
  ASSUME NEW n \in Nat, n <= MaxNum
  PROVE  LET c == ((n + BlockSize - 1) % (MaxNum + 1)) \div BlockSize
         IN  /\ c \in Nat
             /\ c # 0 => n <= c * BlockSize /\ c * BlockSize < n + BlockSize
             /\ n + BlockSize - 1 <= MaxNum => n <= c * BlockSize /\ c * BlockSize < n + BlockSize
<1>1. PICK b \in Nat \ {0}, M \in Nat : b = BlockSize /\ M = MaxNum
  BY BlockType, UnitsAssumption
<1>2. b <= M
  <2>1. 1 * BlockSize <= MaxNum
    BY BytesFit, GeometryAssumption
  <2> QED BY <1>1, <2>1
<1>3. PICK x \in Nat : x = (n + b - 1) % (M + 1)
  <2>1. n + b - 1 \in Nat /\ M + 1 \in Nat \ {0}
    BY <1>1
  <2> QED BY <2>1, DivBounds
<1>4. n + b - 1 <= M => x = n + b - 1
  <2>1. n + b - 1 \in Nat
    BY <1>1
  <2> QED BY <1>1, <1>3, <2>1, SmallMod
<1>5. n + b - 1 > M => x < b
  <2>1. ASSUME n + b - 1 > M PROVE x = n + b - 1 - (M + 1)
    <3>1. PICK y \in Nat : y = n + b - 1 - (M + 1)
      BY <1>1, <2>1
    <3>2. y <= M /\ n + b - 1 = y + (M + 1)
      BY <1>1, <1>2, <3>1
    <3>3. (y + (M + 1)) % (M + 1) = y
      BY <3>2
    <3> QED BY <1>3, <3>1, <3>2, <3>3
  <2> QED BY <1>1, <2>1
<1>6. PICK c \in Nat, e \in 0..(b - 1) : c = x \div b /\ x = c * b + e
  <2>1. x \div b \in Nat /\ x % b \in 0..(b - 1) /\ x = (x \div b) * b + (x % b)
    BY DivBounds
  <2> QED BY <2>1
<1>7. x < b => c = 0
  <2>1. c >= 1 => c * b >= b
    BY <1>1, <1>6
  <2> QED BY <1>1, <1>3, <1>6, <2>1
<1>8. PICK z \in Nat : z = c * b
  BY <1>1, <1>6
<1>9. x = n + b - 1 => n <= z /\ z < n + b
  BY <1>1, <1>6, <1>8
<1>10. c # 0 => x = n + b - 1
  BY <1>1, <1>4, <1>5, <1>7
<1> QED BY <1>1, <1>3, <1>4, <1>6, <1>8, <1>9, <1>10

LEMMA RoundUpNext ==
  ASSUME NEW v \in Nat
  PROVE  RoundUp(v) \in Nat /\ v <= RoundUp(v) /\ RoundUp(v) < v + Align
<1>1. PICK A \in Nat \ {0} : A = Align
  BY GeometryAssumption
<1>2. PICK w \in Nat : w = v + A - 1
  <2>1. v + A - 1 \in Nat
    OBVIOUS
  <2> QED BY <2>1
<1>3. w \div A \in Nat /\ w % A \in 0..(A - 1) /\ w = (w \div A) * A + (w % A)
  BY DivBounds
<1>4. PICK x \in Nat : x = (w \div A) * A
  BY <1>3
<1>5. RoundUp(v) = x
  BY <1>1, <1>2, <1>4 DEF RoundUp
<1> QED BY <1>1, <1>2, <1>3, <1>4, <1>5

LEMMA TypedForm ==
  ASSUME NEW t, IsText(t), ParseSize(t, BlockSize).ok, ~ParseSize(t, BlockSize).rest
  PROVE  IsNumber(t) /\ ParseSize(t, BlockSize).bytes = ExactBytes(t) /\ ExactBytes(t) \in Nat
         /\ ExactBytes(t) <= MaxNum
<1>1. IsNumber(t)
  BY DEF IsText, ParseSize, Refused
<1>2. ExactBytes(t) = Says(t, BlockSize)
  BY DEF ExactBytes, Says
<1>3. Says(t, BlockSize) \in Nat
  <2>1. FractionBytes(t, Multiple(t.unit, BlockSize)) \in Nat
        /\ t.whole * Multiple(t.unit, BlockSize) + FractionBytes(t, Multiple(t.unit, BlockSize)) = Says(t, BlockSize)
    BY <1>1, BlockType, PartsAddUp
  <2>2. Multiple(t.unit, BlockSize) \in Nat /\ t.whole \in Nat
    BY <1>1, BlockType, MultipleType DEF IsNumber
  <2>3. t.whole * Multiple(t.unit, BlockSize) \in Nat
    BY <2>2
  <2> QED BY <2>1, <2>3
<1> QED BY <1>1, <1>2, <1>3, BlockType, ParsedExactly

\* Where a partition starts for a position that the dialog accepts.
LEMMA StartRead ==
  ASSUME TypeOK, Layout, OnDisk, AfterFirst, NEW a \in FreeSpace, NEW role \in RolesOffered(a),
         NEW t, IsText(t), StartAccepted(a, role, t)
  PROVE  LET s  == StartBlock(t)
             at == ExactBytes(t)
         IN  /\ s \in Nat /\ FirstStart(a, role) <= s /\ s <= a.last
             /\ s % Align = 0
             /\ at <= s * BlockSize /\ s * BlockSize < at + MiB
<1>1. ParseSize(t, BlockSize).ok /\ ~ParseSize(t, BlockSize).rest
      /\ FirstStart(a, role) <= StartBlock(t) /\ StartBlock(t) <= a.last
  BY DEF StartAccepted
<1>2. PICK at \in Nat : at = ExactBytes(t) /\ at = ParseSize(t, BlockSize).bytes /\ at <= MaxNum
  BY <1>1, TypedForm
<1>3. PICK c : c = ((at + BlockSize - 1) % (MaxNum + 1)) \div BlockSize
  OBVIOUS
<1>4. c \in Nat /\ (c # 0 => at <= c * BlockSize /\ c * BlockSize < at + BlockSize)
  BY <1>2, <1>3, UpToBlock
<1>5. StartBlock(t) = RoundUp(c)
  BY <1>2, <1>3 DEF StartBlock
<1>6. PICK k \in Nat : RoundUp(c) = k * Align
  <2>1. (c + Align - 1) \div Align \in Nat
    BY <1>4, GeometryAssumption
  <2> QED BY <2>1 DEF RoundUp
<1>7. PICK s \in Nat : s = RoundUp(c) /\ c <= s /\ s < c + Align
  BY <1>4, RoundUpNext
<1>8. s % Align = 0
  <2>1. (k * Align) % Align = 0
    BY <1>6, GeometryAssumption
  <2> QED BY <1>6, <1>7, <2>1
<1>9. c # 0
  <2>1. 1 <= FirstStart(a, role) /\ FirstStart(a, role) \in Nat
    BY FirstStartPlace
  <2>2. s >= 1
    BY <1>1, <1>5, <1>7, <2>1
  <2>3. RoundUp(0) = 0
    <3>1. (0 + Align - 1) \div Align = 0
      BY GeometryAssumption
    <3>2. 0 * Align = 0
      BY GeometryAssumption
    <3> QED BY <3>1, <3>2 DEF RoundUp
  <2> QED BY <1>7, <2>2, <2>3
<1>10. at <= s * BlockSize /\ s * BlockSize < at + MiB
  <2>1. PICK b \in Nat \ {0}, A \in Nat \ {0}, M \in Nat : b = BlockSize /\ A = Align /\ M = MiB /\ b * A = M
    BY BlockType, GeometryAssumption
  <2>2. PICK d \in 0..(A - 1) : s = c + d
    <3>1. s - c \in 0..(A - 1) /\ s = c + (s - c)
      BY <1>4, <1>7, <2>1
    <3> QED BY <3>1
  <2>3. s * b = c * b + d * b
    BY <1>4, <2>1, <2>2
  <2>4. d * b \in Nat /\ d * b <= M - b
    <3>1. d \in Nat /\ d + 1 <= A
      BY <2>1
    <3>2. (d + 1) * b <= A * b /\ (d + 1) * b = d * b + b /\ A * b = M /\ d * b \in Nat
      BY <2>1, <3>1
    <3> QED BY <2>1, <3>2
  <2>5. PICK x \in Nat, y \in Nat : x = c * b /\ y = d * b
    BY <1>4, <2>1, <2>4
  <2>6. at <= x /\ x < at + b
    BY <1>4, <1>9, <2>1, <2>5
  <2>7. s * b = x + y /\ y <= M - b
    BY <2>3, <2>4, <2>5
  <2>8. at <= s * b /\ s * b < at + M
    BY <2>1, <2>6, <2>7
  <2> QED BY <2>1, <2>8
<1> QED BY <1>1, <1>2, <1>5, <1>7, <1>8, <1>10

\* What the dialog accepts lies in the free area.
LEMMA TypedPlace ==
  ASSUME TypeOK, Layout, OnDisk, AfterFirst, NEW a \in FreeSpace, NEW role \in RolesOffered(a),
         NEW t, IsText(t), NEW z, IsText(z), Typed(a, role, t, z).ok
  PROVE  LET r == Typed(a, role, t, z)
         IN  /\ StartAccepted(a, role, t) /\ SizeAccepted(a, r.start, z)
             /\ r.start = StartBlock(t) /\ r.size = SizeBlocks(a, r.start, z)
             /\ r.start \in Nat /\ r.size \in Nat /\ FirstStart(a, role) <= r.start
             /\ \E to \in Nat : to - r.start + 1 = r.size /\ r.start <= to /\ to <= a.last
<1> DEFINE r == Typed(a, role, t, z)
<1>1. StartAccepted(a, role, t) /\ SizeAccepted(a, StartBlock(t), z)
      /\ r = [ok |-> TRUE, start |-> StartBlock(t), size |-> SizeBlocks(a, StartBlock(t), z)]
  BY DEF Typed, NoRequest
<1>2. r.start = StartBlock(t) /\ r.size = SizeBlocks(a, r.start, z) /\ SizeAccepted(a, r.start, z)
  BY <1>1
<1> HIDE DEF r
<1>3. PICK s \in Nat, l \in Nat : s = r.start /\ l = a.last /\ FirstStart(a, role) <= s /\ s <= l
  <2>1. StartBlock(t) \in Nat /\ FirstStart(a, role) <= StartBlock(t) /\ StartBlock(t) <= a.last
    BY <1>1, StartRead
  <2> QED BY <1>2, <2>1, AreaPlace
<1>4. r.size \in 1..(l - s + 1)
  BY <1>2, <1>3 DEF SizeAccepted
<1>5. PICK n \in Nat : n = r.size /\ 1 <= n /\ n <= l - s + 1
  BY <1>3, <1>4
<1>6. PICK to \in Nat : to = s + n - 1
  <2>1. s + n - 1 \in Nat
    BY <1>5
  <2> QED BY <2>1
<1>7. to - s + 1 = n /\ s <= to /\ to <= l
  BY <1>5, <1>6
<1> QED BY <1>1, <1>2, <1>3, <1>5, <1>7 DEF r

LEMMA RolesFit ==
  ASSUME TypeOK, Layout, OnDisk, NEW a \in FreeSpace, NEW role \in RolesOffered(a)
  PROVE  \/ kind = "gpt" /\ role = "primary"
         \/ kind = "mbr" /\ a.logical /\ role = "logical" /\ Extended(parts) # {}
         \/ kind = "mbr" /\ ~a.logical /\ role = "primary"
         \/ kind = "mbr" /\ ~a.logical /\ role = "logical" /\ Extended(parts) = {}
<1>1. kind \in {"mbr", "gpt"}
  BY DEF FreeSpace, TypeOK
<1>2. a.logical => Extended(parts) # {}
  BY AreaPlace DEF FirstExtended
<1> QED BY <1>1, <1>2 DEF RolesOffered

LEMMA TypedTaken ==
  ASSUME TypeOK, Layout, OnDisk, AfterFirst, NEW a \in FreeSpace, NEW role \in RolesOffered(a),
         NEW t, IsText(t), NEW z, IsText(z), Typed(a, role, t, z).ok,
         NEW y, y \in Nat, Typable(y), y \notin RefusedTypes
  PROVE  Taken(Typed(a, role, t, z), role, y)
<1>1. PICK r : r = Typed(a, role, t, z)
  OBVIOUS
<1>2. PICK from \in Nat, to \in Nat :
        from = r.start /\ to - from + 1 = r.size /\ from <= to /\ to <= a.last /\ FirstStart(a, role) <= from
  BY <1>1, TypedPlace
<1>3. PICK f \in Nat : /\ f = FirstStart(a, role) /\ a.start <= f
                       /\ role = "logical" /\ ~a.logical => a.start < f
  BY FirstStartPlace
<1>4. a.start \in Nat
  BY AreaPlace
<1>5. Within(a, from, to) /\ (role = "logical" /\ ~a.logical => a.start < from)
  BY <1>2, <1>3, <1>4 DEF Within
<1>6. y # 0 /\ (kind = "mbr" => y \notin ExtTypes)
  BY RolesFit DEF RefusedTypes, Typable
<1>7. PICK p : p = Request(from, to - from + 1, y) /\ p = Request(r.start, r.size, y)
  BY <1>2
<1>8. IF kind = "gpt" THEN FitsGpt(p)
      ELSE IF a.logical
        THEN \E e \in FirstExtended(parts) : \E g \in LogicalGaps(e) : FitsInside(p, e, g)
      ELSE /\ FitsPrimary(p)
           /\ a.start < from => \E g \in TopGaps : FitsNew(p, g)
  BY <1>5, <1>6, <1>7, AreaTakes
<1>9. Taken(r, role, y)
  BY <1>5, <1>7, <1>8, RolesFit DEF Taken
<1> QED BY <1>1, <1>9

\* What pt_add takes is none of the types it refuses.
LEMMA TakenType ==
  ASSUME NEW r, NEW role, NEW y, kind \in {"mbr", "gpt"}, Taken(r, role, y)
  PROVE  y \notin RefusedTypes
<1>1. Request(r.start, r.size, y).type = y
  BY DEF Request
<1>2. CASE kind = "gpt"
  BY <1>1, <1>2 DEF Taken, FitsGpt, Acceptable, RefusedTypes
<1>3. CASE kind = "mbr"
  <2>1. AcceptableMbr(Request(r.start, r.size, y))
    BY <1>3 DEF Taken, FitsPrimary, FitsInside, FitsNew
  <2> QED BY <1>1, <1>3, <2>1 DEF AcceptableMbr, RefusedTypes
<1> QED BY <1>2, <1>3

LEMMA TypedSize ==
  ASSUME NEW a, NEW s, NEW z, IsNumber(z), ParseSize(z, BlockSize).ok
  PROVE  LET n == SizeBlocks(a, s, z)
         IN  n * BlockSize <= ExactBytes(z) /\ ExactBytes(z) < (n + 1) * BlockSize
<1>1. ~ParseSize(z, BlockSize).rest
  BY DEF ParseSize, Refused, IsNumber
<1>2. PICK e \in Nat : e = ExactBytes(z) /\ e = ParseSize(z, BlockSize).bytes
  BY <1>1, TypedForm DEF IsText
<1>3. PICK b \in Nat \ {0} : b = BlockSize
  BY BlockType
<1>4. SizeBlocks(a, s, z) = e \div b
  BY <1>1, <1>2, <1>3 DEF SizeBlocks
<1>5. PICK n \in Nat, x \in 0..(b - 1) : n = e \div b /\ e = n * b + x
  <2>1. e \div b \in Nat /\ e % b \in 0..(b - 1) /\ e = (e \div b) * b + (e % b)
    BY DivBounds
  <2> QED BY <2>1
<1>6. n * b \in Nat /\ (n + 1) * b = n * b + b
  OBVIOUS
<1>7. n * b <= e /\ e < (n + 1) * b
  BY <1>5, <1>6
<1> QED BY <1>2, <1>3, <1>4, <1>5, <1>7

LEMMA AgreesLayout == TypeOK /\ Layout /\ OnDisk /\ AfterFirst => DialogAgrees
<1> SUFFICES ASSUME TypeOK, Layout, OnDisk, AfterFirst, NEW a \in FreeSpace, NEW role \in RolesOffered(a),
                    NEW s \in StartTexts, StartAccepted(a, role, s), NEW z \in SizeTexts,
                    Typed(a, role, s, z).ok
             PROVE  LET r  == Typed(a, role, s, z)
                        at == ExactBytes(s)
                    IN  /\ \A y \in {y \in Types : Typable(y)} :
                             Taken(r, role, y) <=> y \notin RefusedTypes
                        /\ at <= r.start * BlockSize /\ r.start * BlockSize < at + MiB
                        /\ r.start % Align = 0
                        /\ z.form = "number" =>
                             /\ r.size * BlockSize <= ExactBytes(z)
                             /\ ExactBytes(z) < (r.size + 1) * BlockSize
  BY DEF DialogAgrees
<1>1. IsText(s) /\ IsText(z)
  BY TextsAssumption
<1>2. PICK r : r = Typed(a, role, s, z) /\ r.ok
  OBVIOUS
<1>3. SizeAccepted(a, r.start, z) /\ r.start = StartBlock(s) /\ r.size = SizeBlocks(a, r.start, z)
  BY <1>1, <1>2, TypedPlace
<1>4. ExactBytes(s) <= r.start * BlockSize /\ r.start * BlockSize < ExactBytes(s) + MiB /\ r.start % Align = 0
  BY <1>1, <1>3, StartRead
<1>5. ASSUME NEW y \in Types, Typable(y) PROVE Taken(r, role, y) <=> y \notin RefusedTypes
  <2>1. y \in Nat /\ kind \in {"mbr", "gpt"}
    BY InputAssumption, RolesFit
  <2>2. y \notin RefusedTypes => Taken(r, role, y)
    BY <1>1, <1>2, <1>5, <2>1, TypedTaken
  <2>3. Taken(r, role, y) => y \notin RefusedTypes
    BY <2>1, TakenType
  <2> QED BY <2>2, <2>3
<1>6. ASSUME z.form = "number"
      PROVE  r.size * BlockSize <= ExactBytes(z) /\ ExactBytes(z) < (r.size + 1) * BlockSize
  <2>1. IsNumber(z) /\ ParseSize(z, BlockSize).ok
    BY <1>1, <1>3, <1>6 DEF IsText, SizeAccepted
  <2> QED BY <1>3, <2>1, TypedSize
<1> QED BY <1>2, <1>4, <1>5, <1>6

\* The start that the dialog proposes is the one it then reads.
LEMMA ProposedStartRead ==
  ASSUME NEW f \in Nat, NEW b \in Nat, f = b * Align, f < NBlocks
  PROVE  LET t == FmtExact(f * BlockSize)
         IN  ParseSize(t, BlockSize).ok /\ ~ParseSize(t, BlockSize).rest /\ StartBlock(t) = f
<1>1. PICK B \in Nat \ {0}, A \in Nat \ {0}, M \in Nat, N \in Nat :
        B = BlockSize /\ A = Align /\ M = MaxNum /\ N = NBlocks /\ B * A = MiB /\ N * B <= M
  BY BlockType, BlockAssumption, GeometryAssumption, UnitsAssumption
<1>2. PICK n \in Nat : n = f * B
  BY <1>1
<1>3. n + B <= M
  <2>1. (f + 1) * B <= N * B
    BY <1>1
  <2>2. (f + 1) * B = n + B
    BY <1>1, <1>2
  <2>3. N * B \in Nat
    BY <1>1
  <2> QED BY <1>1, <2>1, <2>2, <2>3
<1>4. n % MiB = 0
  <2>1. n = b * MiB
    BY <1>1, <1>2
  <2>2. (b * MiB) % MiB = 0
    BY BlockType
  <2> QED BY <2>1, <2>2
<1>5. ParseSize(FmtExact(n), BlockSize) = [ok |-> TRUE, rest |-> FALSE, bytes |-> n]
  <2>1. n <= MaxNum
    BY <1>1, <1>3
  <2> QED BY <1>4, <2>1, BlockType, ExactRead
<1>6. PICK c \in Nat : /\ c = ((n + BlockSize - 1) % (MaxNum + 1)) \div BlockSize
                       /\ n <= c * B /\ c * B < n + B
  <2>1. n <= MaxNum /\ n + BlockSize - 1 <= MaxNum
    BY <1>1, <1>3
  <2> QED BY <1>1, <2>1, UpToBlock
<1>7. c = f
  <2>1. c + 1 <= f => (c + 1) * B <= f * B /\ (c + 1) * B = c * B + B
    BY <1>1
  <2>2. f + 1 <= c => (f + 1) * B <= c * B /\ (f + 1) * B = f * B + B
    BY <1>1
  <2>3. PICK x \in Nat : x = c * B
    BY <1>1
  <2> QED BY <1>1, <1>2, <1>6, <2>1, <2>2, <2>3
<1>8. RoundUp(f) = f
  <2>1. PICK e \in 0..(A - 1) : e = A - 1
    OBVIOUS
  <2>2. (b * A + e) \div A = b
    BY DivWhole
  <2>4. f + A - 1 = b * A + e
    BY <1>1, <2>1
  <2> QED BY <1>1, <2>2, <2>4 DEF RoundUp
<1>9. StartBlock(FmtExact(n)) = f
  BY <1>5, <1>6, <1>7, <1>8 DEF StartBlock
<1> QED BY <1>1, <1>2, <1>5, <1>9

\* The size shown of so many blocks, below a pebibyte, is one block at least.
LEMMA ShownBlocks ==
  ASSUME NEW n \in Nat, 1 <= n, n <= NBlocks, NBlocks * BlockSize < Pebi
  PROVE  LET z == ParseSize(FmtSize(n * BlockSize), BlockSize)
         IN  z.ok /\ ~z.rest /\ z.bytes \div BlockSize \in 1..n
<1>1. PICK B \in Nat \ {0}, A \in Nat \ {0}, K \in Nat \ {0}, N \in Nat :
        B = BlockSize /\ A = Align /\ K = Kilo /\ N = NBlocks /\ B * A = K * K
        /\ (B % K = 0 \/ K % B = 0)
  BY BlockType, BlockAssumption, GeometryAssumption, UnitsAssumption DEF MiB
<1>2. PICK x \in Nat : x = n * B /\ x <= MaxNum
  BY <1>1, BytesFit
<1>3. x < Pebi /\ B <= x
  <2>1. n * B <= N * B /\ n * B \in Nat /\ N * B \in Nat /\ 1 * B <= n * B
    BY <1>1
  <2>2. Pebi \in Nat
    <3>1. K * K * K \in Nat
      BY <1>1
    <3>2. K * K * K * K * K \in Nat
      BY <1>1, <3>1
    <3> QED BY <1>1, <3>2 DEF Pebi
  <2> QED BY <1>1, <1>2, <2>1, <2>2
<1> DEFINE z == ParseSize(FmtSize(x), BlockSize)
<1>4. ~z.rest /\ z.ok /\ z.bytes \in Nat /\ z.bytes <= x
      /\ \/ z.bytes = x
         \/ \E P \in Nat \ {0} : /\ P * Kilo <= z.bytes /\ (P = 1 \/ P >= Kilo)
                                 /\ P = 1 /\ x % Kilo = 0 => z.bytes = x
  BY <1>2, <1>3, BlockType, ShownRead
<1> HIDE DEF z
<1>5. PICK y \in Nat : y = z.bytes /\ y <= x
  BY <1>4
<1>6. B <= y
  <2>1. CASE y = x
    BY <1>3, <2>1
  <2>2. ASSUME NEW P \in Nat \ {0}, P * K <= y, P >= K PROVE B <= y
    <3>1. P * K >= K * K
      BY <1>1, <2>2
    <3>2. B * A >= B
      BY <1>1
    <3>3. P * K \in Nat /\ K * K \in Nat /\ B * A \in Nat
      BY <1>1
    <3> QED BY <1>1, <1>5, <2>2, <3>1, <3>2, <3>3
  <2>3. ASSUME K <= y, x % K = 0 => y = x PROVE B <= y
    <3>1. CASE K % B = 0
      <4>1. PICK k \in Nat : k = K \div B /\ K = k * B
        BY <3>1, DivExact
      <4>2. k # 0
        BY <1>1, <4>1
      <4>3. k * B >= B
        BY <1>1, <4>2
      <4> QED BY <1>1, <1>5, <2>3, <4>1, <4>3
    <3>2. CASE B % K = 0
      <4>1. PICK k \in Nat : B = k * K
        BY <3>2, DivExact
      <4>2. x = (n * k) * K /\ n * k \in Nat
        BY <1>1, <1>2, <4>1
      <4>3. ((n * k) * K) % K = 0
        BY <1>1, <4>2
      <4> QED BY <1>3, <2>3, <4>2, <4>3
    <3> QED BY <1>1, <3>1, <3>2
  <2>4. \/ y = x
        \/ \E P \in Nat \ {0} : P * K <= y /\ (P = 1 \/ P >= K) /\ (P = 1 /\ x % K = 0 => y = x)
    BY <1>1, <1>4, <1>5
  <2>5. ASSUME NEW P \in Nat \ {0}, P * K <= y, P = 1, P = 1 /\ x % K = 0 => y = x PROVE B <= y
    <3>1. 1 * K = K
      BY <1>1
    <3> QED BY <2>3, <2>5, <3>1
  <2> QED BY <2>1, <2>2, <2>4, <2>5
<1>7. y \div B \in 1..n
  <2>1. PICK q \in Nat, r \in 0..(B - 1) : q = y \div B /\ y = q * B + r
    <3>1. y \div B \in Nat /\ y % B \in 0..(B - 1) /\ y = (y \div B) * B + (y % B)
      BY <1>1, DivBounds
    <3> QED BY <3>1
  <2>2. q # 0
    <3>1. 0 * B = 0
      BY <1>1
    <3> QED BY <1>1, <1>6, <2>1, <3>1
  <2>3. ASSUME n + 1 <= q PROVE FALSE
    <3>1. (n + 1) * B <= q * B /\ (n + 1) * B = n * B + B
      BY <1>1, <2>1, <2>3
    <3>2. PICK w \in Nat : w = q * B
      BY <2>1
    <3> QED BY <1>1, <1>2, <1>5, <2>1, <3>1, <3>2
  <2> QED BY <2>1, <2>2, <2>3
<1> QED BY <1>1, <1>2, <1>4, <1>5, <1>7 DEF z

LEMMA ProposalsLayout ==
  TypeOK /\ Layout /\ OnDisk /\ AfterFirst /\ NBlocks * BlockSize < Pebi => ProposalsWork
<1> SUFFICES ASSUME TypeOK, Layout, OnDisk, AfterFirst, NBlocks * BlockSize < Pebi,
                    NEW a \in FreeSpace, NEW role \in RolesOffered(a),
                    a.last - FirstStart(a, role) + 1 > 0
             PROVE  LET start == FirstStart(a, role)
                        size  == a.last - start + 1
                        text  == ProposedStart(a, role)
                    IN  /\ Typed(a, role, text, Rest) = [ok |-> TRUE, start |-> start, size |-> size]
                        /\ Typed(a, role, text, FmtSize(size * BlockSize)).ok
  BY DEF ProposalsWork
<1>1. PICK f \in Nat, b \in Nat : f = FirstStart(a, role) /\ f = b * Align
  BY FirstStartPlace
<1>2. PICK l \in Nat : l = a.last /\ l < NBlocks
  BY AreaPlace
<1>3. PICK t : t = ProposedStart(a, role) /\ t = FmtExact(f * BlockSize)
  BY <1>1 DEF ProposedStart
<1>4. f <= l /\ f < NBlocks
  BY <1>1, <1>2, GeometryAssumption
<1>5. ParseSize(t, BlockSize).ok /\ ~ParseSize(t, BlockSize).rest /\ StartBlock(t) = f
  BY <1>1, <1>3, <1>4, ProposedStartRead
<1>6. StartAccepted(a, role, t)
  BY <1>1, <1>2, <1>4, <1>5 DEF StartAccepted
<1>7. PICK n \in Nat : n = l - f + 1 /\ 1 <= n /\ n <= NBlocks
  <2>1. l - f + 1 \in Nat /\ 1 <= l - f + 1 /\ l - f + 1 <= NBlocks
    BY <1>2, <1>4, GeometryAssumption
  <2> QED BY <2>1
<1>8. n = a.last - FirstStart(a, role) + 1
  BY <1>1, <1>2, <1>7
<1>9. Typed(a, role, t, Rest) = [ok |-> TRUE, start |-> f, size |-> n]
  <2>1. ParseSize(Rest, BlockSize).ok /\ ParseSize(Rest, BlockSize).rest
    BY DEF ParseSize, Rest
  <2>2. SizeBlocks(a, f, Rest) = n
    BY <1>2, <1>7, <2>1 DEF SizeBlocks
  <2>3. SizeAccepted(a, f, Rest)
    BY <1>2, <1>7, <2>1, <2>2 DEF SizeAccepted
  <2> QED BY <1>5, <1>6, <2>2, <2>3 DEF Typed
<1>10. ASSUME NEW z, z = FmtSize(n * BlockSize) PROVE Typed(a, role, t, z).ok
  <2>1. ParseSize(z, BlockSize).ok /\ ~ParseSize(z, BlockSize).rest
        /\ ParseSize(z, BlockSize).bytes \div BlockSize \in 1..n
    BY <1>7, <1>10, ShownBlocks
  <2>2. SizeAccepted(a, f, z)
    BY <1>2, <1>7, <2>1 DEF SizeAccepted, SizeBlocks
  <2> QED BY <1>5, <1>6, <2>2 DEF Typed
<1> QED BY <1>1, <1>3, <1>8, <1>9, <1>10

LEMMA StaysAfterFirst == AfterFirst /\ [Next]_vars => AfterFirst'
<1> SUFFICES ASSUME AfterFirst, [Next]_vars PROVE AfterFirst'
  OBVIOUS
<1>1. ASSUME NEW k, New(k) PROVE AfterFirst'
  BY <1>1, GeometryAssumption DEF New, AfterFirst
<1>2. ASSUME UNCHANGED <<kind, first>> PROVE AfterFirst'
  BY <1>2 DEF AfterFirst
<1>3. \/ \E k \in {"none", "mbr", "gpt"} : New(k)
      \/ UNCHANGED <<kind, first>>
  BY DEF Next, AddGpt, AddPrimary, AddLogicalInside, AddLogicalNew, Delete, SetType, SetName,
         SetActive, Edit, vars
<1> QED BY <1>1, <1>2, <1>3

\* Sizes on the screen and sizes typed: no number that is typed is taken for
\* another, and what a row shows can be typed and is no more than there is and
\* less by less than a tenth of its unit and one of the next (pm_parse_size,
\* pm_fmt_size and pm_fmt_exact, units.c).
THEOREM SizesTrue ==
  ASSUME \A t \in ReadTables :
           LayoutOf(t.kind, t.parts, t.first, t.last) /\ (t.kind = "gpt" => t.last < NBlocks)
  PROVE  Spec => []SizesExact
<1>1. Init => Layout /\ OnDisk
  BY DEF Init, Load, Layout, OnDisk
<1> QED BY <1>1, NextLayout, StaysOnDisk, InitType, NextType, RowsExact, PTL DEF Spec

\* Of what the New partition dialog accepted pt_add refuses exactly the types 05,
\* 0F and 85 and the GUID 0 typed by hand; what it takes is at the first boundary
\* of a MiB after the position typed and of the size typed (new_partition,
\* diskview.c). A GPT that calls block 0 usable is not one that
\* pt_write would write, but pt_read reads it, and then a position among the
\* last before 2^64 would be taken for block 0.
THEOREM DialogTrue ==
  ASSUME \A t \in ReadTables :
           /\ LayoutOf(t.kind, t.parts, t.first, t.last)
           /\ t.kind = "gpt" => 1 <= t.first /\ t.last < NBlocks
  PROVE  Spec => []DialogAgrees
<1>1. Init => Layout /\ OnDisk /\ AfterFirst
  BY DEF Init, Load, Layout, OnDisk, AfterFirst
<1> QED BY <1>1, NextLayout, StaysOnDisk, StaysAfterFirst, InitType, NextType, AgreesLayout, PTL DEF Spec

\* Enter on everything the dialog proposes takes the whole area, and the size
\* it shows can be typed, on every disk below a pebibyte: from there on sizes
\* are shown in PiB, which pm_parse_size does not know.
THEOREM ProposalsTrue ==
  ASSUME NBlocks * BlockSize < Pebi,
         \A t \in ReadTables :
           /\ LayoutOf(t.kind, t.parts, t.first, t.last)
           /\ t.kind = "gpt" => 1 <= t.first /\ t.last < NBlocks
  PROVE  Spec => []ProposalsWork
<1>1. Init => Layout /\ OnDisk /\ AfterFirst
  BY DEF Init, Load, Layout, OnDisk, AfterFirst
<1>2. TypeOK /\ Layout /\ OnDisk /\ AfterFirst => ProposalsWork
  BY ProposalsLayout
<1> QED BY <1>1, <1>2, NextLayout, StaysOnDisk, StaysAfterFirst, InitType, NextType, PTL DEF Spec

-----------------------------------------------------------------------------
(* The table written and read back.                                        *)

\* The usable area of a GPT lies where pt_write puts it.
GptFitsOf(k, f, l) == k = "gpt" => 2 + ArrBlocks <= f /\ f <= NewLast /\ l <= NewLast
GptFits == GptFitsOf(kind, first, last)

\* The disk has room for the two copies of a GPT and a block between them.
RoomForGpt == NBlocks > 2 * ArrBlocks + 3

\* The usable area is one pt_write makes room for, or that of a GPT that was read
\* and is not.
AreaKnown ==
  GptFits \/ \E t \in ReadTables : Misfit(t) /\ kind = "gpt" /\ first = t.first /\ last = t.last

LEMMA NewFits == ASSUME RoomForGpt, NEW k \in {"none", "mbr", "gpt"}, New(k) PROVE GptFits'
<1>1. LastUsable = NewLast
  BY DEF RoomForGpt, LastUsable, NewLast
<1>2. 2 + ArrBlocks <= NewLast
  BY ImageAssumption DEF RoomForGpt, NewLast
<1>3. k = "gpt" => first' = 2 + ArrBlocks /\ last' = NewLast
  BY <1>1 DEF New
<1>4. NewLast \in Int /\ ArrBlocks \in Nat
  BY ImageAssumption DEF NewLast
<1>5. kind' = k
  BY DEF New
<1> QED BY <1>2, <1>3, <1>4, <1>5 DEF GptFits, GptFitsOf

LEMMA NextGptFits == RoomForGpt /\ GptFits /\ [Next]_vars => GptFits'
<1> SUFFICES ASSUME RoomForGpt, GptFits, [Next]_vars PROVE GptFits'
  OBVIOUS
<1>1. ASSUME NEW k \in {"none", "mbr", "gpt"}, New(k)
      PROVE  GptFits'
  BY <1>1, NewFits
<1>2. CASE UNCHANGED <<kind, first, last>>
  BY <1>2 DEF GptFits, GptFitsOf
<1>3. \/ \E k \in {"none", "mbr", "gpt"} : New(k)
      \/ UNCHANGED <<kind, first, last>>
  BY DEF Next, AddGpt, AddPrimary, AddLogicalInside, AddLogicalNew, Delete, SetType, SetName,
         SetActive, Edit, vars
<1> QED BY <1>1, <1>2, <1>3

\* A table of GPT partitions inside its usable area is one pt_write takes.
LEMMA LayoutWritable == TypeOK /\ Layout /\ GptFits => Writable(Current)
<1> SUFFICES ASSUME TypeOK, Layout, GptFits, kind = "gpt" PROVE FitsDisk(Current)
  BY DEF Writable, Current
<1>1. ASSUME NEW p \in parts PROVE first <= p.start /\ Last(p) <= NewLast
  <2>1. p.role = "primary"
    BY DEF Layout, LayoutOf, TopLayout
  <2>2. p \in NonLogical(parts)
    BY <2>1 DEF NonLogical
  <2>3. first <= p.start /\ Last(p) <= last
    BY <2>2 DEF Layout, LayoutOf, TopLayout
  <2>4. last <= NewLast /\ last \in Nat /\ NewLast \in Int
    BY ImageAssumption DEF GptFits, GptFitsOf, TypeOK, NewLast
  <2>5. Last(p) \in Nat
    BY PartBounds DEF TypeOK
  <2> QED BY <2>3, <2>4, <2>5
<1>2. 2 + ArrBlocks <= first /\ first <= NewLast
  BY DEF GptFits, GptFitsOf
<1> QED BY <1>1, <1>2 DEF FitsDisk, Current

LEMMA NextAreaKnown == RoomForGpt /\ AreaKnown /\ [Next]_vars => AreaKnown'
<1> SUFFICES ASSUME RoomForGpt, AreaKnown, [Next]_vars PROVE AreaKnown'
  OBVIOUS
<1>1. CASE GptFits
  BY <1>1, NextGptFits DEF AreaKnown
<1>2. ASSUME NEW k \in {"none", "mbr", "gpt"}, New(k)
      PROVE  AreaKnown'
  BY <1>2, NewFits DEF AreaKnown
<1>3. CASE UNCHANGED <<kind, first, last>>
  BY <1>3 DEF AreaKnown, GptFits, Misfit
<1>4. \/ \E k \in {"none", "mbr", "gpt"} : New(k)
      \/ UNCHANGED <<kind, first, last>>
  BY DEF Next, AddGpt, AddPrimary, AddLogicalInside, AddLogicalNew, Delete, SetType, SetName,
         SetActive, Edit, vars
<1> QED BY <1>2, <1>3, <1>4

\* On a disk with room for a GPT, and from tables that are laid out, a sequence of
\* edits leads to a table that pt_write refuses (ptwrite.c:188-192) only in a GPT
\* that was read with a usable area the disk has no room for, as on a disk that
\* got shorter: whatever other table was read, and in every new one, all the edits
\* that were accepted can be written.
THEOREM RefusalsKnown ==
  ASSUME RoomForGpt,
         \A t \in ReadTables : LayoutOf(t.kind, t.parts, t.first, t.last)
  PROVE  Spec => []RefusedOnlyMisfit
<1>1. Init => Layout /\ AreaKnown
  BY DEF Init, Load, Layout, AreaKnown, GptFits, GptFitsOf, Misfit
<1>2. TypeOK /\ Layout /\ AreaKnown => RefusedOnlyMisfit
  BY LayoutWritable DEF RefusedOnlyMisfit, AreaKnown
<1> QED BY <1>1, <1>2, NextAreaKnown, NextLayout, InitType, NextType, PTL DEF Spec

-----------------------------------------------------------------------------
(* What is read back.                                                      *)

\* What an MBR can hold of a partition: its entry has no name, its type alone
\* says whether it is extended, and type EE would announce a GPT.
PlainPart(p) ==
  /\ p.name = "unnamed"
  /\ p.role # "logical" =>
       p.type # Protective /\ (p.role = "extended" <=> p.type \in ExtTypes)

PlainOf(k, S) == k = "mbr" => \A p \in S : PlainPart(p)
MbrPlain == PlainOf(kind, parts)

LEMMA RequestPlain ==
  ASSUME Protective \notin Types, NEW p \in Requests, AcceptableMbr(p)
  PROVE  PlainPart(p) /\ p \in Part /\ p.role = "primary" /\ kind = "mbr"
<1>1. p.name = "unnamed" /\ p.type \in Types
  BY DEF Requests
<1>2. p.type \notin ExtTypes /\ Acceptable(p) /\ kind = "mbr"
  BY DEF AcceptableMbr
<1>3. p \in Part /\ p.role = "primary"
  BY <1>2, RequestType
<1> QED BY <1>1, <1>2, <1>3 DEF PlainPart

LEMMA RenumberPlain ==
  ASSUME NEW S \in SUBSET Part, \A p \in S : PlainPart(p)
  PROVE  \A p \in Renumber(S) : PlainPart(p)
<1> DEFINE n(l) == [l EXCEPT !.num = 5 + Cardinality(Before(S, l))]
<1>1. \A l \in Logicals(S) : l \in S /\ n(l).name = l.name /\ n(l).role = "logical"
  BY DEF Logicals, Part
<1>2. Renumber(S) = NonLogical(S) \cup {n(l) : l \in Logicals(S)} /\ NonLogical(S) \subseteq S
  BY DEF Renumber, NonLogical
<1> HIDE DEF n
<1> QED BY <1>1, <1>2 DEF PlainPart

LEMMA EditPlain ==
  ASSUME NEW S, Edit(S), \A p \in S : PlainPart(p)
  PROVE  MbrPlain'
BY DEF Edit, MbrPlain, PlainOf, PlainPart

LEMMA NextPlain == Protective \notin Types /\ TypeOK /\ MbrPlain /\ [Next]_vars => MbrPlain'
<1> SUFFICES ASSUME Protective \notin Types, TypeOK, MbrPlain, [Next]_vars PROVE MbrPlain'
  OBVIOUS
<1>0. parts \in SUBSET Part /\ (kind = "mbr" => \A p \in parts : PlainPart(p))
  BY DEF TypeOK, MbrPlain, PlainOf
<1>1. ASSUME NEW k \in {"none", "mbr", "gpt"}, New(k)
      PROVE  MbrPlain'
  BY <1>1 DEF New, MbrPlain, PlainOf
<1>2. ASSUME kind # "mbr", kind' = kind PROVE MbrPlain'
  BY <1>2 DEF MbrPlain, PlainOf
<1>3. CASE AddPrimary
  <2>1. PICK p \in Requests, n \in 1..4 :
          FitsPrimary(p) /\ Edit(Renumber(parts \cup {[p EXCEPT !.num = n]}))
    BY <1>3 DEF AddPrimary
  <2> DEFINE x == [p EXCEPT !.num = n]
  <2>2. PlainPart(p) /\ p \in Part /\ kind = "mbr"
    BY <2>1, RequestPlain DEF FitsPrimary
  <2>3. x \in Part /\ x.name = p.name /\ x.role = p.role /\ x.type = p.type
    BY <2>2 DEF Part
  <2>4. Edit(Renumber(parts \cup {x}))
    BY <2>1
  <2> HIDE DEF x
  <2>5. PlainPart(x)
    BY <2>2, <2>3 DEF PlainPart
  <2> QED BY <1>0, <2>2, <2>3, <2>4, <2>5, RenumberPlain, EditPlain
<1>4. CASE AddLogicalInside
  <2>1. PICK e \in Extended(parts) : \E g \in LogicalGaps(e), p \in Requests :
          /\ FitsInside(p, e, g)
          /\ Edit(Renumber(parts \cup {[p EXCEPT !.num = 99, !.role = "logical", !.ebr = g[1]]}))
    BY <1>4 DEF AddLogicalInside, FirstExtended
  <2>2. PICK g \in LogicalGaps(e), p \in Requests :
          /\ FitsInside(p, e, g)
          /\ Edit(Renumber(parts \cup {[p EXCEPT !.num = 99, !.role = "logical", !.ebr = g[1]]}))
    BY <2>1
  <2> DEFINE x == [p EXCEPT !.num = 99, !.role = "logical", !.ebr = g[1]]
  <2>3. PlainPart(p) /\ p \in Part /\ kind = "mbr"
    BY <2>2, RequestPlain DEF FitsInside
  <2>4. x \in Part /\ x.name = p.name /\ x.role = "logical"
    BY <2>3, GapType DEF Part, Roles
  <2>5. Edit(Renumber(parts \cup {x}))
    BY <2>2
  <2> HIDE DEF x
  <2>6. PlainPart(x)
    BY <2>3, <2>4 DEF PlainPart
  <2> QED BY <1>0, <2>3, <2>4, <2>5, <2>6, RenumberPlain, EditPlain
<1>5. CASE AddLogicalNew
  <2>1. PICK n \in 1..4, g \in TopGaps, p \in Requests :
          /\ FitsNew(p, g)
          /\ Edit(Renumber(parts \cup
               {NewExtended(g, n), [p EXCEPT !.num = 99, !.role = "logical", !.ebr = RoundUp(g[1])]}))
    BY <1>5 DEF AddLogicalNew
  <2> DEFINE x == NewExtended(g, n)
             l == [p EXCEPT !.num = 99, !.role = "logical", !.ebr = RoundUp(g[1])]
  <2>2. PlainPart(p) /\ p \in Part /\ kind = "mbr"
    BY <2>1, RequestPlain DEF FitsNew
  <2>3. l \in Part /\ l.name = p.name /\ l.role = "logical"
    BY <2>1, <2>2, GapType, RoundUpBounds DEF Part, Roles
  <2>4. x \in Part /\ x.role = "extended" /\ x.type \in ExtTypes
    BY <2>1, NewExtendedType
  <2>5. x.name = "unnamed"
    BY DEF NewExtended
  <2>6. Edit(Renumber(parts \cup {x, l}))
    BY <2>1
  <2> HIDE DEF x, l
  <2>7. PlainPart(l)
    BY <2>2, <2>3 DEF PlainPart
  <2>8. PlainPart(x)
    BY <2>4, <2>5 DEF PlainPart, ExtTypes, Protective
  <2>9. parts \cup {x, l} \in SUBSET Part /\ \A q \in parts \cup {x, l} : PlainPart(q)
    BY <1>0, <2>2, <2>3, <2>4, <2>7, <2>8
  <2> QED BY <2>6, <2>9, RenumberPlain, EditPlain
<1>6. ASSUME NEW p \in parts, Delete(p), kind = "mbr"
      PROVE  MbrPlain'
  <2> DEFINE T == (parts \ {p}) \ (IF p.role = "extended" THEN Logicals(parts) ELSE {})
  <2>1. T \in SUBSET parts /\ Edit(Renumber(T))
    BY <1>6 DEF Delete
  <2> HIDE DEF T
  <2>2. T \in SUBSET Part /\ \A q \in T : PlainPart(q)
    BY <1>0, <1>6, <2>1
  <2> QED BY <2>1, <2>2, RenumberPlain, EditPlain
<1>7. ASSUME NEW p \in parts, NEW y \in Types, SetType(p, y), kind = "mbr"
      PROVE  MbrPlain'
  <2> DEFINE x == [p EXCEPT !.type = y]
  <2>1. PlainPart(p) /\ x.name = p.name /\ x.role = p.role /\ x.type = y
    BY <1>0, <1>7 DEF Part
  <2>2. Edit((parts \ {p}) \cup {x}) /\ (y \in ExtTypes <=> p.role = "extended")
    BY <1>7 DEF SetType
  <2> HIDE DEF x
  <2>3. PlainPart(x)
    BY <2>1, <2>2 DEF PlainPart
  <2> QED BY <1>0, <1>7, <2>2, <2>3, EditPlain
<1>8. ASSUME NEW p \in parts, NEW on \in BOOLEAN, SetActive(p, on), kind = "mbr"
      PROVE  MbrPlain'
  <2> DEFINE F(q) == IF q = p THEN [q EXCEPT !.active = on]
                     ELSE IF on THEN [q EXCEPT !.active = FALSE] ELSE q
  <2>1. Edit({F(q) : q \in parts})
    BY <1>8 DEF SetActive
  <2>2. \A q \in parts : F(q).role = q.role /\ F(q).name = q.name /\ F(q).type = q.type
    BY <1>0 DEF Part
  <2> HIDE DEF F
  <2>3. \A q \in parts : PlainPart(F(q))
    BY <1>0, <1>8, <2>2 DEF PlainPart
  <2> QED BY <2>1, <2>3, EditPlain
<1>9. CASE UNCHANGED vars
  BY <1>9 DEF MbrPlain, PlainOf, vars
<1>10. AddGpt => kind # "mbr" /\ kind' = kind
  BY DEF AddGpt, FitsGpt, Edit
<1>11. \A p, n : SetName(p, n) => kind # "mbr" /\ kind' = kind
  BY DEF SetName, Edit
<1>12. \A p, y : (Delete(p) \/ SetType(p, y) \/ SetActive(p, y)) => kind' = kind
  BY DEF Delete, SetType, SetActive, Edit
<1> QED BY <1>1, <1>2, <1>3, <1>4, <1>5, <1>6, <1>7, <1>8, <1>9, <1>10, <1>11, <1>12 DEF Next

LEMMA CurrentFields ==
  /\ Current.kind = kind /\ Current.parts = parts /\ Current.first = first /\ Current.last = last
  /\ Current.hybrid = FALSE
BY DEF Current

LEMMA NewDiskLinked == Linked(NewDisk)
BY DEF Linked, NewDisk, Zero, Data

\* The table in memory is one that can be written and found again.
LEMMA MbrCurrent ==
  TypeOK /\ Layout /\ Numbering /\ MbrPlain /\ kind = "mbr" /\ Cardinality(Logicals(parts)) <= MaxRecords
    => MbrTable(parts)
<1> SUFFICES ASSUME TypeOK, Layout, Numbering, MbrPlain, kind = "mbr",
                    Cardinality(Logicals(parts)) <= MaxRecords
             PROVE  MbrTable(parts)
  OBVIOUS
<1>1. LaidOut(parts)
  <2>1. \A e, f \in Extended(parts) : e = f
    BY DEF Layout, LayoutOf, TopLayout
  <2> QED BY <2>1 DEF LaidOut, TypeOK, Layout, LayoutOf
<1>2. ExtendedOnDisk(parts)
  <2>1. ASSUME NEW e \in Extended(parts) PROVE 1 <= e.start /\ Last(e) < NBlocks
    <3>1. e \in NonLogical(parts) /\ e \in Part
      BY DEF Extended, NonLogical, TypeOK
    <3>2. 1 <= e.start /\ Last(e) <= LastMbr
      BY <3>1 DEF Layout, LayoutOf, TopLayout
    <3>3. LastMbr < NBlocks /\ LastMbr \in Nat /\ NBlocks \in Nat
      BY GeometryAssumption DEF LastMbr
    <3> QED BY <3>1, <3>2, <3>3, PartBounds
  <2> QED BY <2>1 DEF ExtendedOnDisk
<1>3. \A p \in parts : PlainPart(p)
  BY DEF MbrPlain, PlainOf
<1>4. NumberedInOrder(parts)
  <2>1. \A l \in Logicals(parts) : l.name = "unnamed"
    BY <1>3 DEF PlainPart, Logicals
  <2> QED BY <2>1 DEF NumberedInOrder, Numbering, NumberingOf
<1>5. \A p \in NonLogical(parts) : /\ p.name = "unnamed" /\ p.type # Protective
                                   /\ p.role = "extended" <=> p.type \in ExtTypes
  BY <1>3 DEF PlainPart, NonLogical
<1> QED BY <1>1, <1>2, <1>4, <1>5 DEF MbrTable

LEMMA ReadsBack == RoomForGpt /\ TypeOK /\ Layout /\ Numbering /\ MbrPlain => WriteReadBack
<1> SUFFICES ASSUME RoomForGpt, TypeOK, Layout, Numbering, MbrPlain,
                    Writable(Current), Cardinality(Logicals(parts)) <= MaxRecords
             PROVE  Read(Written).kind = kind /\ Bare(Read(Written).parts) = Bare(parts)
  BY DEF WriteReadBack, Shown, Bare
<1>1. CASE kind = "gpt"
  <2>1. FitsDisk(Current)
    BY <1>1, CurrentFields DEF Writable
  <2>2. PICK t, D : t = Current /\ D = Written
    OBVIOUS
  <2>3. D = AfterAll(NewDisk, GptWrites(t)) /\ FitsDisk(t) /\ t.first \in Nat /\ ~t.hybrid
        /\ t.parts = parts
    BY <1>1, <2>1, <2>2, CurrentFields DEF Written, Writes, TypeOK
  <2>4. Read(D).kind = "gpt" /\ Read(D).parts = t.parts
    BY <2>3, GptReadBack
  <2> QED BY <1>1, <2>2, <2>3, <2>4
<1>2. CASE kind = "mbr"
  <2>1. MbrTable(parts)
    BY <1>2, MbrCurrent
  <2>2. PICK t, D : t = Current /\ D = Written
    OBVIOUS
  <2>3. D = AfterAll(NewDisk, MbrWrites(NewDisk, t)) /\ t.parts = parts
    BY <1>2, <2>2, CurrentFields DEF Written, Writes
  <2>4. Read(D).kind = "mbr" /\ Bare(Read(D).parts) = Bare(t.parts)
    BY <2>1, <2>3, NewDiskLinked, MbrReadBack
  <2> QED BY <1>2, <2>2, <2>3, <2>4
<1>3. CASE kind = "none"
  <2>1. parts = {}
    BY <1>3 DEF Layout, LayoutOf, TopLayout
  <2>2. NBlocks > 2
    BY ImageAssumption DEF RoomForGpt
  <2>3. PICK D : D = Written
    OBVIOUS
  <2>4. D = AfterAll(NewDisk, EraseWrites)
    BY <1>3, <2>3, CurrentFields DEF Written, Writes
  <2>5. Read(D) = NoTable(FALSE)
    BY <2>2, <2>4, EraseReadBack
  <2> QED BY <1>3, <2>1, <2>3, <2>5 DEF NoTable
<1> QED BY <1>1, <1>2, <1>3 DEF TypeOK

\* On a disk with room for a GPT, if the table read from it is laid out and
\* numbered as pt_read does it and is one an MBR can hold, and no partition is
\* given the type EE, then after any edits the table that is written (unless
\* pt_write refuses it or it has more logical partitions than reading follows)
\* is the one that is read back, the chain and its numbers included.
THEOREM ReadBackAlways ==
  ASSUME RoomForGpt, Protective \notin Types,
         \A t \in ReadTables : /\ LayoutOf(t.kind, t.parts, t.first, t.last)
                               /\ NumberingOf(t.kind, t.parts) /\ PlainOf(t.kind, t.parts)
  PROVE  Spec => []WriteReadBack
<1>1. Init => Layout /\ Numbering /\ MbrPlain
  BY DEF Init, Load, Layout, Numbering, MbrPlain
<1>2. TypeOK /\ Layout /\ Numbering /\ MbrPlain => WriteReadBack
  BY ReadsBack
<1>3. TypeOK /\ MbrPlain /\ [Next]_vars => MbrPlain'
  BY NextPlain
<1> QED BY <1>1, <1>2, <1>3, NextLayout, NextNumbering, InitType, NextType, PTL DEF Spec

-----------------------------------------------------------------------------
(* What edits make is what TableWriteProofs assumes of the tables written. *)

\* A partition of a GPT has no record.
UnchainedOf(k, S) == k = "gpt" => \A p \in S : p.ebr = 0
Unchained == UnchainedOf(kind, parts)

LEMMA NextUnchained == TypeOK /\ Layout /\ Unchained /\ [Next]_vars => Unchained'
<1> SUFFICES ASSUME TypeOK, Layout, Unchained, [Next]_vars PROVE Unchained'
  OBVIOUS
<1>0. parts \in SUBSET Part
  BY DEF TypeOK
<1>1. ASSUME NEW k \in {"none", "mbr", "gpt"}, New(k) PROVE Unchained'
  BY <1>1 DEF New, Unchained, UnchainedOf
<1>2. ASSUME kind # "gpt", kind' = kind PROVE Unchained'
  BY <1>2 DEF Unchained, UnchainedOf
<1>3. CASE AddGpt
  <2>1. PICK p \in Requests, n \in 1..MaxEntries, name \in Names :
          FitsGpt(p) /\ Edit(parts \cup {[p EXCEPT !.num = n, !.name = name]})
    BY <1>3 DEF AddGpt
  <2> DEFINE x == [p EXCEPT !.num = n, !.name = name]
  <2>2. x.ebr = 0
    BY DEF Requests
  <2>3. parts' = parts \cup {x} /\ kind' = kind
    BY <2>1 DEF Edit
  <2> HIDE DEF x
  <2> QED BY <2>2, <2>3 DEF Unchained, UnchainedOf
<1>4. CASE AddPrimary \/ AddLogicalInside \/ AddLogicalNew
  <2>1. kind = "mbr" /\ kind' = kind
    BY <1>4 DEF AddPrimary, AddLogicalInside, AddLogicalNew, FitsPrimary, FitsInside, FitsNew,
                AcceptableMbr, Edit
  <2> QED BY <1>2, <2>1
<1>5. ASSUME NEW p \in parts, Delete(p), kind = "gpt" PROVE Unchained'
  <2> DEFINE T == (parts \ {p}) \ (IF p.role = "extended" THEN Logicals(parts) ELSE {})
  <2>1. T \subseteq parts /\ parts' = Renumber(T)
    BY <1>5 DEF Delete, Edit
  <2> HIDE DEF T
  <2>2. \A q \in T : q.ebr = 0 /\ q.role = "primary"
    BY <1>5, <2>1 DEF Unchained, UnchainedOf, Layout, LayoutOf, TopLayout
  <2>3. Logicals(T) = {} /\ NonLogical(T) = T
    BY <2>2 DEF Logicals, NonLogical
  <2>4. Renumber(T) = T
    BY <2>3 DEF Renumber
  <2> QED BY <2>1, <2>2, <2>4 DEF Unchained, UnchainedOf
<1>6. ASSUME NEW p \in parts, NEW y \in Types, SetType(p, y), kind = "gpt" PROVE Unchained'
  <2> DEFINE x == [p EXCEPT !.type = y]
  <2>1. x.ebr = p.ebr /\ parts' = (parts \ {p}) \cup {x}
    BY <1>0, <1>6 DEF SetType, Edit, Part
  <2> HIDE DEF x
  <2> QED BY <1>6, <2>1 DEF Unchained, UnchainedOf
<1>7. ASSUME NEW p \in parts, NEW n \in Names, SetName(p, n) PROVE Unchained'
  <2> DEFINE x == [p EXCEPT !.name = n]
  <2>1. x.ebr = p.ebr /\ parts' = (parts \ {p}) \cup {x} /\ kind = "gpt"
    BY <1>0, <1>7 DEF SetName, Edit, Part
  <2> HIDE DEF x
  <2> QED BY <2>1 DEF Unchained, UnchainedOf
<1>8. ASSUME NEW p \in parts, NEW on \in BOOLEAN, SetActive(p, on) PROVE kind # "gpt" /\ kind' = kind
  BY <1>8 DEF SetActive, Edit
<1>9. CASE UNCHANGED vars
  BY <1>9 DEF Unchained, UnchainedOf, vars
<1>10. \A p, y : (Delete(p) \/ SetType(p, y)) => kind' = kind
  BY DEF Delete, SetType, Edit
<1> QED BY <1>1, <1>2, <1>3, <1>4, <1>5, <1>6, <1>7, <1>8, <1>9, <1>10 DEF Next

LEMMA MbrSeparate == TypeOK /\ Layout /\ kind = "mbr" => Separate(parts)
<1> SUFFICES ASSUME TypeOK, Layout, kind = "mbr" PROVE Separate(parts)
  OBVIOUS
<1>1. LastMbr < NBlocks /\ LastMbr \in Nat /\ NBlocks \in Nat
  BY GeometryAssumption DEF LastMbr
<1>2. ASSUME NEW p \in NonLogical(parts) PROVE 1 <= p.start /\ Last(p) < NBlocks
  <2>1. p \in Part
    BY DEF NonLogical, TypeOK
  <2>2. 1 <= p.start /\ Last(p) <= LastMbr
    BY DEF Layout, LayoutOf, TopLayout
  <2> QED BY <1>1, <2>1, <2>2, PartBounds
<1>3. ASSUME NEW l \in Logicals(parts) PROVE 1 <= l.start /\ Last(l) < NBlocks
  <2>1. PICK e \in Extended(parts) : e.start < l.start /\ Last(l) <= Last(e)
    BY DEF Layout, LayoutOf, LogicalLayout
  <2>2. e \in NonLogical(parts) /\ e \in Part /\ l \in Part
    BY DEF Extended, NonLogical, Logicals, TypeOK
  <2>3. Last(e) < NBlocks
    BY <1>2, <2>2
  <2>4. /\ e.start \in Nat /\ l.start \in Nat /\ Last(e) \in Nat /\ Last(l) \in Nat
    BY <2>2, PartBounds
  <2> QED BY <1>1, <2>1, <2>3, <2>4
<1>4. \A p \in parts : p \in NonLogical(parts) \/ p \in Logicals(parts)
  BY DEF NonLogical, Logicals
<1>5. ASSUME NEW p \in parts, NEW e \in Extended(parts), p.role = "primary"
      PROVE  ~Overlaps(p.start, Last(p), e.start, Last(e))
  <2>1. p \in NonLogical(parts) /\ e \in NonLogical(parts) /\ p # e
    BY <1>5 DEF NonLogical, Extended
  <2> QED BY <2>1 DEF Layout, LayoutOf, TopLayout
<1> QED BY <1>2, <1>3, <1>4, <1>5 DEF Separate

\* From a table that is laid out and numbered as pt_read does it, and is one its
\* kind of table can hold, edits that give no partition the type EE only make
\* tables that write_mbr, write_gpt and erase (ptwrite.c) may be given: what
\* TableWriteProofs assumes of a table, as long as reading follows its chain.
THEOREM EditsMakeTables ==
  ASSUME Protective \notin Types,
         \A t \in ReadTables : /\ LayoutOf(t.kind, t.parts, t.first, t.last)
                               /\ NumberingOf(t.kind, t.parts) /\ PlainOf(t.kind, t.parts)
                               /\ UnchainedOf(t.kind, t.parts)
  PROVE  Spec => [](Cardinality(Logicals(parts)) <= MaxRecords => TableFits(Current))
<1>1. Init => Layout /\ Numbering /\ MbrPlain /\ Unchained
  BY DEF Init, Load, Layout, Numbering, MbrPlain, Unchained
<1>2. ASSUME TypeOK, Layout, Numbering, MbrPlain, Unchained, Cardinality(Logicals(parts)) <= MaxRecords
      PROVE  TableFits(Current)
  <2>1. kind = "none" => parts = {}
    BY <1>2 DEF Layout, LayoutOf, TopLayout
  <2>2. kind = "gpt" => \A p \in parts : p.ebr = 0 /\ p.role = "primary"
    BY <1>2 DEF Layout, LayoutOf, TopLayout, Unchained, UnchainedOf
  <2>3. kind = "mbr" => MbrTable(parts) /\ Separate(parts)
    BY <1>2, MbrCurrent, MbrSeparate
  <2>4. Current.last = last
    BY DEF Current
  <2> QED BY <1>2, <2>1, <2>2, <2>3, <2>4, CurrentFields DEF TableFits, TypeOK
<1>3. TypeOK /\ MbrPlain /\ [Next]_vars => MbrPlain'
  BY NextPlain
<1> QED BY <1>1, <1>2, <1>3, NextLayout, NextNumbering, NextUnchained, InitType, NextType, PTL DEF Spec
=============================================================================

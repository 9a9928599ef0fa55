---------------------------- MODULE ImageProofs ----------------------------
(***************************************************************************)
(* Proofs about TableImage: a table that is written is read back, whatever *)
(* was on the disk.                                                        *)
(***************************************************************************)
EXTENDS TableImage, Induction, FiniteSetTheorems, SequenceTheorems

-----------------------------------------------------------------------------
(* Writes.                                                                 *)

LEMMA LastWrite ==
  ASSUME NEW d, NEW ops, NEW n \in Nat, DOMAIN ops = 1..n, NEW i \in 1..n, ops[i].at \in Blocks,
         \A j \in 1..n : ops[j].at = ops[i].at => j <= i
  PROVE  AfterAll(d, ops)[ops[i].at] = ops[i].block
<1> DEFINE b == ops[i].at
           W == {j \in DOMAIN ops : ops[j].at = b}
<1>1. i \in W /\ \A j \in W : j <= i
  OBVIOUS
<1>2. \A k \in W : (\A j \in W : j <= k) => k = i
  <2> TAKE k \in W
  <2> HAVE \A j \in W : j <= k
  <2>1. i <= k /\ k <= i /\ k \in Nat
    BY <1>1
  <2> QED BY <2>1
<1>3. (CHOOSE k \in W : \A j \in W : j <= k) = i
  <2> HIDE DEF W
  <2> QED BY <1>1, <1>2
<1>4. AfterAll(d, ops)[b] = IF W = {} THEN d[b] ELSE ops[CHOOSE k \in W : \A j \in W : j <= k].block
  BY DEF AfterAll
<1> HIDE DEF W
<1> QED BY <1>1, <1>3, <1>4

LEMMA NotWritten ==
  ASSUME NEW d, NEW ops, NEW b \in Blocks, \A j \in DOMAIN ops : ops[j].at # b
  PROVE  AfterAll(d, ops)[b] = d[b]
<1>1. {j \in DOMAIN ops : ops[j].at = b} = {}
  OBVIOUS
<1> QED BY <1>1 DEF AfterAll

\* Sequences as functions of their places.
OpList(s, n, X)  == s \in [1..n -> X]
IsJoin(u, s, t)  == u = s \o t
Begins(u, s, m)  == \A i \in 1..m : u[i] = s[i]
Copied(u, m, t, n) == \A i \in 1..n : u[m + i] = t[i]
IsPiece(c, n)    == c \in [1..n -> {c[i] : i \in 1..n}]

LEMMA Joined ==
  ASSUME NEW X, NEW m \in Nat, NEW n \in Nat, NEW s, NEW t, OpList(s, m, X), OpList(t, n, X),
         NEW u, IsJoin(u, s, t)
  PROVE  /\ OpList(u, m + n, X)
         /\ Begins(u, s, m)
         /\ Copied(u, m, t, n)
<1>1. s \in Seq(X) /\ t \in Seq(X) /\ Len(s) = m /\ Len(t) = n
  BY DEF OpList
<1>2. /\ s \o t \in Seq(X) /\ Len(s \o t) = m + n
      /\ \A i \in 1..(m + n) : (s \o t)[i] = IF i <= m THEN s[i] ELSE t[i - m]
  BY <1>1, ConcatProperties
<1>3. /\ u \in Seq(X) /\ Len(u) = m + n
      /\ \A i \in 1..(m + n) : u[i] = IF i <= m THEN s[i] ELSE t[i - m]
  BY <1>2, Zenon DEF IsJoin
<1>4. OpList(u, m + n, X)
  BY <1>3, LenProperties DEF OpList
<1>5. \A i \in 1..m : u[i] = s[i]
  BY <1>3
<1>6. ASSUME NEW i \in 1..n PROVE u[m + i] = t[i]
  <2>1. m + i \in 1..(m + n) /\ ~(m + i <= m) /\ (m + i) - m = i
    OBVIOUS
  <2> QED BY <1>3, <2>1
<1> QED BY <1>4, <1>5, <1>6 DEF Copied, Begins

LEMMA OneOp == ASSUME NEW X, NEW x \in X PROVE OpList(<<x>>, 1, X) /\ <<x>>[1] = x
BY DEF OpList

LEMMA ListedPiece == ASSUME NEW X, NEW n, NEW s, OpList(s, n, X) PROVE IsPiece(s, n) /\ DOMAIN s = 1..n
BY DEF OpList, IsPiece

LEMMA NoOps == ASSUME NEW X PROVE OpList(<<>>, 0, X)
BY DEF OpList

-----------------------------------------------------------------------------
(* A GPT that is written leaves two good copies.                           *)

CopyBlocks(my, alt, ents, t) ==
  {ArrayBlock(t.parts, i) : i \in 0..(ArrBlocks - 1)}
    \cup {Header(my, alt, ents, t.first, NewLast, t.parts)}

IsCopy(s, my, alt, ents, t) ==
  /\ \A i \in 1..ArrBlocks : s[i].at = ents + i - 1 /\ s[i].block = ArrayBlock(t.parts, i - 1)
  /\ s[ArrBlocks + 1].at = my
  /\ s[ArrBlocks + 1].block = Header(my, alt, ents, t.first, NewLast, t.parts)

\* One copy: its array from block ents on, then its header.
LEMMA CopyOps ==
  ASSUME NEW t, NEW my \in Nat, NEW alt, NEW ents \in Nat, NEW X,
         CopyBlocks(my, alt, ents, t) \subseteq X
  PROVE  /\ OpList(CopyWrites(my, alt, ents, t), ArrBlocks + 1, [at : Nat, block : X])
         /\ IsCopy(CopyWrites(my, alt, ents, t), my, alt, ents, t)
<1> DEFINE Op == [at : Nat, block : X]
           a  == ArrayWrites(ents, t.parts)
           h  == Put(my, Header(my, alt, ents, t.first, NewLast, t.parts))
<1> USE ImageAssumption
<1>0. /\ \A i \in 0..(ArrBlocks - 1) : ArrayBlock(t.parts, i) \in X
      /\ Header(my, alt, ents, t.first, NewLast, t.parts) \in X
  BY DEF CopyBlocks
<1>1. ASSUME NEW i \in 1..ArrBlocks
      PROVE  /\ Put(ents + i - 1, ArrayBlock(t.parts, i - 1)) \in Op
             /\ Put(ents + i - 1, ArrayBlock(t.parts, i - 1)).at = ents + i - 1
             /\ Put(ents + i - 1, ArrayBlock(t.parts, i - 1)).block = ArrayBlock(t.parts, i - 1)
  <2>1. i - 1 \in 0..(ArrBlocks - 1) /\ ents + i - 1 \in Nat
    OBVIOUS
  <2> QED BY <1>0, <2>1 DEF Put
<1>2. /\ OpList(a, ArrBlocks, Op)
      /\ \A i \in 1..ArrBlocks : a[i].at = ents + i - 1 /\ a[i].block = ArrayBlock(t.parts, i - 1)
  BY <1>1 DEF ArrayWrites, OpList
<1>3. h \in Op /\ h.at = my /\ h.block = Header(my, alt, ents, t.first, NewLast, t.parts)
  BY <1>0 DEF Put
<1>4. OpList(<<h>>, 1, Op) /\ <<h>>[1] = h
  BY <1>3, OneOp
<1>5. PICK u : IsJoin(u, a, <<h>>)
  BY DEF IsJoin
<1>6. CopyWrites(my, alt, ents, t) = u
  BY <1>5 DEF CopyWrites, IsJoin
<1> HIDE DEF Op, a, h
<1>7. /\ OpList(u, ArrBlocks + 1, Op)
      /\ Begins(u, a, ArrBlocks)
      /\ Copied(u, ArrBlocks, <<h>>, 1)
  <2>1. ArrBlocks \in Nat /\ 1 \in Nat
    OBVIOUS
  <2>2. OpList(a, ArrBlocks, Op) /\ OpList(<<h>>, 1, Op)
    BY <1>2, <1>4
  <2> QED BY <2>2, <1>5, <2>1, Joined
<1>8. u[ArrBlocks + 1] = h
  BY <1>4, <1>7 DEF Copied
<1>9. /\ \A i \in 1..ArrBlocks : u[i].at = ents + i - 1 /\ u[i].block = ArrayBlock(t.parts, i - 1)
      /\ u[ArrBlocks + 1].at = my
      /\ u[ArrBlocks + 1].block = Header(my, alt, ents, t.first, NewLast, t.parts)
  BY <1>2, <1>3, <1>7, <1>8 DEF Begins
<1> QED BY <1>6, <1>7, <1>9 DEF Op, IsCopy

\* Its places: block 0 unless there is a hybrid MBR, the primary copy, the
\* backup copy.
LEMMA GptOps ==
  ASSUME NEW t, NBlocks - 1 - ArrBlocks > 2 + ArrBlocks
  PROVE  LET s == GptWrites(t)
             A == ArrBlocks
             n == IF t.hybrid THEN 0 ELSE 1
         IN  /\ DOMAIN s = 1..(n + 2 * A + 2) /\ IsPiece(s, n + 2 * A + 2)
             /\ ~t.hybrid => s[1].at = 0 /\ s[1].block = ProtectiveSector
             /\ \A i \in 1..A : /\ s[n + i].at = 1 + i
                                /\ s[n + i].block = ArrayBlock(t.parts, i - 1)
             /\ s[n + A + 1].at = 1
             /\ s[n + A + 1].block = Header(1, NBlocks - 1, 2, t.first, NewLast, t.parts)
             /\ \A i \in 1..A : /\ s[n + A + 1 + i].at = NBlocks - 2 - A + i
                                /\ s[n + A + 1 + i].block = ArrayBlock(t.parts, i - 1)
             /\ s[n + 2 * A + 2].at = NBlocks - 1
             /\ s[n + 2 * A + 2].block =
                  Header(NBlocks - 1, 1, NBlocks - 1 - A, t.first, NewLast, t.parts)
<1> DEFINE A  == ArrBlocks
           n  == IF t.hybrid THEN 0 ELSE 1
           h1 == Header(1, NBlocks - 1, 2, t.first, NewLast, t.parts)
           h2 == Header(NBlocks - 1, 1, NBlocks - 1 - A, t.first, NewLast, t.parts)
           X  == {ProtectiveSector, h1, h2} \cup {ArrayBlock(t.parts, i) : i \in 0..(A - 1)}
           Op == [at : Nat, block : X]
           z  == IF t.hybrid THEN <<>> ELSE <<Put(0, ProtectiveSector)>>
           p  == CopyWrites(1, NBlocks - 1, 2, t)
           b  == CopyWrites(NBlocks - 1, 1, NBlocks - 1 - A, t)
<1>0. A \in Nat \ {0} /\ NBlocks \in Nat /\ NBlocks - 1 \in Nat /\ NBlocks - 1 - A \in Nat /\ n \in 0..1
  BY ImageAssumption
<1>1. /\ CopyBlocks(1, NBlocks - 1, 2, t) \subseteq X
      /\ CopyBlocks(NBlocks - 1, 1, NBlocks - 1 - A, t) \subseteq X
  BY DEF CopyBlocks
<1>2. ProtectiveSector \in X
  OBVIOUS
<1>3. Put(0, ProtectiveSector) \in Op /\ Put(0, ProtectiveSector).at = 0
      /\ Put(0, ProtectiveSector).block = ProtectiveSector
  BY <1>2 DEF Put
<1> HIDE DEF X
<1>4. OpList(z, n, Op) /\ (~t.hybrid => z[1] = Put(0, ProtectiveSector))
  <2>1. CASE t.hybrid
    BY <2>1, NoOps
  <2>2. CASE ~t.hybrid
    BY <2>2, <1>3, OneOp
  <2> QED BY <2>1, <2>2
<1>5. /\ OpList(p, A + 1, Op)
      /\ \A i \in 1..A : p[i].at = 2 + i - 1 /\ p[i].block = ArrayBlock(t.parts, i - 1)
      /\ p[A + 1].at = 1 /\ p[A + 1].block = h1
  <2>1. 1 \in Nat /\ 2 \in Nat
    OBVIOUS
  <2>2. OpList(p, ArrBlocks + 1, Op) /\ IsCopy(p, 1, NBlocks - 1, 2, t)
    BY <1>1, <2>1, CopyOps
  <2> QED BY <2>2 DEF IsCopy
<1>6. /\ OpList(b, A + 1, Op)
      /\ \A i \in 1..A : /\ b[i].at = (NBlocks - 1 - A) + i - 1
                         /\ b[i].block = ArrayBlock(t.parts, i - 1)
      /\ b[A + 1].at = NBlocks - 1 /\ b[A + 1].block = h2
  <2>1. OpList(b, ArrBlocks + 1, Op) /\ IsCopy(b, NBlocks - 1, 1, NBlocks - 1 - A, t)
    BY <1>0, <1>1, CopyOps
  <2> QED BY <2>1 DEF IsCopy
<1>7. PICK v, s : IsJoin(v, z, p) /\ IsJoin(s, v, b)
  BY DEF IsJoin
<1>8. GptWrites(t) = s
  BY <1>7 DEF GptWrites, IsJoin
<1> HIDE DEF z, p, b, h1, h2, Op, n, A
<1>9. n \in Nat /\ A + 1 \in Nat /\ n + (A + 1) \in Nat
  BY <1>0
<1>10. /\ OpList(v, n + (A + 1), Op)
       /\ Begins(v, z, n)
       /\ Copied(v, n, p, A + 1)
  BY <1>4, <1>5, <1>7, <1>9, Joined
<1>11. /\ OpList(s, (n + (A + 1)) + (A + 1), Op)
       /\ \A i \in 1..n : s[i] = z[i]
       /\ \A i \in 1..(A + 1) : s[n + i] = p[i]
       /\ \A i \in 1..(A + 1) : s[(n + (A + 1)) + i] = b[i]
  <2>1. \A i \in 1..n : i \in 1..(n + (A + 1))
    BY <1>0
  <2>2. \A i \in 1..(A + 1) : n + i \in 1..(n + (A + 1))
    BY <1>0
  <2>3. /\ OpList(s, (n + (A + 1)) + (A + 1), Op)
        /\ Begins(s, v, n + (A + 1))
        /\ Copied(s, n + (A + 1), b, A + 1)
    BY <1>6, <1>7, <1>9, <1>10, Joined
  <2> QED BY <1>10, <2>1, <2>2, <2>3 DEF Copied, Begins
<1>12. DOMAIN s = 1..(n + 2 * A + 2) /\ IsPiece(s, n + 2 * A + 2)
  <2>1. (n + (A + 1)) + (A + 1) = n + 2 * A + 2
    BY <1>0
  <2> QED BY <1>11, <2>1, ListedPiece
<1>13. ~t.hybrid => s[1].at = 0 /\ s[1].block = ProtectiveSector
  BY <1>11, <1>4, <1>3 DEF n
<1>14. \A i \in 1..A : s[n + i].at = 1 + i /\ s[n + i].block = ArrayBlock(t.parts, i - 1)
  <2> TAKE i \in 1..A
  <2>1. i \in 1..(A + 1) /\ 2 + i - 1 = 1 + i
    BY <1>0
  <2> QED BY <2>1, <1>11, <1>5
<1>15. s[n + A + 1].at = 1 /\ s[n + A + 1].block = h1
  <2>1. A + 1 \in 1..(A + 1) /\ n + (A + 1) = n + A + 1
    BY <1>0
  <2> QED BY <2>1, <1>11, <1>5
<1>16. \A i \in 1..A : /\ s[n + A + 1 + i].at = NBlocks - 2 - A + i
                       /\ s[n + A + 1 + i].block = ArrayBlock(t.parts, i - 1)
  <2> TAKE i \in 1..A
  <2>1. /\ i \in 1..(A + 1) /\ (NBlocks - 1 - A) + i - 1 = NBlocks - 2 - A + i
        /\ (n + (A + 1)) + i = n + A + 1 + i
    BY <1>0
  <2> QED BY <2>1, <1>11, <1>6
<1>17. s[n + 2 * A + 2].at = NBlocks - 1 /\ s[n + 2 * A + 2].block = h2
  <2>1. A + 1 \in 1..(A + 1) /\ (n + (A + 1)) + (A + 1) = n + 2 * A + 2
    BY <1>0
  <2> QED BY <2>1, <1>11, <1>6
<1> DEFINE G(w) ==
         /\ DOMAIN w = 1..(n + 2 * A + 2) /\ IsPiece(w, n + 2 * A + 2)
         /\ ~t.hybrid => w[1].at = 0 /\ w[1].block = ProtectiveSector
         /\ \A i \in 1..A : w[n + i].at = 1 + i /\ w[n + i].block = ArrayBlock(t.parts, i - 1)
         /\ w[n + A + 1].at = 1 /\ w[n + A + 1].block = h1
         /\ \A i \in 1..A : /\ w[n + A + 1 + i].at = NBlocks - 2 - A + i
                            /\ w[n + A + 1 + i].block = ArrayBlock(t.parts, i - 1)
         /\ w[n + 2 * A + 2].at = NBlocks - 1 /\ w[n + 2 * A + 2].block = h2
<1>18. G(s)
  BY <1>12, <1>13, <1>14, <1>15, <1>16, <1>17
<1> QED BY <1>8, <1>18 DEF n, A, h1, h2
LEMMA GptBlocks ==
  ASSUME NEW d, NEW t, FitsDisk(t), t.first \in Nat, NEW D, D = AfterAll(d, GptWrites(t))
  PROVE  /\ NBlocks - 1 - ArrBlocks > 2 + ArrBlocks
         /\ D[0] = IF t.hybrid THEN d[0] ELSE ProtectiveSector
         /\ D[1] = Header(1, NBlocks - 1, 2, t.first, NewLast, t.parts)
         /\ \A i \in 0..(ArrBlocks - 1) : D[2 + i] = ArrayBlock(t.parts, i)
         /\ D[NBlocks - 1] = Header(NBlocks - 1, 1, NBlocks - 1 - ArrBlocks, t.first, NewLast, t.parts)
         /\ \A i \in 0..(ArrBlocks - 1) : D[NBlocks - 1 - ArrBlocks + i] = ArrayBlock(t.parts, i)
<1> DEFINE A == ArrBlocks
           n == IF t.hybrid THEN 0 ELSE 1
<1>0. A \in Nat \ {0} /\ NBlocks \in Nat /\ n \in 0..1
  BY ImageAssumption
<1>1. NBlocks - 1 - A > 2 + A
  BY <1>0 DEF FitsDisk, NewLast
<1>2. PICK s : s = GptWrites(t)
  OBVIOUS
<1>3. /\ DOMAIN s = 1..(n + 2 * A + 2)
      /\ ~t.hybrid => s[1].at = 0 /\ s[1].block = ProtectiveSector
      /\ \A i \in 1..A : s[n + i].at = 1 + i /\ s[n + i].block = ArrayBlock(t.parts, i - 1)
      /\ s[n + A + 1].at = 1
      /\ s[n + A + 1].block = Header(1, NBlocks - 1, 2, t.first, NewLast, t.parts)
      /\ \A i \in 1..A : /\ s[n + A + 1 + i].at = NBlocks - 2 - A + i
                         /\ s[n + A + 1 + i].block = ArrayBlock(t.parts, i - 1)
      /\ s[n + 2 * A + 2].at = NBlocks - 1
      /\ s[n + 2 * A + 2].block = Header(NBlocks - 1, 1, NBlocks - 1 - A, t.first, NewLast, t.parts)
  BY <1>1, <1>2, GptOps
<1> HIDE DEF n, A
<1>4. PICK m \in Nat : m = n + 2 * A + 2
  BY <1>0
\* Where each write goes.
<1>5. ASSUME NEW j \in 1..m
      PROVE  \/ ~t.hybrid /\ n = 1 /\ j = 1 /\ s[j].at = 0
             \/ n < j /\ j <= n + A /\ s[j].at = 1 + (j - n)
             \/ j = n + A + 1 /\ s[j].at = 1
             \/ n + A + 1 < j /\ j < m /\ s[j].at = NBlocks - 2 - A + (j - (n + A + 1))
             \/ j = m /\ s[j].at = NBlocks - 1
  <2>1. CASE j <= n
    <3>1. n = 1 /\ j = 1
      BY <2>1, <1>0
    <3>2. ~t.hybrid
      BY <3>1 DEF n
    <3> QED BY <3>1, <3>2, <1>3
  <2>2. CASE n < j /\ j <= n + A
    <3>1. j - n \in 1..A /\ n + (j - n) = j
      BY <2>2, <1>0
    <3> QED BY <3>1, <2>2, <1>3
  <2>3. CASE j = n + A + 1
    BY <2>3, <1>3
  <2>4. CASE n + A + 1 < j /\ j < m
    <3>1. j - (n + A + 1) \in 1..A /\ n + A + 1 + (j - (n + A + 1)) = j
      BY <2>4, <1>0, <1>4
    <3> QED BY <3>1, <2>4, <1>3
  <2>5. CASE j = m
    BY <2>5, <1>3, <1>4
  <2> QED BY <2>1, <2>2, <2>3, <2>4, <2>5, <1>0, <1>4
\* No block is written twice.
<1>6. ASSUME NEW i \in 1..m, NEW j \in 1..m, s[j].at = s[i].at PROVE j <= i
  BY <1>0, <1>1, <1>5, <1>6, <1>4
<1>7. ASSUME NEW i \in 1..m PROVE s[i].at \in Blocks
  BY <1>0, <1>1, <1>5, <1>4 DEF Blocks
<1>8. ASSUME NEW i \in 1..m PROVE D[s[i].at] = s[i].block
  <2>1. DOMAIN s = 1..m
    BY <1>3, <1>4
  <2> QED BY <2>1, <1>2, <1>4, <1>6, <1>7, LastWrite
<1>9. D[0] = IF t.hybrid THEN d[0] ELSE ProtectiveSector
  <2>1. CASE t.hybrid
    <3>1. 0 \in Blocks
      BY <1>0, <1>1 DEF Blocks
    <3>2. \A j \in 1..m : s[j].at # 0
      BY <1>5, <2>1, <1>0, <1>1, <1>4
    <3> QED BY <3>1, <3>2, <2>1, <1>2, <1>3, <1>4, NotWritten
  <2>2. CASE ~t.hybrid
    <3>1. 1 \in 1..m
      BY <1>4, <1>0
    <3> QED BY <3>1, <2>2, <1>8, <1>3
  <2> QED BY <2>1, <2>2
<1>10. D[1] = Header(1, NBlocks - 1, 2, t.first, NewLast, t.parts)
  <2>1. n + A + 1 \in 1..m
    BY <1>4, <1>0
  <2> QED BY <2>1, <1>8, <1>3
<1>11. D[NBlocks - 1] = Header(NBlocks - 1, 1, NBlocks - 1 - A, t.first, NewLast, t.parts)
  <2>1. m \in 1..m
    BY <1>4, <1>0
  <2> QED BY <2>1, <1>8, <1>3, <1>4
<1>12. ASSUME NEW i \in 0..(A - 1)
       PROVE  /\ D[2 + i] = ArrayBlock(t.parts, i)
              /\ D[NBlocks - 1 - A + i] = ArrayBlock(t.parts, i)
  <2>1. PICK k \in 1..A : k = i + 1
    BY <1>0
  <2>2. /\ i = k - 1 /\ n + k \in 1..m /\ n + A + 1 + k \in 1..m
        /\ 2 + i = 1 + k /\ NBlocks - 1 - A + i = NBlocks - 2 - A + k
    BY <2>1, <1>0, <1>4
  <2>3. /\ s[n + k].at = 1 + k /\ s[n + k].block = ArrayBlock(t.parts, k - 1)
        /\ s[n + A + 1 + k].at = NBlocks - 2 - A + k
        /\ s[n + A + 1 + k].block = ArrayBlock(t.parts, k - 1)
    BY <1>3
  <2>4. D[s[n + k].at] = s[n + k].block /\ D[s[n + A + 1 + k].at] = s[n + A + 1 + k].block
    BY <1>8, <2>2
  <2> QED BY <2>2, <2>3, <2>4
<1> QED BY <1>1, <1>9, <1>10, <1>11, <1>12 DEF A

\* A GPT written over anything reads back, with two good copies and the backup
\* in the last block. (A hybrid MBR, which is kept, must announce the GPT.)
LEMMA GptReadBack ==
  ASSUME NEW d, NEW t, FitsDisk(t), t.first \in Nat, NEW D, D = AfterAll(d, GptWrites(t)),
         t.hybrid => d[0].tag = "mbr" /\ \E e \in d[0].entries : e.type = Protective
  PROVE  /\ Read(D).kind = "gpt" /\ Read(D).parts = t.parts
         /\ Read(D).pok /\ Read(D).bok /\ Read(D).blba = NBlocks - 1
         /\ Read(D).pent = 2 /\ Read(D).bent = NBlocks - 1 - ArrBlocks
<1> DEFINE back == NBlocks - 1
<1>0. ArrBlocks \in Nat \ {0} /\ NBlocks \in Nat
  BY ImageAssumption
<1>1. /\ NBlocks - 1 - ArrBlocks > 2 + ArrBlocks
      /\ D[0] = IF t.hybrid THEN d[0] ELSE ProtectiveSector
      /\ D[1] = Header(1, back, 2, t.first, NewLast, t.parts)
      /\ \A i \in 0..(ArrBlocks - 1) : D[2 + i] = ArrayBlock(t.parts, i)
      /\ D[back] = Header(back, 1, back - ArrBlocks, t.first, NewLast, t.parts)
      /\ \A i \in 0..(ArrBlocks - 1) : D[back - ArrBlocks + i] = ArrayBlock(t.parts, i)
  BY GptBlocks
<1>2. t.first <= NewLast /\ NewLast < NBlocks
  BY <1>0 DEF FitsDisk, NewLast
<1>3. GoodCopy(D, 1)
  <2>1. /\ D[1].tag = "gpt" /\ D[1].my = 1 /\ D[1].first = t.first /\ D[1].last = NewLast
        /\ D[1].ents = 2 /\ D[1].parts = t.parts
    BY <1>1 DEF Header
  <2>2. 1 < NBlocks /\ 2 + ArrBlocks <= NBlocks
    BY <1>0, <1>1
  <2> QED BY <2>1, <2>2, <1>1, <1>2 DEF GoodCopy
<1>4. GoodCopy(D, back)
  <2>1. /\ D[back].tag = "gpt" /\ D[back].my = back /\ D[back].first = t.first
        /\ D[back].last = NewLast /\ D[back].ents = back - ArrBlocks /\ D[back].parts = t.parts
    BY <1>1 DEF Header
  <2>2. back < NBlocks /\ (back - ArrBlocks) + ArrBlocks <= NBlocks
    BY <1>0, <1>1
  <2> QED BY <2>1, <2>2, <1>1, <1>2 DEF GoodCopy
<1>5. D[1].alt = back /\ D[1].parts = t.parts /\ D[1].ents = 2 /\ D[back].ents = back - ArrBlocks
  BY <1>1 DEF Header
<1>6. \A h : /\ ReadGpt(D, h).kind = "gpt" /\ ReadGpt(D, h).parts = t.parts
             /\ ReadGpt(D, h).pok = TRUE /\ ReadGpt(D, h).bok = TRUE /\ ReadGpt(D, h).blba = back
             /\ ReadGpt(D, h).pent = 2 /\ ReadGpt(D, h).bent = back - ArrBlocks
  BY <1>3, <1>4, <1>5 DEF ReadGpt
<1>7. D[0].tag = "mbr" /\ \E e \in D[0].entries : e.type = Protective
  <2>1. CASE t.hybrid
    BY <2>1, <1>1
  <2>2. CASE ~t.hybrid
    <3> DEFINE e == [num |-> 1, start |-> 1, size |-> NBlocks - 1, type |-> Protective,
                     active |-> FALSE]
    <3>1. D[0] = Sector({e})
      BY <2>2, <1>1 DEF ProtectiveSector
    <3>2. e.type = Protective
      OBVIOUS
    <3> HIDE DEF e
    <3>3. D[0].tag = "mbr" /\ D[0].entries = {e}
      BY <3>1 DEF Sector
    <3> QED BY <3>2, <3>3
  <2> QED BY <2>1, <2>2
<1>8. Read(D) = ReadGpt(D, \E e \in D[0].entries : e.type # Protective)
  BY <1>7 DEF Read
<1> QED BY <1>6, <1>8

-----------------------------------------------------------------------------
(* The logical partitions in disk order.                                   *)

LEMMA BeforeFinite ==
  ASSUME NEW S, IsFiniteSet(S), NEW l
  PROVE  IsFiniteSet(Before(S, l)) /\ Cardinality(Before(S, l)) \in Nat
<1>1. Before(S, l) \subseteq S
  BY DEF Before, Logicals
<1> QED BY <1>1, FS_Subset, FS_CardinalityType

\* A finite set of partitions, the logical ones laid out in the extended one.
LaidOut(S) ==
  /\ S \in SUBSET Part /\ IsFiniteSet(S)
  /\ LogicalLayout(S)
  /\ \A e, f \in Extended(S) : e = f

LEMMA PartBounds ==
  ASSUME NEW p \in Part
  PROVE  p.start \in Nat /\ p.size \in Nat \ {0} /\ Last(p) \in Nat /\ p.start <= Last(p)
         /\ Last(p) = p.start + p.size - 1 /\ p.ebr \in Nat /\ p.num \in Nat
BY DEF Part, Last

\* Between two logical partitions there is a block.
LEMMA LogicalsInOrder ==
  ASSUME NEW S, LaidOut(S), NEW l \in Logicals(S), NEW m \in Logicals(S)
  PROVE  /\ l.start < m.start => Last(l) < m.start - 1
         /\ l.start = m.start => l = m
<1>1. l \in Part /\ m \in Part
  BY DEF LaidOut, Logicals
<1>2. l # m => ~Overlaps(l.start - 1, Last(l), m.start - 1, Last(m))
  BY DEF LaidOut, LogicalLayout
<1> QED BY <1>1, <1>2, PartBounds DEF Overlaps

LEMMA BeforeGrows ==
  ASSUME NEW S, LaidOut(S), NEW l \in Logicals(S), NEW m \in Logicals(S), l.start < m.start
  PROVE  Cardinality(Before(S, l)) < Cardinality(Before(S, m))
<1>1. l \in Part /\ m \in Part /\ l.start \in Nat /\ m.start \in Nat
  BY PartBounds DEF LaidOut, Logicals
<1>2. Before(S, l) \subseteq Before(S, m)
  <2>1. \A x \in Before(S, l) : x \in Logicals(S) /\ x.start \in Nat /\ x.start < l.start
    BY PartBounds DEF Before, Logicals, LaidOut
  <2> QED BY <1>1, <2>1 DEF Before
<1>3. l \in Before(S, m) /\ l \notin Before(S, l)
  BY <1>1 DEF Before
<1>4. IsFiniteSet(Before(S, m)) /\ Cardinality(Before(S, m)) \in Nat /\ Cardinality(Before(S, l)) \in Nat
  BY BeforeFinite DEF LaidOut
<1>5. Cardinality(Before(S, l)) <= Cardinality(Before(S, m))
      /\ Cardinality(Before(S, l)) # Cardinality(Before(S, m))
  BY <1>2, <1>3, <1>4, FS_Subset
<1> QED BY <1>4, <1>5

Place(S, l) == Cardinality(Before(S, l)) + 1

\* Sorted lists them all, each in its place.
LEMMA SortedLogicals ==
  ASSUME NEW S, LaidOut(S), NEW k, k = Cardinality(Logicals(S))
  PROVE  /\ k \in Nat
         /\ DOMAIN Sorted(S) = 1..k
         /\ \A i \in 1..k : Sorted(S)[i] \in Logicals(S) /\ Place(S, Sorted(S)[i]) = i
         /\ \A l \in Logicals(S) : Place(S, l) \in 1..k /\ Sorted(S)[Place(S, l)] = l
<1> DEFINE L == Logicals(S)
           f == [l \in L |-> Place(S, l)]
<1>1. IsFiniteSet(L) /\ k \in Nat
  <2>1. L \subseteq S /\ IsFiniteSet(S)
    BY DEF Logicals, LaidOut
  <2> QED BY <2>1, FS_Subset, FS_CardinalityType
<1>2. \A l \in L : Cardinality(Before(S, l)) \in Nat /\ l.start \in Nat
  BY BeforeFinite, PartBounds DEF LaidOut, Logicals
<1>3. ASSUME NEW l \in L PROVE Place(S, l) \in 1..k
  <2>1. Before(S, l) \subseteq L \ {l}
    <3>1. l.start \in Nat
      BY <1>2
    <3> QED BY <3>1 DEF Before
  <2>2. IsFiniteSet(L \ {l}) /\ Cardinality(L \ {l}) = k - 1
    BY <1>1, FS_RemoveElement
  <2>3. Cardinality(Before(S, l)) <= k - 1
    BY <2>1, <2>2, FS_Subset
  <2> QED BY <1>1, <1>2, <2>3 DEF Place
<1>4. ASSUME NEW l \in L, NEW m \in L, Place(S, l) = Place(S, m) PROVE l = m
  <2>1. Cardinality(Before(S, l)) = Cardinality(Before(S, m))
    BY <1>2, <1>4 DEF Place
  <2>2. l.start = m.start
    BY <1>2, <2>1, BeforeGrows
  <2> QED BY <2>2, LogicalsInOrder
<1>5. f \in Injection(L, 1..k)
  BY <1>3, <1>4 DEF Injection, IsInjective
<1>6. IsFiniteSet(1..k) /\ Cardinality(1..k) = k
  BY <1>1, FS_Interval
<1>7. f \in Surjection(L, 1..k)
  BY <1>5, <1>6, FS_Injection
<1>8. \A i \in 1..k : \E l \in L : Place(S, l) = i
  BY <1>7 DEF Surjection
<1>9. DOMAIN Sorted(S) = 1..k
  BY DEF Sorted
<1>10. ASSUME NEW i \in 1..k
       PROVE  Sorted(S)[i] \in L /\ Place(S, Sorted(S)[i]) = i
  <2>1. PICK l \in L : Place(S, l) = i
    BY <1>8
  <2>2. Cardinality(Before(S, l)) = i - 1
    BY <1>2, <2>1 DEF Place
  <2>3. Sorted(S)[i] = CHOOSE x \in L : Cardinality(Before(S, x)) = i - 1
    BY DEF Sorted
  <2>4. Sorted(S)[i] \in L /\ Cardinality(Before(S, Sorted(S)[i])) = i - 1
    <3> HIDE DEF L
    <3> QED BY <2>2, <2>3
  <2> QED BY <2>4, <1>2 DEF Place
<1>11. ASSUME NEW l \in L PROVE Sorted(S)[Place(S, l)] = l
  BY <1>3, <1>4, <1>10
<1> QED BY <1>1, <1>3, <1>9, <1>10, <1>11

\* Where the record of a logical partition goes.
LEMMA RecordPlaces ==
  ASSUME NEW S, LaidOut(S), NEW l \in Logicals(S), NEW e \in Extended(S)
  PROVE  /\ RecordOf(S, l) \in Nat /\ e.start <= RecordOf(S, l) /\ RecordOf(S, l) < l.start
         /\ ChainHead(S) = e.start
         /\ Before(S, l) = {} => RecordOf(S, l) = e.start
         /\ \A q \in Before(S, l) : e.start < q.start /\ Last(q) < RecordOf(S, l)
<1>1. Extended(S) = {e}
  BY DEF LaidOut
<1>2. e.start < l.start /\ e.start \in Nat /\ l.start \in Nat /\ l.ebr \in Nat /\ e.num \in Nat
  <2>1. e \in Part /\ l \in Part
    BY DEF LaidOut, Extended, Logicals
  <2>2. e.start < l.start
    BY <1>1 DEF LaidOut, LogicalLayout
  <2> QED BY <2>1, <2>2, PartBounds
<1>3. ASSUME NEW q \in Before(S, l)
      PROVE  /\ e.start < q.start /\ q.start <= Last(q) /\ Last(q) < l.start - 1
             /\ Last(q) \in Nat /\ q.start \in Nat
  <2>1. q \in Logicals(S) /\ q.start < l.start
    BY DEF Before
  <2>2. q \in Part
    BY <2>1 DEF LaidOut, Logicals
  <2>3. e.start < q.start
    BY <1>1, <2>1 DEF LaidOut, LogicalLayout
  <2> QED BY <2>1, <2>2, <2>3, LogicalsInOrder, PartBounds
<1>4. ChainHead(S) = e.start
  BY <1>1, <1>2 DEF ChainHead
<1>5. CASE Before(S, l) = {}
  BY <1>2, <1>4, <1>5 DEF RecordOf
<1>6. CASE Before(S, l) # {} /\ l.ebr < l.start /\ \A q \in Before(S, l) : Last(q) < l.ebr
  <2>1. RecordOf(S, l) = l.ebr
    BY <1>6 DEF RecordOf
  <2>2. PICK q \in Before(S, l) : TRUE
    BY <1>6
  <2> QED BY <1>2, <1>3, <1>4, <1>6, <2>1, <2>2
<1>7. CASE Before(S, l) # {} /\ ~(l.ebr < l.start /\ \A q \in Before(S, l) : Last(q) < l.ebr)
  <2>1. RecordOf(S, l) = l.start - 1
    BY <1>7 DEF RecordOf
  <2>2. PICK q \in Before(S, l) : TRUE
    BY <1>7
  <2> QED BY <1>2, <1>3, <1>4, <1>7, <2>1, <2>2
<1> QED BY <1>5, <1>6, <1>7

-----------------------------------------------------------------------------
(* Reading a chain.                                                        *)

\* The links of the records on the disk are numbers.
Linked(d) == \A b \in Blocks : d[b].tag = "ebr" => d[b].next \in Nat

LEMMA FollowForward ==
  ASSUME NEW d, Linked(d), NEW e, e.start \in Nat, NEW b \in Nat, IsRecord(d, b)
  PROVE  Follow(d, e, b) \in Nat /\ b < Follow(d, e, b) /\ b \in Blocks
<1>1. NBlocks \in Nat /\ b < NBlocks /\ b \in Blocks /\ d[b].tag = "ebr"
  BY ImageAssumption DEF IsRecord, Blocks
<1>2. d[b].next \in Nat
  BY <1>1 DEF Linked
<1> QED BY <1>1, <1>2 DEF Follow

\* f gives the records reading finds from each block on, from block n up.
Walked(f, d, e, n) ==
  /\ f \in [Nat -> SUBSET Nat]
  /\ \A b \in Nat : b >= n => f[b] = IF IsRecord(d, b) THEN {b} \cup f[Follow(d, e, b)] ELSE {}

LEMMA WalkedDown ==
  ASSUME NEW d, Linked(d), NEW e, e.start \in Nat, NEW n \in Nat, NEW f, Walked(f, d, e, n + 1)
  PROVE  \E g : Walked(g, d, e, n)
<1> DEFINE v == IF IsRecord(d, n) THEN {n} \cup f[Follow(d, e, n)] ELSE {}
           g == [b \in Nat |-> IF b = n THEN v ELSE f[b]]
<1>1. f \in [Nat -> SUBSET Nat]
  BY DEF Walked
<1>2. v \in SUBSET Nat
  BY <1>1, FollowForward
<1>3. g \in [Nat -> SUBSET Nat]
  BY <1>1, <1>2
<1>4. ASSUME NEW b \in Nat, b >= n
      PROVE  g[b] = IF IsRecord(d, b) THEN {b} \cup g[Follow(d, e, b)] ELSE {}
  <2>1. IsRecord(d, b) => g[Follow(d, e, b)] = f[Follow(d, e, b)]
    BY <1>4, FollowForward
  <2>2. CASE b = n
    <3>1. g[b] = v
      BY <2>2
    <3> QED BY <2>1, <2>2, <3>1
  <2>3. CASE b # n
    <3>1. b >= n + 1 /\ g[b] = f[b]
      BY <1>4, <2>3
    <3>2. f[b] = IF IsRecord(d, b) THEN {b} \cup f[Follow(d, e, b)] ELSE {}
      BY <3>1 DEF Walked
    <3> HIDE DEF g
    <3> QED BY <2>1, <3>1, <3>2
  <2> QED BY <2>2, <2>3
<1> HIDE DEF g
<1>5. Walked(g, d, e, n)
  BY <1>3, <1>4 DEF Walked
<1> QED BY <1>5

LEMMA ChainWalk ==
  ASSUME NEW d, Linked(d), NEW e, e.start \in Nat
  PROVE  \E f : /\ Walked(f, d, e, 0)
                /\ ChainBlocks(d, e) =
                     {b \in f[e.start] : Cardinality({c \in f[e.start] : c < b}) < MaxRecords}
<1> DEFINE Body(f) == [b \in Nat |-> IF IsRecord(d, b) THEN {b} \cup f[Follow(d, e, b)] ELSE {}]
           S == {k \in Nat : k <= NBlocks => \E f : Walked(f, d, e, NBlocks - k)}
<1>0. NBlocks \in Nat
  BY ImageAssumption
<1>1. 0 \in S
  <2> DEFINE z == [b \in Nat |-> {}]
  <2>1. Walked(z, d, e, NBlocks)
    <3>1. z \in [Nat -> SUBSET Nat]
      OBVIOUS
    <3>2. \A b \in Nat : b >= NBlocks => ~IsRecord(d, b)
      BY <1>0 DEF IsRecord
    <3> QED BY <3>1, <3>2 DEF Walked
  <2>2. NBlocks - 0 = NBlocks
    BY <1>0
  <2> HIDE DEF z
  <2> QED BY <2>1, <2>2
<1>2. ASSUME NEW k \in Nat, k \in S PROVE k + 1 \in S
  <2> SUFFICES ASSUME k + 1 <= NBlocks PROVE \E f : Walked(f, d, e, NBlocks - (k + 1))
    OBVIOUS
  <2>1. PICK n \in Nat : n = NBlocks - (k + 1)
    BY <1>0
  <2>2. NBlocks - k = n + 1 /\ k <= NBlocks
    BY <2>1, <1>0
  <2>3. PICK f : Walked(f, d, e, n + 1)
    BY <1>2, <2>2
  <2>4. \E g : Walked(g, d, e, n)
    BY <2>3, WalkedDown
  <2> QED BY <2>1, <2>4
<1> HIDE DEF S
<1>3. NBlocks \in S
  BY <1>0, <1>1, <1>2, NatSet
<1>4. PICK f : Walked(f, d, e, 0)
  <2>1. NBlocks - NBlocks = 0
    BY <1>0
  <2> QED BY <1>0, <1>3, <2>1 DEF S
<1>5. f = Body(f)
  <2>1. f \in [Nat -> SUBSET Nat]
    BY <1>4 DEF Walked
  <2>2. \A b \in Nat : f[b] = IF IsRecord(d, b) THEN {b} \cup f[Follow(d, e, b)] ELSE {}
    BY <1>4 DEF Walked
  <2> QED BY <2>1, <2>2
<1> DEFINE h == CHOOSE g : g = Body(g)
<1>6. h = Body(h)
  <2> HIDE DEF Body
  <2> QED BY <1>5
<1>7. Walked(h, d, e, 0)
  <2>1. \A b \in Nat : h[b] = IF IsRecord(d, b) THEN {b} \cup h[Follow(d, e, b)] ELSE {}
    <3> HIDE DEF h
    <3> QED BY <1>6
  <2> DEFINE T == {k \in Nat : \A b \in Nat : b + k >= NBlocks => h[b] \in SUBSET Nat}
  <2>2. 0 \in T
    <3>1. \A b \in Nat : b >= NBlocks => h[b] = {}
      <4>1. \A b \in Nat : b >= NBlocks => ~IsRecord(d, b)
        BY <1>0 DEF IsRecord
      <4> HIDE DEF h
      <4> QED BY <2>1, <4>1
    <3>2. \A b \in Nat : b + 0 = b
      OBVIOUS
    <3> HIDE DEF h
    <3> QED BY <3>1, <3>2
  <2>3. ASSUME NEW k \in Nat, k \in T PROVE k + 1 \in T
    <3> SUFFICES ASSUME NEW b \in Nat, b + (k + 1) >= NBlocks PROVE h[b] \in SUBSET Nat
      OBVIOUS
    <3>1. CASE IsRecord(d, b)
      <4>1. Follow(d, e, b) \in Nat /\ Follow(d, e, b) + k >= NBlocks
        BY <3>1, <1>0, FollowForward
      <4>2. h[Follow(d, e, b)] \in SUBSET Nat
        BY <2>3, <4>1
      <4> HIDE DEF h
      <4> QED BY <2>1, <3>1, <4>2
    <3>2. CASE ~IsRecord(d, b)
      <4> HIDE DEF h
      <4> QED BY <2>1, <3>2
    <3> QED BY <3>1, <3>2
  <2> HIDE DEF T
  <2>4. NBlocks \in T
    BY <1>0, <2>2, <2>3, NatSet
  <2>5. \A b \in Nat : h[b] \in SUBSET Nat
    BY <2>4, <1>0 DEF T
  <2> HIDE DEF h
  <2>6. h \in [Nat -> SUBSET Nat]
    BY <1>6, <2>1, <2>5
  <2> QED BY <2>1, <2>6 DEF Walked
<1>8. ChainBlocks(d, e) = {b \in h[e.start] : Cardinality({c \in h[e.start] : c < b}) < MaxRecords}
  BY DEF ChainBlocks
<1> QED BY <1>7, <1>8

\* The k records r[1], r[2]... of a chain, each with a link to the next.
IsChain(d, e, r, k) ==
  /\ k \in Nat \ {0} /\ r \in [1..k -> Nat] /\ r[1] = e.start
  /\ \A i \in 1..k : IsRecord(d, r[i])
  /\ \A i \in 1..(k - 1) : Follow(d, e, r[i]) = r[i + 1] /\ r[i] < r[i + 1]
  /\ Follow(d, e, r[k]) = NBlocks

LEMMA ChainAscending ==
  ASSUME NEW d, NEW e, NEW r, NEW k, IsChain(d, e, r, k), NEW i \in 1..k, NEW j \in 1..k
  PROVE  i < j <=> r[i] < r[j]
<1> DEFINE S == {m \in Nat : \A a \in 1..k : a + m + 1 <= k => r[a] < r[a + m + 1]}
<1>0. k \in Nat /\ (\A a \in 1..k : r[a] \in Nat) /\ \A a \in 1..(k - 1) : r[a] < r[a + 1]
  BY DEF IsChain
<1>1. 0 \in S
  BY <1>0
<1>2. ASSUME NEW m \in Nat, m \in S PROVE m + 1 \in S
  <2> SUFFICES ASSUME NEW a \in 1..k, a + (m + 1) + 1 <= k PROVE r[a] < r[a + (m + 1) + 1]
    OBVIOUS
  <2>1. PICK c \in 1..(k - 1) : c = a + m + 1
    BY <1>0
  <2>2. r[a] < r[c] /\ r[c] < r[c + 1] /\ r[a] \in Nat /\ r[c] \in Nat /\ c + 1 \in 1..k
    BY <1>0, <1>2, <2>1
  <2>3. c + 1 = a + (m + 1) + 1 /\ r[c + 1] \in Nat
    BY <2>1, <2>2, <1>0
  <2>4. r[a] < r[c + 1]
    BY <2>2, <2>3
  <2> QED BY <2>3, <2>4
<1> HIDE DEF S
<1>3. \A m \in Nat : m \in S
  BY <1>1, <1>2, NatSet
<1>4. ASSUME NEW a \in 1..k, NEW b \in 1..k, a < b PROVE r[a] < r[b]
  <2>1. PICK m \in Nat : m = b - a - 1
    BY <1>0, <1>4
  <2>2. m \in S /\ a + m + 1 = b
    BY <1>3, <2>1
  <2> QED BY <2>2, <1>0 DEF S
<1>5. r[i] \in Nat /\ r[j] \in Nat /\ i \in Nat /\ j \in Nat
  BY <1>0
<1>6. i < j => r[i] < r[j]
  BY <1>4
<1>7. j < i => r[j] < r[i]
  BY <1>4
<1>8. i = j => r[i] = r[j]
  OBVIOUS
<1> QED BY <1>5, <1>6, <1>7, <1>8

RecordsOf(r, k) == {r[j] : j \in 1..k}
BelowOf(C, b)   == {c \in C : c < b}

\* As many records come before the i-th.
LEMMA CountChain ==
  ASSUME NEW d, NEW e, NEW r, NEW k, IsChain(d, e, r, k), NEW i \in 1..k
  PROVE  Cardinality(BelowOf(RecordsOf(r, k), r[i])) = i - 1
<1> DEFINE B == BelowOf(RecordsOf(r, k), r[i])
           f == [j \in 1..(i - 1) |-> r[j]]
<1>1. k \in Nat /\ i - 1 \in Nat /\ 1..(i - 1) \subseteq 1..k
  BY DEF IsChain
<1>2. \A j \in 1..k : r[j] < r[i] <=> j \in 1..(i - 1)
  <2> TAKE j \in 1..k
  <2>1. j < i <=> r[j] < r[i]
    BY ChainAscending
  <2>2. j \in 1..(i - 1) <=> j < i
    OBVIOUS
  <2> QED BY <2>1, <2>2
<1>3. B = {r[j] : j \in 1..(i - 1)}
  BY <1>1, <1>2 DEF BelowOf, RecordsOf
<1>4. ASSUME NEW a \in 1..(i - 1), NEW b \in 1..(i - 1), r[a] = r[b] PROVE a = b
  <2>1. a \in 1..k /\ b \in 1..k
    BY <1>1
  <2>2. (a < b <=> r[a] < r[b]) /\ (b < a <=> r[b] < r[a])
    BY <2>1, ChainAscending
  <2>3. r[a] \in Nat /\ r[b] \in Nat
    BY <2>1 DEF IsChain
  <2> QED BY <2>2, <2>3, <1>4
<1> HIDE DEF B
<1>5. f \in Bijection(1..(i - 1), B)
  BY <1>3, <1>4 DEF Bijection, Injection, Surjection, IsInjective
<1>6. ExistsBijection(1..(i - 1), B)
  BY <1>5 DEF ExistsBijection
<1>7. IsFiniteSet(1..(i - 1)) /\ Cardinality(1..(i - 1)) = i - 1
  BY <1>1, FS_Interval
<1>8. Cardinality(B) = i - 1
  BY <1>6, <1>7, FS_Bijection
<1> QED BY <1>8 DEF B

\* Reading finds the records of a chain.
LEMMA ChainFound ==
  ASSUME NEW d, Linked(d), NEW e, e.start \in Nat, NEW r, NEW k, IsChain(d, e, r, k),
         k <= MaxRecords
  PROVE  ChainBlocks(d, e) = RecordsOf(r, k)
<1> DEFINE C == RecordsOf(r, k)
<1>0. k \in Nat \ {0} /\ MaxRecords \in Nat /\ NBlocks \in Nat
  BY ImageAssumption DEF IsChain
<1>1. PICK f : /\ Walked(f, d, e, 0)
               /\ ChainBlocks(d, e) =
                    {b \in f[e.start] : Cardinality({c \in f[e.start] : c < b}) < MaxRecords}
  BY ChainWalk
<1>2. \A b \in Nat : f[b] = IF IsRecord(d, b) THEN {b} \cup f[Follow(d, e, b)] ELSE {}
  BY <1>1 DEF Walked
<1> DEFINE From(i) == {r[j] : j \in i..k}
           S == {m \in Nat : m < k => f[r[k - m]] = From(k - m)}
<1>3. 0 \in S
  <2>1. r[k] \in Nat /\ IsRecord(d, r[k]) /\ Follow(d, e, r[k]) = NBlocks
    BY <1>0 DEF IsChain
  <2>2. f[NBlocks] = {}
    <3>1. NBlocks \in Nat /\ ~IsRecord(d, NBlocks)
      BY <1>0 DEF IsRecord
    <3> QED BY <3>1, <1>2
  <2>3. f[r[k]] = {r[k]}
    BY <1>2, <2>1, <2>2
  <2>4. From(k) = {r[k]} /\ k - 0 = k
    BY <1>0
  <2> HIDE DEF From
  <2> QED BY <2>3, <2>4
<1>4. ASSUME NEW m \in Nat, m \in S PROVE m + 1 \in S
  <2> SUFFICES ASSUME m + 1 < k PROVE f[r[k - (m + 1)]] = From(k - (m + 1))
    OBVIOUS
  <2>1. PICK i \in 1..(k - 1) : i = k - (m + 1)
    BY <1>0
  <2>2. k - m = i + 1 /\ i \in 1..k
    BY <2>1, <1>0
  <2>3. f[r[i + 1]] = From(i + 1)
    <3>1. m < k
      BY <1>0
    <3>2. f[r[k - m]] = From(k - m)
      <4> HIDE DEF From
      <4> QED BY <1>4, <3>1
    <3> HIDE DEF From
    <3> QED BY <3>2, <2>2
  <2>4. r[i] \in Nat /\ IsRecord(d, r[i]) /\ Follow(d, e, r[i]) = r[i + 1]
    BY <2>2 DEF IsChain
  <2>5. f[r[i]] = {r[i]} \cup From(i + 1)
    BY <1>2, <2>3, <2>4
  <2>6. From(i) = {r[i]} \cup From(i + 1)
    <3>1. i..k = {i} \cup (i + 1)..k
      BY <2>2, <1>0
    <3> QED BY <3>1
  <2> HIDE DEF From
  <2> QED BY <2>1, <2>5, <2>6
<1> HIDE DEF S
<1>5. k - 1 \in S
  BY <1>0, <1>3, <1>4, NatSet
<1>6. f[e.start] = C
  <2>1. k - 1 < k /\ k - (k - 1) = 1
    BY <1>0
  <2>2. f[r[1]] = From(1)
    BY <1>5, <2>1 DEF S
  <2> QED BY <2>2 DEF IsChain, RecordsOf
<1>7. ASSUME NEW b \in C PROVE Cardinality({c \in C : c < b}) < MaxRecords
  <2>1. PICK i \in 1..k : b = r[i]
    BY DEF RecordsOf
  <2>2. Cardinality({c \in C : c < r[i]}) = i - 1
    BY CountChain DEF BelowOf
  <2> HIDE DEF C
  <2> QED BY <2>1, <2>2, <1>0
<1> HIDE DEF C
<1> QED BY <1>1, <1>6, <1>7 DEF C

\* Their partitions, in the order of the records, from number 5 on.
LEMMA ChainRead ==
  ASSUME NEW d, Linked(d), NEW e, e.start \in Nat, NEW r, NEW k, IsChain(d, e, r, k),
         k <= MaxRecords, NEW q, \A i \in 1..k : d[r[i]].part = {q[i]}
  PROVE  Chain(d, e) = {RecordPart(e, r[i], q[i], 4 + i) : i \in 1..k}
<1> DEFINE C == RecordsOf(r, k)
           P(i) == RecordPart(e, r[i], q[i], 4 + i)
<1>1. {b \in ChainBlocks(d, e) : d[b].part # {}} = C
  <2>1. ChainBlocks(d, e) = C
    BY ChainFound
  <2>2. \A b \in C : d[b].part # {}
    BY DEF RecordsOf
  <2> QED BY <2>1, <2>2
<1>2. Chain(d, e) = Numbered(d, e, C)
  BY <1>1 DEF Chain
<1>3. ASSUME NEW i \in 1..k
      PROVE  {RecordPart(e, r[i], x, 5 + Cardinality({c \in C : c < r[i]})) : x \in d[r[i]].part}
               = {P(i)}
  <2>1. Cardinality({c \in C : c < r[i]}) = i - 1
    BY CountChain DEF BelowOf
  <2>2. PICK n : n = 5 + Cardinality({c \in C : c < r[i]})
    OBVIOUS
  <2> HIDE DEF C
  <2>3. n = 4 + i
    BY <2>1, <2>2
  <2> QED BY <2>2, <2>3
<1> DEFINE F(b) == {RecordPart(e, b, x, 5 + Cardinality({c \in C : c < b})) : x \in d[b].part}
<1>4. Numbered(d, e, C) = UNION {F(b) : b \in C}
  BY DEF Numbered
<1>5. \A i \in 1..k : F(r[i]) = {P(i)}
  BY <1>3
<1> HIDE DEF F, P
<1>6. UNION {F(b) : b \in C} = {P(i) : i \in 1..k}
  BY <1>5 DEF RecordsOf
<1> QED BY <1>2, <1>4, <1>6 DEF P

-----------------------------------------------------------------------------
(* Writing a chain.                                                        *)

LEMMA PlaceOrder ==
  ASSUME NEW S, LaidOut(S), NEW l \in Logicals(S), NEW m \in Logicals(S)
  PROVE  /\ Place(S, l) < Place(S, m) <=> l.start < m.start
         /\ l.start < m.start => RecordOf(S, l) < RecordOf(S, m)
<1>1. l.start \in Nat /\ m.start \in Nat /\ Last(l) \in Nat /\ l.start <= Last(l)
  BY PartBounds DEF LaidOut, Logicals
<1>2. Place(S, l) \in Nat /\ Place(S, m) \in Nat
  BY BeforeFinite DEF Place, LaidOut
<1>3. l.start < m.start => Place(S, l) < Place(S, m)
  BY BeforeGrows, BeforeFinite DEF Place, LaidOut
<1>4. m.start < l.start => Place(S, m) < Place(S, l)
  BY BeforeGrows, BeforeFinite DEF Place, LaidOut
<1>5. l.start = m.start => Place(S, l) = Place(S, m)
  BY LogicalsInOrder
<1>6. ASSUME l.start < m.start PROVE RecordOf(S, l) < RecordOf(S, m)
  <2>1. PICK e \in Extended(S) : TRUE
    BY DEF LaidOut, LogicalLayout
  <2>2. RecordOf(S, l) \in Nat /\ RecordOf(S, l) < l.start /\ RecordOf(S, m) \in Nat
    BY <2>1, RecordPlaces
  <2>3. l \in Before(S, m)
    BY <1>6 DEF Before
  <2>4. Last(l) < RecordOf(S, m)
    BY <2>1, <2>3, RecordPlaces
  <2> QED BY <1>1, <2>2, <2>4
<1> QED BY <1>1, <1>2, <1>3, <1>4, <1>5, <1>6

\* The extended partition lies on the disk, after its first block.
ExtendedOnDisk(S) == \A e \in Extended(S) : 1 <= e.start /\ Last(e) < NBlocks

\* The records of logical partitions, in their order.
Records(S) == [i \in 1..Cardinality(Logicals(S)) |-> RecordOf(S, Sorted(S)[i])]

LEMMA RecordBlocks ==
  ASSUME NEW S, LaidOut(S), ExtendedOnDisk(S), NEW k, k = Cardinality(Logicals(S)), NEW i \in 1..k
  PROVE  /\ Records(S)[i] = RecordOf(S, Sorted(S)[i])
         /\ Records(S)[i] \in 1..(NBlocks - 1)
         /\ Sorted(S)[i] \in Logicals(S) /\ Place(S, Sorted(S)[i]) = i
         /\ \A e \in Extended(S) :
              /\ e.start <= Records(S)[i] /\ Records(S)[i] < Sorted(S)[i].start
              /\ Sorted(S)[i].start <= Last(e) /\ ChainHead(S) = e.start
              /\ i = 1 => Records(S)[i] = e.start
         /\ \A j \in 1..k : i < j => Records(S)[i] < Records(S)[j]
<1> DEFINE l == Sorted(S)[i]
<1>0. NBlocks \in Nat /\ k \in Nat
  BY ImageAssumption, SortedLogicals
<1>1. l \in Logicals(S) /\ Place(S, l) = i
  BY SortedLogicals
<1>2. Records(S)[i] = RecordOf(S, l)
  BY DEF Records
<1>3. PICK e \in Extended(S) : e.start < l.start /\ Last(l) <= Last(e)
  BY <1>1 DEF LaidOut, LogicalLayout
<1>4. Extended(S) = {e}
  BY DEF LaidOut
<1>5. e \in Part /\ l \in Part
  BY <1>1 DEF LaidOut, Extended, Logicals
<1>6. 1 <= e.start /\ Last(e) < NBlocks
  BY DEF ExtendedOnDisk
<1> HIDE DEF l
<1>7. /\ RecordOf(S, l) \in Nat /\ e.start <= RecordOf(S, l) /\ RecordOf(S, l) < l.start
      /\ ChainHead(S) = e.start /\ (Before(S, l) = {} => RecordOf(S, l) = e.start)
  BY <1>1, RecordPlaces
<1>8. i = 1 => Before(S, l) = {}
  <2>1. IsFiniteSet(Before(S, l)) /\ Cardinality(Before(S, l)) \in Nat
    BY BeforeFinite DEF LaidOut
  <2>2. i = 1 => Cardinality(Before(S, l)) = 0
    BY <2>1, <1>1 DEF Place
  <2> QED BY <2>1, <2>2, FS_EmptySet
<1>9. Records(S)[i] \in 1..(NBlocks - 1) /\ l.start <= Last(e)
  BY <1>0, <1>2, <1>3, <1>5, <1>6, <1>7, PartBounds
<1>10. ASSUME NEW j \in 1..k, i < j PROVE Records(S)[i] < Records(S)[j]
  <2>1. Sorted(S)[j] \in Logicals(S) /\ Place(S, Sorted(S)[j]) = j
    BY SortedLogicals
  <2>2. Records(S)[j] = RecordOf(S, Sorted(S)[j])
    BY DEF Records
  <2> QED BY <1>1, <1>2, <1>10, <2>1, <2>2, PlaceOrder
<1> QED BY <1>1, <1>2, <1>3, <1>4, <1>7, <1>8, <1>9, <1>10 DEF l

\* What the record of a logical partition says of it.
RecordEntry(S, i) ==
  [off |-> Sorted(S)[i].start - Records(S)[i], size |-> Sorted(S)[i].size,
   type |-> Sorted(S)[i].type, active |-> Sorted(S)[i].active]

LEMMA ChainOps ==
  ASSUME NEW S, LaidOut(S), ExtendedOnDisk(S), NEW k, k = Cardinality(Logicals(S))
  PROVE  /\ Extended(S) = {} => ChainWrites(S) = <<>>
         /\ Extended(S) # {} /\ k = 0 => ChainWrites(S) = <<Put(ChainHead(S), Record({}, 0))>>
         /\ k # 0 =>
              /\ Extended(S) # {}
              /\ ChainWrites(S) =
                   [i \in 1..k |-> Put(Records(S)[i], Record({RecordEntry(S, i)}, Link(S, i)))]
<1>1. k \in Nat /\ DOMAIN Sorted(S) = 1..k
  BY SortedLogicals
<1>2. \A i \in 1..k : Sorted(S)[i] \in Logicals(S)
  BY SortedLogicals
<1>3. Sorted(S) \in [1..k -> Logicals(S)]
  BY <1>1, <1>2 DEF Sorted
<1>4. Len(Sorted(S)) = k /\ (k = 0 => Sorted(S) = <<>>) /\ (k # 0 => Sorted(S) # <<>>)
  <2>1. Sorted(S) \in Seq(Logicals(S)) /\ Len(Sorted(S)) = k
    BY <1>1, <1>3
  <2> QED BY <2>1, EmptySeq
<1>5. ASSUME NEW i \in 1..k
      PROVE  Put(RecordOf(S, Sorted(S)[i]), ChainRecord(S, Sorted(S)[i], Link(S, i))) =
               Put(Records(S)[i], Record({RecordEntry(S, i)}, Link(S, i)))
  <2>1. Records(S)[i] = RecordOf(S, Sorted(S)[i])
    BY RecordBlocks
  <2> QED BY <2>1 DEF ChainRecord, RecordEntry
<1>6. k # 0 => Extended(S) # {}
  <2>1. k # 0 => 1 \in 1..k
    BY <1>1
  <2> QED BY <2>1, <1>2 DEF LaidOut, LogicalLayout
<1>7. ASSUME k # 0
      PROVE  ChainWrites(S) =
               [i \in 1..k |-> Put(Records(S)[i], Record({RecordEntry(S, i)}, Link(S, i)))]
  <2>1. ChainWrites(S) =
          [i \in 1..k |-> Put(RecordOf(S, Sorted(S)[i]), ChainRecord(S, Sorted(S)[i], Link(S, i)))]
    BY <1>4, <1>6, <1>7 DEF ChainWrites
  <2> QED BY <2>1, <1>5
<1>8. Extended(S) # {} /\ k = 0 => ChainWrites(S) = <<Put(ChainHead(S), Record({}, 0))>>
  BY <1>4 DEF ChainWrites
<1> QED BY <1>6, <1>7, <1>8 DEF ChainWrites

\* A block is as it was, or as the last write of it left it.
\* Of the writes of a block there is a last one.
LEMMA LastThere ==
  ASSUME NEW ops, NEW n \in Nat, NEW b, \E j \in 1..n : ops[j].at = b
  PROVE  \E i \in 1..n : ops[i].at = b /\ \A j \in 1..n : ops[j].at = b => j <= i
<1> DEFINE T == {m \in Nat : m < n /\ ops[n - m].at = b}
<1>1. T # {} /\ T \subseteq Nat
  <2>1. PICK j \in 1..n : ops[j].at = b
    OBVIOUS
  <2>2. n - j \in Nat /\ n - j < n /\ n - (n - j) = j
    OBVIOUS
  <2>3. n - j \in T
    BY <2>1, <2>2
  <2> QED BY <2>3
<1>2. PICK m \in T : \A k \in T : m <= k
  <2> HIDE DEF T
  <2> QED BY <1>1, LeastNatural
<1>3. PICK i \in 1..n : i = n - m
  OBVIOUS
<1>4. ops[i].at = b
  BY <1>2, <1>3
<1>5. ASSUME NEW j \in 1..n, ops[j].at = b PROVE j <= i
  <2>1. n - j \in Nat /\ n - j < n /\ n - (n - j) = j
    OBVIOUS
  <2>2. n - j \in T
    BY <2>1, <1>5
  <2>3. m <= n - j /\ m \in Nat
    BY <1>2, <2>2
  <2> QED BY <1>3, <2>3
<1> QED BY <1>4, <1>5

LEMMA SomeWrite ==
  ASSUME NEW d, NEW ops, NEW n \in Nat, DOMAIN ops = 1..n, NEW b \in Blocks
  PROVE  \/ AfterAll(d, ops)[b] = d[b] /\ \A i \in 1..n : ops[i].at # b
         \/ \E i \in 1..n : ops[i].at = b /\ AfterAll(d, ops)[b] = ops[i].block
<1>1. CASE \A j \in 1..n : ops[j].at # b
  BY <1>1, NotWritten
<1>2. CASE \E j \in 1..n : ops[j].at = b
  <2>1. PICK i \in 1..n : ops[i].at = b /\ \A j \in 1..n : ops[j].at = b => j <= i
    BY <1>2, LastThere
  <2>2. AfterAll(d, ops)[ops[i].at] = ops[i].block
    BY <2>1, LastWrite
  <2> QED BY <2>1, <2>2
<1> QED BY <1>1, <1>2

\* The writes of a chain go to blocks of the disk after the first, upwards.
Ascends(c, n) ==
  /\ n \in Nat /\ DOMAIN c = 1..n
  /\ \A i \in 1..n : /\ c[i].at \in 1..(NBlocks - 1)
                     /\ c[i].block.tag = "ebr" /\ c[i].block.next \in Nat
  /\ \A i, j \in 1..n : i < j => c[i].at < c[j].at

LEMMA LinkTo ==
  ASSUME NEW S, LaidOut(S), ExtendedOnDisk(S), NEW k, k = Cardinality(Logicals(S)), NEW i \in 1..k,
         NEW e \in Extended(S)
  PROVE  /\ Link(S, i) \in Nat
         /\ i < k => Link(S, i) = Records(S)[i + 1] - e.start /\ Link(S, i) # 0
                     /\ Link(S, i) < e.size
         /\ i = k => Link(S, i) = 0
<1>1. k \in Nat /\ Len(Sorted(S)) = k
  <2>1. k \in Nat /\ DOMAIN Sorted(S) = 1..k
    BY SortedLogicals
  <2>2. Sorted(S) \in [1..k -> {Sorted(S)[j] : j \in 1..k}]
    BY <2>1 DEF Sorted
  <2>3. Sorted(S) \in Seq({Sorted(S)[j] : j \in 1..k})
    BY <2>1, <2>2
  <2> QED BY <2>1, <2>2, <2>3
<1>2. i = k => Link(S, i) = 0
  BY <1>1 DEF Link
<1>3. ASSUME i < k
      PROVE  Link(S, i) = Records(S)[i + 1] - e.start /\ Link(S, i) # 0 /\ Link(S, i) < e.size
             /\ Link(S, i) \in Nat
  <2>1. i + 1 \in 1..k /\ i < i + 1
    BY <1>1, <1>3
  <2>2. Records(S)[i] < Records(S)[i + 1] /\ e.start <= Records(S)[i] /\ Records(S)[i] \in 1..(NBlocks - 1)
    BY <2>1, RecordBlocks
  <2>3. /\ Records(S)[i + 1] = RecordOf(S, Sorted(S)[i + 1]) /\ Records(S)[i + 1] \in 1..(NBlocks - 1)
        /\ Records(S)[i + 1] < Sorted(S)[i + 1].start /\ Sorted(S)[i + 1].start <= Last(e)
        /\ ChainHead(S) = e.start /\ Sorted(S)[i + 1] \in Logicals(S)
    BY <2>1, RecordBlocks
  <2>4. Link(S, i) = Records(S)[i + 1] - e.start
    BY <1>1, <1>3, <2>3 DEF Link
  <2>5. e \in Part /\ Sorted(S)[i + 1] \in Part
    BY <2>3 DEF LaidOut, Extended, Logicals
  <2>6. e.start \in Nat /\ e.size \in Nat /\ Last(e) = e.start + e.size - 1
        /\ Sorted(S)[i + 1].start \in Nat
    BY <2>5, PartBounds
  <2>7. NBlocks \in Nat
    BY ImageAssumption
  <2> QED BY <2>2, <2>3, <2>4, <2>6, <2>7
<1>4. i < k \/ i = k
  BY <1>1
<1> QED BY <1>2, <1>3, <1>4

LEMMA ChainGoesUp ==
  ASSUME NEW S, LaidOut(S), ExtendedOnDisk(S)
  PROVE  \E n : Ascends(ChainWrites(S), n) /\ IsPiece(ChainWrites(S), n)
<1> DEFINE k == Cardinality(Logicals(S))
           c == ChainWrites(S)
<1>1. k \in Nat
  BY SortedLogicals
<1>2. CASE Extended(S) = {}
  <2>1. c = <<>>
    BY <1>2, ChainOps
  <2>2. Ascends(<<>>, 0) /\ IsPiece(<<>>, 0)
    BY DEF Ascends, IsPiece
  <2> QED BY <2>1, <2>2
<1>3. CASE Extended(S) # {} /\ k = 0
  <2>1. c = <<Put(ChainHead(S), Record({}, 0))>>
    BY <1>3, ChainOps
  <2>2. PICK e \in Extended(S) : Extended(S) = {e}
    BY <1>3 DEF LaidOut
  <2>3. e.num \in Nat /\ e \in Part
    BY PartBounds DEF LaidOut, Extended
  <2>4. ChainHead(S) = e.start
    BY <2>2, <2>3 DEF ChainHead
  <2>5. e.start \in 1..(NBlocks - 1)
    BY <2>2, <2>3, PartBounds, ImageAssumption DEF ExtendedOnDisk
  <2> DEFINE o == Put(e.start, Record({}, 0))
  <2>6. o.at = e.start /\ o.block.tag = "ebr" /\ o.block.next = 0
    BY DEF Put, Record
  <2> HIDE DEF o
  <2>7. Ascends(<<o>>, 1) /\ IsPiece(<<o>>, 1)
    BY <2>5, <2>6 DEF Ascends, IsPiece
  <2> QED BY <2>1, <2>4, <2>7 DEF o
<1>4. CASE k # 0
  <2>1. /\ Extended(S) # {}
        /\ c = [i \in 1..k |-> Put(Records(S)[i], Record({RecordEntry(S, i)}, Link(S, i)))]
    BY <1>4, ChainOps
  <2>2. PICK e \in Extended(S) : TRUE
    BY <2>1
  <2>3. ASSUME NEW i \in 1..k
        PROVE  c[i].at = Records(S)[i] /\ c[i].block.tag = "ebr" /\ c[i].block.next = Link(S, i)
    BY <2>1 DEF Put, Record
  <2>4. ASSUME NEW i \in 1..k PROVE Link(S, i) \in Nat /\ Records(S)[i] \in 1..(NBlocks - 1)
    BY LinkTo, RecordBlocks
  <2>5. \A i, j \in 1..k : i < j => Records(S)[i] < Records(S)[j]
    BY RecordBlocks
  <2>6. DOMAIN c = 1..k /\ IsPiece(c, k)
    BY <2>1 DEF IsPiece
  <2> HIDE DEF c, k
  <2>7. Ascends(c, k)
    BY <1>1, <2>3, <2>4, <2>5, <2>6 DEF Ascends
  <2> QED BY <2>6, <2>7 DEF c
<1> QED BY <1>2, <1>3, <1>4

\* The writes of an MBR: the headers of an old GPT that lie in no partition of
\* S, then block 0, then the n writes of the chain c.
IsHeaderWipe(o, d, S) ==
  /\ o.block = Zero /\ o.at \in {1, NBlocks - 1}
  /\ Signed(d[o.at]) /\ ~InsidePartition(S, o.at)

WipesThenTable(w, d, S, c, n, m) ==
  /\ DOMAIN w = 1..(m + 1 + n) /\ IsPiece(w, m + 1 + n)
  /\ \A i \in 1..m : IsHeaderWipe(w[i], d, S)
  /\ \A i, j \in 1..m : NBlocks > 2 /\ w[i].at = w[j].at => i = j
  /\ \A b \in {1, NBlocks - 1} :
       b < NBlocks /\ Signed(d[b]) /\ ~InsidePartition(S, b) => \E i \in 1..m : w[i].at = b
  /\ w[m + 1].at = 0 /\ w[m + 1].block = Sector({Entry(p) : p \in NonLogical(S)})
  /\ \A i \in 1..n : w[m + 1 + i] = c[i]

LEMMA OneWipe ==
  ASSUME NEW d, NEW S, NEW b \in {1, NBlocks - 1}, NEW X, Put(b, Zero) \in X,
         NEW z, z = WipeHeader(d, S, b)
  PROVE  \E m \in 0..1 :
           /\ OpList(z, m, X)
           /\ \A i \in 1..m : IsHeaderWipe(z[i], d, S) /\ z[i].at = b
           /\ b < NBlocks /\ Signed(d[b]) /\ ~InsidePartition(S, b) => m = 1
<1>1. CASE ~(b < NBlocks /\ ~InsidePartition(S, b) /\ Signed(d[b]))
  <2>1. z = <<>>
    BY <1>1 DEF WipeHeader
  <2>2. OpList(<<>>, 0, X) /\ 0 \in 0..1 /\ \A i \in 1..0 : FALSE
    BY NoOps
  <2> QED BY <1>1, <2>1, <2>2
<1>2. CASE b < NBlocks /\ ~InsidePartition(S, b) /\ Signed(d[b])
  <2> DEFINE o == Put(b, Zero)
  <2>1. z = <<o>> /\ o.at = b /\ o.block = Zero /\ o \in X
    BY <1>2 DEF WipeHeader, Put
  <2>2. IsHeaderWipe(o, d, S)
    BY <1>2, <2>1 DEF IsHeaderWipe
  <2> HIDE DEF o
  <2>3. OpList(<<o>>, 1, X) /\ <<o>>[1] = o
    BY <2>1, OneOp
  <2>4. 1 \in 0..1 /\ \A i \in 1..1 : i = 1
    OBVIOUS
  <2> QED BY <2>1, <2>2, <2>3, <2>4
<1> QED BY <1>1, <1>2

LEMMA MbrOps ==
  ASSUME NEW d, NEW t, LaidOut(t.parts), ExtendedOnDisk(t.parts),
         NEW c, c = ChainWrites(t.parts), NEW n, n = Len(c)
  PROVE  /\ Ascends(c, n)
         /\ \E m \in Nat : \E w : w = MbrWrites(d, t) /\ WipesThenTable(w, d, t.parts, c, n, m)
<1> DEFINE S   == t.parts
           sec == Sector({Entry(p) : p \in NonLogical(S)})
           z1  == WipeHeader(d, S, 1)
           z2  == WipeHeader(d, S, NBlocks - 1)
           X   == {Put(b, Zero) : b \in Int} \cup {Put(0, sec)} \cup {c[i] : i \in 1..n}
<1>0. NBlocks \in Nat \ {0}
  BY ImageAssumption
<1>1. Ascends(c, n) /\ IsPiece(c, n)
  <2>1. PICK m : Ascends(c, m) /\ IsPiece(c, m)
    BY ChainGoesUp
  <2>2. c \in Seq({c[i] : i \in 1..m}) /\ Len(c) = m
    BY <2>1 DEF Ascends, IsPiece
  <2> QED BY <2>1, <2>2
<1>2. n \in Nat /\ OpList(c, n, X)
  <2>1. {c[i] : i \in 1..n} \subseteq X
    OBVIOUS
  <2> HIDE DEF X
  <2> QED BY <1>1, <2>1 DEF Ascends, IsPiece, OpList
<1> HIDE DEF X
<1>4. PICK m1 \in 0..1 :
        /\ OpList(z1, m1, X)
        /\ \A i \in 1..m1 : IsHeaderWipe(z1[i], d, S) /\ z1[i].at = 1
        /\ 1 < NBlocks /\ Signed(d[1]) /\ ~InsidePartition(S, 1) => m1 = 1
  <2>1. Put(1, Zero) \in X
    BY DEF X
  <2> QED BY <2>1, OneWipe
<1>5. PICK m2 \in 0..1 :
        /\ OpList(z2, m2, X)
        /\ \A i \in 1..m2 : IsHeaderWipe(z2[i], d, S) /\ z2[i].at = NBlocks - 1
        /\ NBlocks - 1 < NBlocks /\ Signed(d[NBlocks - 1]) /\ ~InsidePartition(S, NBlocks - 1)
             => m2 = 1
  <2>1. Put(NBlocks - 1, Zero) \in X
    BY <1>0 DEF X
  <2> QED BY <2>1, OneWipe
<1>6. Put(0, sec) \in X /\ Put(0, sec).at = 0 /\ Put(0, sec).block = sec
  BY DEF Put, X
<1>7. PICK u, v, w : IsJoin(u, z1, z2) /\ IsJoin(v, u, <<Put(0, sec)>>) /\ IsJoin(w, v, c)
  BY DEF IsJoin
<1>8. MbrWrites(d, t) = w
  BY <1>7 DEF MbrWrites, IsJoin
<1> HIDE DEF z1, z2
<1>9. OpList(<<Put(0, sec)>>, 1, X) /\ <<Put(0, sec)>>[1] = Put(0, sec)
  BY <1>6, OneOp
<1> DEFINE o == <<Put(0, sec)>>
<1> HIDE DEF o, sec
<1>10. PICK m \in Nat : m = m1 + m2
  OBVIOUS
<1>11. /\ OpList(u, m, X)
       /\ \A i \in 1..m1 : u[i] = z1[i]
       /\ \A i \in 1..m2 : u[m1 + i] = z2[i]
  <2>1. m1 \in Nat /\ m2 \in Nat
    OBVIOUS
  <2>4. OpList(z1, m1, X) /\ OpList(z2, m2, X) /\ IsJoin(u, z1, z2)
    BY <1>4, <1>5, <1>7
  <2>5. OpList(u, m1 + m2, X) /\ Begins(u, z1, m1) /\ Copied(u, m1, z2, m2)
    BY <2>1, <2>4, Joined
  <2>2. OpList(u, m, X) /\ (\A i \in 1..m1 : u[i] = z1[i]) /\ Copied(u, m1, z2, m2)
    BY <2>5, <1>10 DEF Begins
  <2> QED BY <2>2 DEF Copied
<1>12. OpList(v, m + 1, X) /\ (\A i \in 1..m : v[i] = u[i]) /\ v[m + 1].at = 0 /\ v[m + 1].block = sec
  <2>1. OpList(v, m + 1, X) /\ Begins(v, u, m) /\ Copied(v, m, o, 1)
    <3>1. OpList(u, m, X) /\ OpList(o, 1, X) /\ IsJoin(v, u, o)
      BY <1>7, <1>9, <1>11 DEF o
    <3>2. 1 \in Nat
      OBVIOUS
    <3> QED BY <3>1, <3>2, Joined
  <2>2. v[m + 1] = o[1]
    BY <2>1 DEF Copied
  <2>3. v[m + 1].at = 0 /\ v[m + 1].block = sec
    BY <2>2, <1>6, <1>9 DEF o
  <2>4. \A i \in 1..m : v[i] = u[i]
    BY <2>1 DEF Begins
  <2> QED BY <2>1, <2>3, <2>4
<1>13. /\ DOMAIN w = 1..(m + 1 + n) /\ IsPiece(w, m + 1 + n)
       /\ \A i \in 1..m : w[i] = u[i]
       /\ w[m + 1].at = 0 /\ w[m + 1].block = sec
       /\ \A i \in 1..n : w[m + 1 + i] = c[i]
  <2>1. m + 1 \in Nat
    OBVIOUS
  <2>6. OpList(w, (m + 1) + n, X) /\ Begins(w, v, m + 1) /\ Copied(w, m + 1, c, n)
    <3>1. OpList(v, m + 1, X) /\ OpList(c, n, X) /\ IsJoin(w, v, c) /\ n \in Nat
      BY <1>2, <1>7, <1>12
    <3> QED BY <2>1, <3>1, Joined
  <2>2. \A i \in 1..(m + 1) : w[i] = v[i]
    BY <2>6 DEF Begins
  <2>3. \A i \in 1..m : w[i] = u[i]
    BY <2>2, <1>12
  <2>4. w[m + 1].at = 0 /\ w[m + 1].block = sec
    BY <2>2, <1>12
  <2>5. DOMAIN w = 1..(m + 1 + n) /\ IsPiece(w, m + 1 + n)
    BY <2>6, ListedPiece
  <2>7. \A i \in 1..n : w[m + 1 + i] = c[i]
    BY <2>6 DEF Copied
  <2> QED BY <2>3, <2>4, <2>5, <2>7
<1>14. ASSUME NEW i \in 1..m
       PROVE  \/ i <= m1 /\ w[i] = z1[i] /\ i \in 1..m1 /\ i = 1
              \/ i > m1 /\ w[i] = z2[i - m1] /\ i - m1 \in 1..m2 /\ i = m1 + 1
  <2>1. CASE i <= m1
    <3>1. i \in 1..m1 /\ i = 1
      BY <2>1
    <3> QED BY <2>1, <3>1, <1>11, <1>13
  <2>2. CASE i > m1
    <3>1. i - m1 \in 1..m2 /\ m1 + (i - m1) = i /\ i = m1 + 1
      BY <2>2, <1>10
    <3>2. PICK a \in 1..m2 : a = i - m1
      BY <3>1
    <3>3. u[m1 + a] = z2[a]
      BY <1>11
    <3> QED BY <2>2, <3>1, <3>2, <3>3, <1>13
  <2> QED BY <2>1, <2>2
<1>15. ASSUME NEW i \in 1..m
       PROVE  IsHeaderWipe(w[i], d, S) /\ w[i].at = IF i <= m1 THEN 1 ELSE NBlocks - 1
  <2>1. CASE i <= m1
    <3>1. w[i] = z1[i] /\ i \in 1..m1
      BY <2>1, <1>14
    <3> QED BY <2>1, <3>1, <1>4
  <2>2. CASE i > m1
    <3>1. w[i] = z2[i - m1] /\ i - m1 \in 1..m2
      BY <2>2, <1>14
    <3>2. IsHeaderWipe(w[i], d, S) /\ w[i].at = NBlocks - 1
      BY <3>1, <1>5
    <3> QED BY <2>2, <3>2
  <2> QED BY <2>1, <2>2
<1>16. ASSUME NEW i \in 1..m, NEW j \in 1..m, NBlocks > 2, w[i].at = w[j].at
       PROVE  i = j
  <2>1. i <= m1 <=> j <= m1
    BY <1>0, <1>15, <1>16
  <2> QED BY <2>1, <1>14
<1>17. ASSUME NEW b \in {1, NBlocks - 1}, b < NBlocks, Signed(d[b]), ~InsidePartition(S, b)
       PROVE  \E i \in 1..m : w[i].at = b
  <2>1. CASE b = 1
    <3>1. m1 = 1 /\ 1 \in 1..m /\ 1 <= m1
      BY <1>4, <1>10, <1>17, <2>1
    <3> QED BY <2>1, <3>1, <1>15
  <2>2. CASE b = NBlocks - 1
    <3>1. m2 = 1 /\ m \in 1..m /\ m > m1
      BY <1>5, <1>10, <1>17, <2>2
    <3> QED BY <2>2, <3>1, <1>15
  <2> QED BY <2>1, <2>2
<1>18. WipesThenTable(w, d, S, c, n, m)
  BY <1>13, <1>15, <1>16, <1>17 DEF WipesThenTable, sec
<1> QED BY <1>1, <1>8, <1>18

\* What writing an MBR leaves on the disk: block 0, each record of the chain,
\* and elsewhere what was there or zeros.
LEMMA MbrBlocks ==
  ASSUME NEW d, NEW t, LaidOut(t.parts), ExtendedOnDisk(t.parts), NEW D, D = AfterAll(d, MbrWrites(d, t)),
         NEW c, c = ChainWrites(t.parts), NEW n, n = Len(c),
         NEW y, y = Sector({Entry(p) : p \in NonLogical(t.parts)})
  PROVE  /\ Ascends(c, n)
         /\ D[0] = y
         /\ \A i \in 1..n : D[c[i].at] = c[i].block
         /\ Linked(d) => Linked(D)
<1> DEFINE S   == t.parts
           sec == Sector({Entry(p) : p \in NonLogical(S)})
<1>0. NBlocks \in Nat \ {0}
  BY ImageAssumption
<1>1. Ascends(c, n) /\ n \in Nat
  BY MbrOps DEF Ascends
<1>7. PICK m \in Nat : \E w : w = MbrWrites(d, t) /\ WipesThenTable(w, d, S, c, n, m)
  BY MbrOps
<1>8. PICK w : w = MbrWrites(d, t) /\ WipesThenTable(w, d, S, c, n, m)
  BY <1>7
<1> HIDE DEF sec
<1>13. /\ DOMAIN w = 1..(m + 1 + n)
       /\ \A i \in 1..m : w[i].block = Zero
       /\ w[m + 1].at = 0 /\ w[m + 1].block = sec
       /\ \A i \in 1..n : w[m + 1 + i] = c[i]
  BY <1>8 DEF WipesThenTable, IsHeaderWipe, sec
<1>14. PICK N \in Nat : N = m + 1 + n
  BY <1>1
<1>15. ASSUME NEW j \in 1..N, j > m + 1
       PROVE  j - (m + 1) \in 1..n /\ w[j] = c[j - (m + 1)] /\ w[j].at \in 1..(NBlocks - 1)
              /\ w[j].block.tag = "ebr" /\ w[j].block.next \in Nat
  <2>1. j - (m + 1) \in 1..n /\ m + 1 + (j - (m + 1)) = j
    BY <1>1, <1>14, <1>15
  <2>2. w[j] = c[j - (m + 1)]
    BY <2>1, <1>13
  <2> QED BY <2>1, <2>2, <1>1 DEF Ascends
<1>16. D[0] = sec
  <2>1. m + 1 \in 1..N /\ w[m + 1].at = 0 /\ 0 \in Blocks
    BY <1>0, <1>1, <1>13, <1>14 DEF Blocks
  <2>2. ASSUME NEW j \in 1..N, w[j].at = w[m + 1].at PROVE j <= m + 1
    <3>1. ~(j > m + 1)
      BY <1>15, <2>1, <2>2
    <3> QED BY <3>1
  <2>3. AfterAll(d, w)[w[m + 1].at] = w[m + 1].block
    <3>1. DOMAIN w = 1..N
      BY <1>13, <1>14
    <3>2. PICK a \in 1..N : a = m + 1
      BY <2>1
    <3>3. w[a].at \in Blocks /\ \A j \in 1..N : w[j].at = w[a].at => j <= a
      BY <2>1, <2>2, <3>2
    <3>4. AfterAll(d, w)[w[a].at] = w[a].block
      BY <3>1, <3>3, LastWrite
    <3> QED BY <3>2, <3>4
  <2> QED BY <2>1, <2>3, <1>8, <1>13
<1>17. ASSUME NEW i \in 1..n PROVE D[c[i].at] = c[i].block
  <2>1. m + 1 + i \in 1..N /\ w[m + 1 + i] = c[i]
    BY <1>1, <1>13, <1>14
  <2>2. c[i].at \in Blocks /\ c[i].at \in Nat
    BY <1>0, <1>1 DEF Ascends, Blocks
  <2>3. ASSUME NEW j \in 1..N, w[j].at = w[m + 1 + i].at PROVE j <= m + 1 + i
    <3> SUFFICES ASSUME j > m + 1 + i PROVE FALSE
      OBVIOUS
    <3>1. j > m + 1
      OBVIOUS
    <3>2. j - (m + 1) \in 1..n /\ w[j] = c[j - (m + 1)]
      BY <3>1, <1>15
    <3>3. i < j - (m + 1)
      OBVIOUS
    <3>4. c[i].at < c[j - (m + 1)].at
      BY <3>2, <3>3, <1>1 DEF Ascends
    <3> QED BY <2>1, <2>2, <2>3, <3>2, <3>4
  <2>4. AfterAll(d, w)[w[m + 1 + i].at] = w[m + 1 + i].block
    <3>1. w[m + 1 + i].at \in Blocks
      BY <2>1, <2>2
    <3>2. DOMAIN w = 1..N
      BY <1>13, <1>14
    <3>3. PICK a \in 1..N : a = m + 1 + i
      BY <2>1
    <3>4. w[a].at \in Blocks /\ \A j \in 1..N : w[j].at = w[a].at => j <= a
      BY <3>1, <2>3, <3>3
    <3>5. AfterAll(d, w)[w[a].at] = w[a].block
      BY <3>2, <3>4, LastWrite
    <3> QED BY <3>3, <3>5
  <2> QED BY <2>1, <2>4, <1>8
<1>18. ASSUME Linked(d), NEW b \in Blocks, D[b].tag = "ebr" PROVE D[b].next \in Nat
  <2>1. CASE D[b] = d[b]
    BY <2>1, <1>18 DEF Linked
  <2>2. CASE \E i \in 1..N : w[i].at = b /\ D[b] = w[i].block
    <3>1. PICK i \in 1..N : D[b] = w[i].block
      BY <2>2
    <3>2. CASE i <= m
      <4>1. D[b] = Zero
        BY <3>1, <3>2, <1>13
      <4> QED BY <4>1, <1>18 DEF Zero
    <3>3. CASE i = m + 1
      <4>1. D[b].tag = "mbr"
        BY <3>1, <3>3, <1>13 DEF sec, Sector
      <4> QED BY <4>1, <1>18
    <3>4. CASE i > m + 1
      BY <3>1, <3>4, <1>15
    <3> QED BY <3>2, <3>3, <3>4
  <2> QED BY <2>1, <2>2, <1>8, <1>13, <1>14, SomeWrite
<1> QED BY <1>1, <1>16, <1>17, <1>18 DEF sec, Linked

\* Partitions without the places of their records, which only partmgr sees.
Bare(S) == {[p EXCEPT !.ebr = 0] : p \in S}

\* Logical partitions are numbered in disk order and have no names.
NumberedInOrder(S) ==
  \A l \in Logicals(S) : l.num = 5 + Cardinality(Before(S, l)) /\ l.name = "unnamed"

\* Every record reading finds in e is the first one or describes a partition, and
\* links to another such record or to none.
LinksAmong(D, e) ==
  LET S == {e.start} \cup {l.ebr : l \in Chain(D, e)}
  IN  \A b \in ChainBlocks(D, e) : b \in S /\ Follow(D, e, b) \in S \cup {NBlocks}

\* The chain of e on D is made of blocks of c, begins with one of them, and
\* reading it looks at no other block.
ChainLies(D, c, n, e) ==
  /\ \E i \in 1..n : c[i].at = e.start
  /\ \A l \in Chain(D, e) : l.role = "logical" /\ \E i \in 1..n : c[i].at = l.ebr
  /\ IsRecord(D, e.start) /\ LinksAmong(D, e)

\* The chain that is written is the one that is read.
LEMMA ChainReadBack ==
  ASSUME NEW S, LaidOut(S), ExtendedOnDisk(S), NumberedInOrder(S),
         NEW k, k = Cardinality(Logicals(S)), k <= MaxRecords,
         NEW c, c = ChainWrites(S), NEW n, Ascends(c, n),
         NEW D, Linked(D), \A i \in 1..n : D[c[i].at] = c[i].block,
         NEW x \in Extended(S), NEW e, e.start = x.start, e.size = x.size
  PROVE  Bare(Chain(D, e)) = Bare(Logicals(S)) /\ ChainLies(D, c, n, e)
<1>0. k \in Nat /\ NBlocks \in Nat /\ MaxRecords \in Nat \ {0}
  BY SortedLogicals, ImageAssumption
<1>1. x \in Part /\ Extended(S) = {x}
  BY DEF LaidOut, Extended
<1>2. e.start \in Nat /\ e.size \in Nat /\ Last(x) = e.start + e.size - 1 /\ 1 <= e.start
      /\ Last(x) < NBlocks /\ e.start < NBlocks /\ x.num \in Nat /\ Last(x) \in Nat
  BY <1>0, <1>1, PartBounds DEF ExtendedOnDisk
<1>3. CASE k = 0
  <2>1. Logicals(S) = {}
    <3>1. IsFiniteSet(Logicals(S))
      BY FS_Subset DEF LaidOut, Logicals
    <3> QED BY <3>1, <1>3, FS_EmptySet
  <2>2. c = <<Put(e.start, Record({}, 0))>>
    <3>1. ChainHead(S) = e.start
      BY <1>1, <1>2 DEF ChainHead
    <3> QED BY <3>1, <1>1, <1>3, ChainOps
  <2>3. 1 \in 1..n /\ c[1].at = e.start /\ c[1].block = Record({}, 0)
    <3>1. DOMAIN c = 1..1
      BY <2>2
    <3>2. 1 \in DOMAIN c /\ c[1] = Put(e.start, Record({}, 0))
      BY <2>2
    <3> QED BY <3>2 DEF Ascends, Put
  <2>4. D[e.start].tag = "ebr" /\ D[e.start].next = 0 /\ D[e.start].part = {}
    <3>1. D[e.start] = Record({}, 0)
      BY <2>3
    <3> QED BY <3>1 DEF Record
  <2> DEFINE r == [i \in 1..1 |-> e.start]
  <2>5. IsChain(D, e, r, 1)
    <3>1. IsRecord(D, e.start) /\ Follow(D, e, e.start) = NBlocks
      BY <2>4, <1>2 DEF IsRecord, Follow
    <3> QED BY <3>1, <1>2 DEF IsChain
  <2>6. RecordsOf(r, 1) = {e.start}
    BY DEF RecordsOf
  <2> HIDE DEF r
  <2>7. ChainBlocks(D, e) = {e.start}
    <3>1. 1 <= MaxRecords
      BY <1>0
    <3> QED BY <3>1, <1>2, <2>5, <2>6, ChainFound
  <2>8. {b \in ChainBlocks(D, e) : D[b].part # {}} = {}
    BY <2>4, <2>7
  <2>9. Chain(D, e) = {}
    BY <2>8 DEF Chain, Numbered
  <2>10. ChainLies(D, c, n, e)
    <3>1. IsRecord(D, e.start) /\ Follow(D, e, e.start) = NBlocks
      BY <1>2, <2>4 DEF IsRecord, Follow
    <3>2. LinksAmong(D, e)
      BY <2>7, <3>1 DEF LinksAmong
    <3> QED BY <2>3, <2>9, <3>1, <3>2 DEF ChainLies
  <2> QED BY <2>1, <2>9, <2>10 DEF Bare
<1>4. CASE k # 0
  <2> DEFINE r == Records(S)
             q == [i \in 1..k |-> RecordEntry(S, i)]
  <2>1. c = [i \in 1..k |-> Put(r[i], Record({RecordEntry(S, i)}, Link(S, i)))]
    BY <1>4, ChainOps
  <2>2. n = k
    <3>1. DOMAIN c = 1..k /\ DOMAIN c = 1..n /\ n \in Nat
      BY <2>1 DEF Ascends
    <3> QED BY <3>1, <1>0
  <2>3. ASSUME NEW i \in 1..k
        PROVE  D[r[i]].tag = "ebr" /\ D[r[i]].part = {RecordEntry(S, i)} /\ D[r[i]].next = Link(S, i)
    <3>1. c[i].at = r[i] /\ c[i].block = Record({RecordEntry(S, i)}, Link(S, i))
      BY <2>1 DEF Put
    <3>2. D[r[i]] = Record({RecordEntry(S, i)}, Link(S, i))
      BY <3>1, <2>2
    <3> QED BY <3>2 DEF Record
  <2>4. ASSUME NEW i \in 1..k
        PROVE  /\ r[i] \in 1..(NBlocks - 1) /\ e.start <= r[i] /\ (i = 1 => r[i] = e.start)
               /\ \A j \in 1..k : i < j => r[i] < r[j]
    BY <1>1, RecordBlocks
  <2>5. ASSUME NEW i \in 1..k
        PROVE  /\ Link(S, i) \in Nat
               /\ i < k => Link(S, i) = r[i + 1] - e.start /\ Link(S, i) # 0 /\ Link(S, i) < e.size
               /\ i = k => Link(S, i) = 0
    BY LinkTo
  <2>6. r \in [1..k -> Nat]
    <3>1. \A i \in 1..k : r[i] \in Nat
      BY <2>4
    <3>2. r = [i \in 1..k |-> RecordOf(S, Sorted(S)[i])]
      BY DEF Records
    <3> QED BY <3>1, <3>2
  <2> HIDE DEF r
  <2>7. \A i \in 1..k : IsRecord(D, r[i])
    BY <2>3, <2>4, <1>0 DEF IsRecord
  <2>8. ASSUME NEW i \in 1..(k - 1) PROVE Follow(D, e, r[i]) = r[i + 1] /\ r[i] < r[i + 1]
    <3>1. i \in 1..k /\ i + 1 \in 1..k /\ i < k /\ i < i + 1
      BY <1>0
    <3>2. r[i] < r[i + 1] /\ r[i] \in Nat /\ r[i + 1] \in Nat
      BY <3>1, <2>4
    <3>3. D[r[i]].next = r[i + 1] - e.start /\ D[r[i]].next # 0 /\ D[r[i]].next < e.size
      BY <3>1, <2>3, <2>5
    <3>4. e.start + (r[i + 1] - e.start) = r[i + 1]
      BY <3>2, <1>2
    <3> QED BY <3>2, <3>3, <3>4 DEF Follow
  <2>9. Follow(D, e, r[k]) = NBlocks
    <3>1. k \in 1..k
      BY <1>0, <1>4
    <3>2. D[r[k]].next = 0
      BY <3>1, <2>3, <2>5
    <3> QED BY <3>2 DEF Follow
  <2>10. IsChain(D, e, r, k)
    <3>1. r[1] = e.start /\ k \in Nat \ {0}
      BY <1>0, <1>4, <2>4
    <3> QED BY <3>1, <2>6, <2>7, <2>8, <2>9 DEF IsChain
  <2>11. \A i \in 1..k : D[r[i]].part = {q[i]}
    BY <2>3
  <2>12. Chain(D, e) = {RecordPart(e, r[i], q[i], 4 + i) : i \in 1..k}
    <3> HIDE DEF q
    <3> QED BY <2>10, <2>11, <1>2, ChainRead
  <2>13. ASSUME NEW i \in 1..k
         PROVE  [RecordPart(e, r[i], q[i], 4 + i) EXCEPT !.ebr = 0] = [Sorted(S)[i] EXCEPT !.ebr = 0]
    <3>1. PICK l : l = Sorted(S)[i]
      OBVIOUS
    <3>2. l \in Logicals(S) /\ Place(S, l) = i
      BY <3>1, RecordBlocks
    <3>3. l \in Part /\ l.role = "logical"
      BY <3>2 DEF LaidOut, Logicals
    <3>4. l.num = 4 + i /\ l.name = "unnamed"
      <4>1. Cardinality(Before(S, l)) \in Nat
        BY BeforeFinite DEF LaidOut
      <4> QED BY <3>2, <4>1 DEF NumberedInOrder, Place
    <3>5. q[i] = [off |-> l.start - r[i], size |-> l.size, type |-> l.type, active |-> l.active]
      BY <3>1 DEF RecordEntry, r
    <3>6. r[i] + (l.start - r[i]) = l.start
      <4>1. r[i] \in Int /\ l.start \in Int
        BY <2>6, <3>3 DEF Part
      <4> QED BY <4>1
    <3>7. RecordPart(e, r[i], q[i], 4 + i) =
            [num |-> l.num, role |-> "logical", start |-> l.start, size |-> l.size, type |-> l.type,
             active |-> l.active, ebr |-> r[i], name |-> l.name]
      BY <3>4, <3>5, <3>6 DEF RecordPart, AsPart
    <3>8. [l EXCEPT !.ebr = 0] =
            [num |-> l.num, role |-> "logical", start |-> l.start, size |-> l.size, type |-> l.type,
             active |-> l.active, ebr |-> 0, name |-> l.name]
      BY <3>3 DEF Part
    <3> QED BY <3>1, <3>7, <3>8
  <2>14. Logicals(S) = {Sorted(S)[i] : i \in 1..k}
    BY SortedLogicals
  <2> DEFINE P(i) == RecordPart(e, r[i], q[i], 4 + i)
             T(i) == Sorted(S)[i]
             B(p) == [p EXCEPT !.ebr = 0]
  <2>15. \A i \in 1..k : B(P(i)) = B(T(i))
    BY <2>13
  <2> HIDE DEF q, P, T, B
  <2>16. {B(p) : p \in {P(i) : i \in 1..k}} = {B(p) : p \in {T(i) : i \in 1..k}}
    <3>1. {B(p) : p \in {P(i) : i \in 1..k}} = {B(P(i)) : i \in 1..k}
      OBVIOUS
    <3>2. {B(p) : p \in {T(i) : i \in 1..k}} = {B(T(i)) : i \in 1..k}
      OBVIOUS
    <3>3. {B(P(i)) : i \in 1..k} = {B(T(i)) : i \in 1..k}
      BY <2>15
    <3> QED BY <3>1, <3>2, <3>3
  <2>17. Chain(D, e) = {P(i) : i \in 1..k} /\ Logicals(S) = {T(i) : i \in 1..k}
    BY <2>12, <2>14 DEF P, T
  <2>18. Bare(Chain(D, e)) = {B(p) : p \in Chain(D, e)}
         /\ Bare(Logicals(S)) = {B(p) : p \in Logicals(S)}
    BY DEF Bare, B
  <2>19. \A i \in 1..k : P(i).ebr = r[i] /\ P(i).role = "logical"
    BY DEF P, RecordPart, AsPart
  <2>20. \A i \in 1..k : c[i].at = r[i]
    <3> TAKE i \in 1..k
    <3>1. c[i] = Put(r[i], Record({RecordEntry(S, i)}, Link(S, i)))
      BY <2>1
    <3> QED BY ONLY <3>1 DEF Put
  <2>21. ChainLies(D, c, n, e)
    <3>1. 1 \in 1..n /\ k \in 1..k /\ c[1].at = e.start
      BY <1>0, <1>4, <2>2, <2>4, <2>20
    <3>2. \A l \in Chain(D, e) : l.role = "logical" /\ \E i \in 1..n : c[i].at = l.ebr
      BY <2>2, <2>17, <2>19, <2>20
    <3>3. IsRecord(D, e.start)
      <4>1. 1 \in 1..k
        BY <1>0, <1>4
      <4> QED BY <2>4, <2>7, <4>1
    <3>4. PICK E : E = {e.start} \cup {l.ebr : l \in Chain(D, e)}
      OBVIOUS
    <3>5. \A i \in 1..k : r[i] \in E
      BY <2>17, <2>19, <3>4
    <3>6. \A i \in 1..k : Follow(D, e, r[i]) \in E \cup {NBlocks}
      <4> TAKE i \in 1..k
      <4>1. CASE i = k
        BY <2>9, <4>1
      <4>2. CASE i # k
        <5>1. i \in 1..(k - 1) /\ i + 1 \in 1..k
          BY <1>0, <4>2
        <5>2. Follow(D, e, r[i]) = r[i + 1] /\ r[i + 1] \in E
          BY <2>8, <3>5, <5>1
        <5> QED BY <5>2
      <4> QED BY <4>1, <4>2
    <3>7. ChainBlocks(D, e) = RecordsOf(r, k)
      BY <1>2, <2>10, ChainFound
    <3>8. \A b \in ChainBlocks(D, e) : b \in E /\ Follow(D, e, b) \in E \cup {NBlocks}
      BY <3>5, <3>6, <3>7 DEF RecordsOf
    <3>9. LinksAmong(D, e)
      BY <3>4, <3>8 DEF LinksAmong
    <3> QED BY <3>1, <3>2, <3>3, <3>9 DEF ChainLies
  <2> QED BY <2>16, <2>17, <2>18, <2>21
<1> QED BY <1>3, <1>4

\* The partitions of an MBR as its reader can find them again: no names, one
\* extended partition, which its type tells, none of the protective type, and
\* no more logical ones than reading follows.
MbrTable(S) ==
  /\ LaidOut(S) /\ ExtendedOnDisk(S) /\ NumberedInOrder(S)
  /\ \A p \in NonLogical(S) : /\ p.name = "unnamed" /\ p.type # Protective
                              /\ p.role = "extended" <=> p.type \in ExtTypes
  /\ Cardinality(Logicals(S)) <= MaxRecords

\* Of the partitions T of block 0 and U of the chain on D: there is one
\* extended partition with this chain, or none.
OneChain(D, c, n, T, U) ==
  \/ Extended(T) = {} /\ U = {}
  \/ \E e : Extended(T) = {e} /\ U = Chain(D, e) /\ ChainLies(D, c, n, e)

\* An MBR written over anything reads back, its chain included.
LEMMA MbrReadBack ==
  ASSUME NEW d, Linked(d), NEW t, MbrTable(t.parts), NEW D, D = AfterAll(d, MbrWrites(d, t))
  PROVE  /\ Read(D).kind = "mbr" /\ Bare(Read(D).parts) = Bare(t.parts)
         /\ \E c, n, T, U :
              /\ c = ChainWrites(t.parts) /\ n = Len(c)
              /\ Read(D).parts = T \cup U /\ OneChain(D, c, n, T, U)
              /\ \A p \in T : p.role # "logical"
<1> DEFINE S    == t.parts
           role(e) == IF e.type \in ExtTypes THEN "extended" ELSE "primary"
           A(p) == AsPart(Entry(p), role(p), 0)
           top  == {AsPart(e, role(e), 0) : e \in D[0].entries}
<1>1. /\ LaidOut(S) /\ ExtendedOnDisk(S) /\ NumberedInOrder(S)
      /\ \A p \in NonLogical(S) : /\ p.name = "unnamed" /\ p.type # Protective
                                  /\ p.role = "extended" <=> p.type \in ExtTypes
      /\ Cardinality(Logicals(S)) <= MaxRecords
  BY DEF MbrTable
<1>0. PICK c, n : c = ChainWrites(S) /\ n = Len(c)
  OBVIOUS
<1>2. /\ Ascends(c, n)
      /\ D[0] = Sector({Entry(p) : p \in NonLogical(S)})
      /\ \A i \in 1..n : D[c[i].at] = c[i].block
      /\ Linked(D)
  <2>1. /\ LaidOut(t.parts) /\ ExtendedOnDisk(t.parts)
        /\ D = AfterAll(d, MbrWrites(d, t)) /\ c = ChainWrites(t.parts) /\ n = Len(c)
    BY <1>0, <1>1
  <2>2. PICK y : y = Sector({Entry(p) : p \in NonLogical(t.parts)})
    OBVIOUS
  <2>3. Ascends(c, n) /\ D[0] = y /\ (\A i \in 1..n : D[c[i].at] = c[i].block) /\ Linked(D)
    BY ONLY <2>1, <2>2, Linked(d), MbrBlocks
  <2> QED BY <2>2, <2>3
<1>3. D[0].tag = "mbr" /\ D[0].entries = {Entry(p) : p \in NonLogical(S)}
  BY <1>2 DEF Sector
<1>4. \A p \in NonLogical(S) : p \in Part /\ p.role \in {"primary", "extended"}
  BY <1>1 DEF LaidOut, NonLogical, Part, Roles
<1>5. \A p \in NonLogical(S) : Entry(p).type = p.type /\ role(Entry(p)) = p.role
  BY <1>1, <1>4 DEF Entry
<1>6. Read(D) = ReadMbr(D)
  <2>1. ~\E e \in D[0].entries : e.type = Protective
    BY <1>1, <1>3, <1>5
  <2> QED BY <1>3, <2>1 DEF Read
<1>7. ReadMbr(D).kind = "mbr" /\ ReadMbr(D).parts = top \cup UNION {Chain(D, e) : e \in FirstExtended(top)}
  BY DEF ReadMbr, NoTable
<1>8. ASSUME NEW p \in NonLogical(S)
      PROVE  /\ A(p).role = p.role /\ A(p).start = p.start /\ A(p).size = p.size /\ A(p).num = p.num
             /\ [A(p) EXCEPT !.ebr = 0] = [p EXCEPT !.ebr = 0]
             /\ A(p) = AsPart(Entry(p), role(Entry(p)), 0)
  <2>1. role(p) = p.role /\ role(Entry(p)) = p.role /\ p.name = "unnamed" /\ p \in Part
    BY <1>1, <1>4, <1>5
  <2>2. A(p) = [num |-> p.num, role |-> p.role, start |-> p.start, size |-> p.size, type |-> p.type,
                active |-> p.active, ebr |-> 0, name |-> p.name]
    BY <2>1 DEF AsPart, Entry
  <2>3. [p EXCEPT !.ebr = 0] =
          [num |-> p.num, role |-> p.role, start |-> p.start, size |-> p.size, type |-> p.type,
           active |-> p.active, ebr |-> 0, name |-> p.name]
    BY <2>1 DEF Part
  <2>4. A(p) = AsPart(Entry(p), role(Entry(p)), 0)
    BY <2>1
  <2> QED BY <2>2, <2>3, <2>4
<1>9. top = {A(p) : p \in NonLogical(S)}
  <2> DEFINE G(e) == AsPart(e, role(e), 0)
  <2>1. top = {G(e) : e \in {Entry(p) : p \in NonLogical(S)}}
    BY <1>3
  <2>2. \A p \in NonLogical(S) : G(Entry(p)) = A(p)
    BY <1>8
  <2> HIDE DEF G, A, top
  <2> QED BY <2>1, <2>2
<1> HIDE DEF A, top
<1>10. Bare(top) = Bare(NonLogical(S))
  <2> DEFINE B(p) == [p EXCEPT !.ebr = 0]
  <2>1. \A p \in NonLogical(S) : B(A(p)) = B(p)
    BY <1>8
  <2>2. Bare(top) = {B(p) : p \in top} /\ Bare(NonLogical(S)) = {B(p) : p \in NonLogical(S)}
    BY DEF Bare
  <2> HIDE DEF B
  <2>3. {B(p) : p \in {A(q) : q \in NonLogical(S)}} = {B(A(q)) : q \in NonLogical(S)}
    OBVIOUS
  <2>4. {B(A(q)) : q \in NonLogical(S)} = {B(q) : q \in NonLogical(S)}
    BY <2>1
  <2> QED BY <1>9, <2>2, <2>3, <2>4
<1>11. /\ Bare(UNION {Chain(D, e) : e \in FirstExtended(top)}) = Bare(Logicals(S))
       /\ OneChain(D, c, n, top, UNION {Chain(D, e) : e \in FirstExtended(top)})
  <2>1. \A p : p \in Extended(S) => p \in NonLogical(S) /\ p.role = "extended"
    BY DEF Extended, NonLogical
  <2>2. CASE Extended(S) = {}
    <3>1. Extended(top) = {}
      <4>1. \A p \in NonLogical(S) : A(p).role # "extended"
        <5>1. \A p \in NonLogical(S) : p.role # "extended"
          BY <2>2 DEF Extended, NonLogical
        <5> QED BY <5>1, <1>8
      <4> QED BY <4>1, <1>9 DEF Extended
    <3>2. {Chain(D, e) : e \in FirstExtended(top)} = {}
      BY <3>1 DEF FirstExtended
    <3>3. Logicals(S) = {}
      BY <1>1, <2>2 DEF LaidOut, LogicalLayout
    <3>4. UNION {Chain(D, e) : e \in FirstExtended(top)} = {}
      BY <3>2
    <3> QED BY <3>1, <3>3, <3>4 DEF OneChain
  <2>3. CASE Extended(S) # {}
    <3>1. PICK x \in Extended(S) : Extended(S) = {x}
      BY <1>1, <2>3 DEF LaidOut
    <3>2. x \in NonLogical(S) /\ A(x).role = "extended" /\ A(x).start = x.start /\ A(x).size = x.size
          /\ A(x).num = x.num /\ x.num \in Nat
      BY <1>4, <1>8, <2>1, PartBounds
    <3>3. Extended(top) = {A(x)}
      <4>1. A(x) \in Extended(top)
        BY <3>2, <1>9 DEF Extended
      <4>2. \A p \in NonLogical(S) : A(p).role = "extended" => p = x
        BY <3>1, <1>8 DEF Extended, NonLogical
      <4>3. \A e \in Extended(top) : \E p \in NonLogical(S) : e = A(p) /\ A(p).role = "extended"
        BY <1>9 DEF Extended
      <4> QED BY <4>1, <4>2, <4>3
    <3>4. FirstExtended(top) = {A(x)}
      BY <3>2, <3>3 DEF FirstExtended
    <3>5. Bare(Chain(D, A(x))) = Bare(Logicals(S)) /\ ChainLies(D, c, n, A(x))
      <4>1. PICK k : k = Cardinality(Logicals(S)) /\ k <= MaxRecords
        BY <1>1
      <4> HIDE DEF S
      <4> QED BY <1>0, <1>1, <1>2, <3>2, <4>1, ChainReadBack
    <3>6. UNION {Chain(D, e) : e \in FirstExtended(top)} = Chain(D, A(x))
      BY <3>4
    <3> QED BY <3>3, <3>5, <3>6 DEF OneChain
  <2> QED BY <2>2, <2>3
<1>12. Bare(ReadMbr(D).parts) = Bare(S)
  <2> DEFINE U == UNION {Chain(D, e) : e \in FirstExtended(top)}
             B(p) == [p EXCEPT !.ebr = 0]
  <2>1. S = NonLogical(S) \cup Logicals(S)
    BY DEF NonLogical, Logicals
  <2>2. \A X : Bare(X) = {B(p) : p \in X}
    BY DEF Bare
  <2> HIDE DEF U, B, S
  <2>3. \A X, Y : Bare(X \cup Y) = Bare(X) \cup Bare(Y)
    BY <2>2
  <2>4. Bare(U) = Bare(Logicals(S)) /\ ReadMbr(D).parts = top \cup U
    BY <1>7, <1>11 DEF U
  <2>5. Bare(ReadMbr(D).parts) = Bare(top) \cup Bare(U)
    BY <2>3, <2>4
  <2>6. Bare(S) = Bare(NonLogical(S)) \cup Bare(Logicals(S))
    BY <2>1, <2>3
  <2> QED BY <1>10, <2>4, <2>5, <2>6
<1>13. \A p \in top : p.role # "logical"
  BY <1>4, <1>8, <1>9
<1>14. \E T, U : Read(D).parts = T \cup U /\ OneChain(D, c, n, T, U) /\ \A p \in T : p.role # "logical"
  BY <1>6, <1>7, <1>11, <1>13
<1> QED BY <1>0, <1>6, <1>7, <1>12, <1>14

\* The writes that delete a table.
LEMMA EraseOps ==
  ASSUME NBlocks > 2
  PROVE  \E w : /\ w = EraseWrites /\ DOMAIN w = 1..3 /\ IsPiece(w, 3)
                /\ w[1].at = 0 /\ w[1].block = Zero
                /\ w[2].at = 1 /\ w[2].block = Zero
                /\ w[3].at = NBlocks - 1 /\ w[3].block = Zero
<1> DEFINE a == Put(0, Zero)
           b == Put(1, Zero)
           e == Put(NBlocks - 1, Zero)
<1>1. PICK w : IsJoin(w, <<a>>, <<b, e>>) /\ EraseWrites = w
  BY DEF EraseWrites, IsJoin
<1>2. /\ a.at = 0 /\ a.block = Zero
      /\ b.at = 1 /\ b.block = Zero
      /\ e.at = NBlocks - 1 /\ e.block = Zero
  BY DEF Put
<1> HIDE DEF a, b, e
<1>3. DOMAIN w = 1..3 /\ IsPiece(w, 3) /\ w[1] = a /\ w[2] = b /\ w[3] = e
  <2>1. PICK m, n : m \in Nat /\ n \in Nat /\ m = 1 /\ n = 2
    OBVIOUS
  <2>2. PICK s, t, X : s = <<a>> /\ t = <<b, e>> /\ X = {a, b, e}
    OBVIOUS
  <2>3. OpList(s, m, X) /\ OpList(t, n, X)
    BY <2>1, <2>2 DEF OpList
  <2>4. OpList(w, m + n, X) /\ Begins(w, s, m) /\ Copied(w, m, t, n)
    <3>1. IsJoin(w, s, t)
      BY <1>1, <2>2
    <3> QED BY <2>1, <2>3, <3>1, Joined
  <2>5. DOMAIN w = 1..3 /\ IsPiece(w, 3)
    <3>1. m + n = 3
      BY <2>1
    <3> QED BY <2>4, <3>1, ListedPiece
  <2>6. w[1] = s[1]
    BY <2>1, <2>4 DEF Begins
  <2>7. w[1 + 1] = t[1] /\ w[1 + 2] = t[2]
    BY <2>1, <2>4 DEF Copied
  <2> QED BY <2>2, <2>5, <2>6, <2>7
<1> QED BY <1>1, <1>2, <1>3

\* A disk without a table reads as one.
LEMMA EraseReadBack ==
  ASSUME NEW d, NBlocks > 2, NEW D, D = AfterAll(d, EraseWrites)
  PROVE  D[0] = Zero /\ D[1] = Zero /\ D[NBlocks - 1] = Zero /\ Read(D) = NoTable(FALSE)
<1>0. NBlocks \in Nat /\ 0 \in Blocks /\ 1 \in Blocks /\ NBlocks - 1 \in Blocks
  BY ImageAssumption DEF Blocks
<1>1. PICK w : /\ w = EraseWrites /\ DOMAIN w = 1..3
               /\ w[1].at = 0 /\ w[1].block = Zero
               /\ w[2].at = 1 /\ w[2].block = Zero
               /\ w[3].at = NBlocks - 1 /\ w[3].block = Zero
  BY EraseOps
<1>4. \A i \in 1..3 : i = 1 \/ i = 2 \/ i = 3
  OBVIOUS
<1>5. ASSUME NEW i \in 1..3 PROVE AfterAll(d, w)[w[i].at] = w[i].block
  <2>1. w[i].at \in Blocks
    BY <1>0, <1>1, <1>4
  <2>2. \A j \in 1..3 : w[j].at = w[i].at => j <= i
    BY <1>0, <1>1, <1>4
  <2>3. PICK n \in Nat : n = 3
    OBVIOUS
  <2>4. DOMAIN w = 1..n /\ i \in 1..n /\ \A j \in 1..n : w[j].at = w[i].at => j <= i
    BY <1>1, <2>2, <2>3
  <2> QED BY <2>1, <2>4, LastWrite
<1>6. D[0] = Zero /\ D[1] = Zero /\ D[NBlocks - 1] = Zero
  BY <1>1, <1>5
<1>7. Zero.tag = "zero"
  BY DEF Zero
<1> QED BY <1>6, <1>7 DEF Read, Signed

-----------------------------------------------------------------------------
(* What a write may assume of its table (EditingProofs shows that edits      *)
(* make only such).                                                        *)

\* No partition shares a block with another, the extended one with a primary
\* one only for what is inside, and all lie on the disk after block 0.
Separate(S) ==
  /\ \A p \in S : 1 <= p.start /\ Last(p) < NBlocks
  /\ \A p \in S, e \in Extended(S) : p.role = "primary" => ~Overlaps(p.start, Last(p), e.start, Last(e))

\* A table the user can make: a GPT has no chain, an MBR is one its reader can
\* find again.
TableFits(t) ==
  /\ t.kind \in {"none", "mbr", "gpt"} /\ t.parts \in SUBSET Part
  /\ t.first \in Nat /\ t.last \in Nat
  /\ t.kind = "none" => t.parts = {}
  /\ t.kind = "gpt" => \A p \in t.parts : p.ebr = 0 /\ p.role = "primary"
  /\ t.kind = "mbr" => MbrTable(t.parts) /\ Separate(t.parts)

-----------------------------------------------------------------------------
(* What is on a disk.                                                      *)

SectorEntries == [num : Nat, start : Nat, size : Nat \ {0}, type : Nat, active : BOOLEAN]
RecordEntries == [off : Nat, size : Nat \ {0}, type : Nat, active : BOOLEAN]

Plain       == {Zero, Data, BadGpt}
MbrSectors  == [tag : {"mbr"}, entries : SUBSET SectorEntries]
BootRecords == [tag : {"ebr"}, part : SUBSET RecordEntries, next : Nat]
ArrayParts  == [tag : {"array"}, parts : SUBSET Part, at : Nat]

\* No header gives block 0, which has the MBR, as the place of its array or of
\* the other copy.
GptHeaders  ==
  [tag : {"gpt"}, my : Nat, alt : Nat \ {0}, ents : Nat \ {0}, first : Nat, last : Nat,
   parts : SUBSET Part]

Contents == Plain \cup MbrSectors \cup BootRecords \cup ArrayParts \cup GptHeaders

LEMMA Tags ==
  ASSUME NEW x \in Contents
  PROVE  /\ x.tag = "mbr" => x \in MbrSectors
         /\ x.tag = "ebr" => x \in BootRecords
         /\ x.tag = "array" => x \in ArrayParts
         /\ x.tag = "gpt" => x \in GptHeaders
BY DEF Contents, Plain, Zero, Data, BadGpt, MbrSectors, BootRecords, ArrayParts, GptHeaders

LEMMA LinkedDisk == ASSUME NEW d \in [Blocks -> Contents] PROVE Linked(d)
<1>1. ASSUME NEW b \in Blocks, d[b].tag = "ebr" PROVE d[b].next \in Nat
  <2>1. d[b] \in Contents
    OBVIOUS
  <2>2. d[b] \in BootRecords
    BY <1>1, <2>1, Tags
  <2> QED BY <2>2 DEF BootRecords
<1> QED BY <1>1 DEF Linked

\* Reading follows records of the disk only.
LEMMA WalkedRecords ==
  ASSUME NEW d, Linked(d), NEW e, e.start \in Nat, NEW f, Walked(f, d, e, 0)
  PROVE  \A b \in Nat : f[b] \subseteq {c \in Blocks : d[c].tag = "ebr"}
<1> DEFINE R == {c \in Blocks : d[c].tag = "ebr"}
           S == {k \in Nat : \A b \in Nat : b + k >= NBlocks => f[b] \subseteq R}
<1>0. NBlocks \in Nat
  BY ImageAssumption
<1>1. \A b \in Nat : f[b] = IF IsRecord(d, b) THEN {b} \cup f[Follow(d, e, b)] ELSE {}
  BY DEF Walked
<1>2. 0 \in S
  <2>1. ASSUME NEW b \in Nat, b + 0 >= NBlocks PROVE f[b] \subseteq R
    <3>1. ~IsRecord(d, b)
      BY <2>1, <1>0 DEF IsRecord
    <3> QED BY <3>1, <1>1
  <2> QED BY <2>1
<1>3. ASSUME NEW k \in Nat, k \in S PROVE k + 1 \in S
  <2>1. ASSUME NEW b \in Nat, b + (k + 1) >= NBlocks PROVE f[b] \subseteq R
    <3>1. CASE IsRecord(d, b)
      <4>1. Follow(d, e, b) \in Nat /\ b < Follow(d, e, b) /\ b \in Blocks
        BY <3>1, FollowForward
      <4>2. PICK g \in Nat : g = Follow(d, e, b)
        BY <4>1
      <4>3. g + k >= NBlocks
        BY <4>1, <4>2, <2>1, <1>0
      <4>4. f[g] \subseteq R
        BY <4>3, <1>3
      <4>5. b \in R
        BY <3>1, <4>1 DEF IsRecord
      <4> QED BY <3>1, <4>2, <4>4, <4>5, <1>1
    <3>2. CASE ~IsRecord(d, b)
      BY <3>2, <1>1
    <3> QED BY <3>1, <3>2
  <2> QED BY <2>1
<1> HIDE DEF S
<1>4. NBlocks \in S
  BY <1>0, <1>2, <1>3, NatSet
<1>5. \A b \in Nat : b + NBlocks >= NBlocks
  BY <1>0
<1> QED BY <1>4, <1>5 DEF S

LEMMA ChainRecords ==
  ASSUME NEW d, Linked(d), NEW e, e.start \in Nat
  PROVE  ChainBlocks(d, e) \subseteq {c \in Blocks : d[c].tag = "ebr"}
<1>1. PICK f : /\ Walked(f, d, e, 0)
               /\ ChainBlocks(d, e) =
                    {b \in f[e.start] : Cardinality({c \in f[e.start] : c < b}) < MaxRecords}
  BY ChainWalk
<1>2. f[e.start] \subseteq {c \in Blocks : d[c].tag = "ebr"}
  BY <1>1, WalkedRecords
<1> QED BY <1>1, <1>2

\* The same records give the same chain.
LEMMA WalkedOnce ==
  ASSUME NEW d, Linked(d), NEW e, e.start \in Nat, NEW f, Walked(f, d, e, 0),
         NEW g, Walked(g, d, e, 0)
  PROVE  f = g
<1> DEFINE S == {k \in Nat : \A b \in Nat : b + k >= NBlocks => f[b] = g[b]}
<1>0. NBlocks \in Nat
  BY ImageAssumption
<1>1. \A b \in Nat : /\ f[b] = IF IsRecord(d, b) THEN {b} \cup f[Follow(d, e, b)] ELSE {}
                     /\ g[b] = IF IsRecord(d, b) THEN {b} \cup g[Follow(d, e, b)] ELSE {}
  BY DEF Walked
<1>2. 0 \in S
  <2>1. ASSUME NEW b \in Nat, b + 0 >= NBlocks PROVE f[b] = g[b]
    <3>1. ~IsRecord(d, b)
      BY <2>1, <1>0 DEF IsRecord
    <3> QED BY <3>1, <1>1
  <2> QED BY <2>1
<1>3. ASSUME NEW k \in Nat, k \in S PROVE k + 1 \in S
  <2>1. ASSUME NEW b \in Nat, b + (k + 1) >= NBlocks PROVE f[b] = g[b]
    <3>1. CASE IsRecord(d, b)
      <4>1. Follow(d, e, b) \in Nat /\ b < Follow(d, e, b) /\ b \in Blocks
        BY <3>1, FollowForward
      <4>2. PICK n \in Nat : n = Follow(d, e, b)
        BY <4>1
      <4>3. n + k >= NBlocks
        BY <4>1, <4>2, <2>1, <1>0
      <4>4. f[n] = g[n]
        BY <4>3, <1>3
      <4> QED BY <3>1, <4>2, <4>4, <1>1
    <3>2. CASE ~IsRecord(d, b)
      BY <3>2, <1>1
    <3> QED BY <3>1, <3>2
  <2> QED BY <2>1
<1> HIDE DEF S
<1>4. NBlocks \in S
  BY <1>0, <1>2, <1>3, NatSet
<1>5. \A b \in Nat : b + NBlocks >= NBlocks
  BY <1>0
<1>6. \A b \in Nat : f[b] = g[b]
  BY <1>4, <1>5 DEF S
<1> QED BY <1>6 DEF Walked

\* Two disks with the same records.
SameRecords(d, x) ==
  \A b \in Blocks : (d[b].tag = "ebr" \/ x[b].tag = "ebr") => d[b] = x[b]

LEMMA SameChain ==
  ASSUME NEW d, Linked(d), NEW x, Linked(x), SameRecords(d, x), NEW e, e.start \in Nat
  PROVE  Chain(d, e) = Chain(x, e)
<1>0. NBlocks \in Nat
  BY ImageAssumption
<1>1. \A b \in Nat : IsRecord(d, b) <=> IsRecord(x, b)
  BY <1>0 DEF SameRecords, IsRecord, Blocks
<1>2. \A b \in Nat : IsRecord(d, b) => d[b] = x[b]
  BY <1>0 DEF SameRecords, IsRecord, Blocks
<1>3. \A b \in Nat : IsRecord(d, b) => Follow(d, e, b) = Follow(x, e, b)
  BY <1>2 DEF Follow
<1>4. PICK f : /\ Walked(f, d, e, 0)
               /\ ChainBlocks(d, e) =
                    {b \in f[e.start] : Cardinality({c \in f[e.start] : c < b}) < MaxRecords}
  BY ChainWalk
<1>5. PICK g : /\ Walked(g, x, e, 0)
               /\ ChainBlocks(x, e) =
                    {b \in g[e.start] : Cardinality({c \in g[e.start] : c < b}) < MaxRecords}
  BY ChainWalk
<1>6. Walked(f, x, e, 0)
  BY <1>1, <1>3, <1>4 DEF Walked
<1>7. f = g
  BY <1>5, <1>6, WalkedOnce
<1>8. PICK C : C = ChainBlocks(d, e) /\ C = ChainBlocks(x, e)
  BY <1>4, <1>5, <1>7
<1>9. \A b \in C : b \in Blocks /\ d[b] = x[b]
  BY <1>8, ChainRecords DEF SameRecords
<1>10. {b \in C : d[b].part # {}} = {b \in C : x[b].part # {}}
  BY <1>9
<1>11. PICK R : R = {b \in C : d[b].part # {}} /\ R = {b \in C : x[b].part # {}}
  BY <1>10
<1> DEFINE D(b) == {RecordPart(e, b, q, 5 + Cardinality({c \in R : c < b})) : q \in d[b].part}
           X(b) == {RecordPart(e, b, q, 5 + Cardinality({c \in R : c < b})) : q \in x[b].part}
<1>12. \A b \in R : D(b) = X(b)
  BY <1>9, <1>11
<1>13. Chain(d, e) = UNION {D(b) : b \in R}
  <2>1. Chain(d, e) = Numbered(d, e, R)
    BY <1>8, <1>11 DEF Chain
  <2> QED BY <2>1 DEF Numbered
<1>14. Chain(x, e) = UNION {X(b) : b \in R}
  <2>1. Chain(x, e) = Numbered(x, e, R)
    BY <1>8, <1>11 DEF Chain
  <2> QED BY <2>1 DEF Numbered
<1> HIDE DEF D, X
<1>15. {D(b) : b \in R} = {X(b) : b \in R}
  BY <1>12
<1> QED BY <1>13, <1>14, <1>15

\* Block 0 announces a GPT, or is the sector of an MBR.
Announced(d) == d[0].tag = "mbr" /\ \E e \in d[0].entries : e.type = Protective
MbrDisk(d)   == d[0].tag = "mbr" /\ ~\E e \in d[0].entries : e.type = Protective

RoleOf(e)  == IF e.type \in ExtTypes THEN "extended" ELSE "primary"
Tops(E)    == {AsPart(e, RoleOf(e), 0) : e \in E}
Chained(d) == UNION {Chain(d, e) : e \in FirstExtended(Tops(d[0].entries))}

LEMMA MbrReading ==
  ASSUME NEW d, MbrDisk(d)
  PROVE  /\ Read(d) = ReadMbr(d) /\ Read(d).kind = "mbr" /\ ~Read(d).hybrid
         /\ Read(d).parts = Tops(d[0].entries) \cup Chained(d)
BY DEF MbrDisk, Read, ReadMbr, NoTable, Tops, RoleOf, Chained

LEMMA TopsTyped ==
  ASSUME "unnamed" \in Names, NEW E \in SUBSET SectorEntries
  PROVE  /\ Tops(E) \in SUBSET Part
         /\ \A p \in Tops(E) : p.role # "logical" /\ [p EXCEPT !.ebr = 0] = p
<1>1. ASSUME NEW e \in E
      PROVE  /\ AsPart(e, RoleOf(e), 0) \in Part
             /\ AsPart(e, RoleOf(e), 0).role # "logical"
             /\ [AsPart(e, RoleOf(e), 0) EXCEPT !.ebr = 0] = AsPart(e, RoleOf(e), 0)
  <2>1. e \in SectorEntries
    OBVIOUS
  <2>2. RoleOf(e) \in {"primary", "extended"}
    BY DEF RoleOf
  <2> QED BY <2>1, <2>2 DEF AsPart, Part, Roles, SectorEntries
<1> QED BY <1>1 DEF Tops

LEMMA ChainTyped ==
  ASSUME "unnamed" \in Names, NEW d \in [Blocks -> Contents], NEW e, e.start \in Nat
  PROVE  /\ Chain(d, e) \in SUBSET Part
         /\ \A p \in Chain(d, e) : p.role = "logical"
<1>1. ChainBlocks(d, e) \subseteq {c \in Blocks : d[c].tag = "ebr"}
  BY LinkedDisk, ChainRecords
<1> DEFINE R == {b \in ChainBlocks(d, e) : d[b].part # {}}
           n(b) == 5 + Cardinality({c \in R : c < b})
<1>2. ASSUME NEW b \in R, NEW q \in d[b].part
      PROVE  RecordPart(e, b, q, n(b)) \in Part /\ RecordPart(e, b, q, n(b)).role = "logical"
  <2>1. b \in Blocks /\ d[b].tag = "ebr" /\ d[b] \in Contents
    BY <1>1
  <2>2. d[b] \in BootRecords
    BY <2>1, Tags
  <2>3. q \in RecordEntries
    BY <2>2 DEF BootRecords
  <2>4. b \in Nat
    BY <2>1, ImageAssumption DEF Blocks
  <2>5. n(b) \in Nat
    <3>1. {c \in R : c < b} \subseteq 0..b
      BY <1>1, <2>4, ImageAssumption DEF Blocks
    <3>2. IsFiniteSet(0..b)
      BY <2>4, FS_Interval
    <3>3. Cardinality({c \in R : c < b}) \in Nat
      BY <3>1, <3>2, FS_Subset, FS_CardinalityType
    <3> QED BY <3>3
  <2> HIDE DEF n
  <2> QED BY <2>3, <2>4, <2>5 DEF RecordPart, AsPart, Part, Roles, RecordEntries
<1>3. Chain(d, e) = UNION {{RecordPart(e, b, q, n(b)) : q \in d[b].part} : b \in R}
  BY DEF Chain, Numbered
<1> HIDE DEF R, n
<1> QED BY <1>2, <1>3

LEMMA ChainedTyped ==
  ASSUME "unnamed" \in Names, NEW d \in [Blocks -> Contents], MbrDisk(d)
  PROVE  /\ d[0].entries \in SUBSET SectorEntries
         /\ \A e \in FirstExtended(Tops(d[0].entries)) : e.start \in Nat
         /\ Chained(d) \in SUBSET Part
         /\ \A p \in Chained(d) : p.role = "logical"
<1>1. d[0] \in Contents
  BY ImageAssumption DEF Blocks
<1>2. d[0] \in MbrSectors
  BY <1>1, Tags DEF MbrDisk
<1>3. d[0].entries \in SUBSET SectorEntries
  BY <1>2 DEF MbrSectors
<1>4. Tops(d[0].entries) \in SUBSET Part
  BY <1>3, TopsTyped
<1>5. \A e \in FirstExtended(Tops(d[0].entries)) : e.start \in Nat
  BY <1>4, PartBounds DEF FirstExtended, Extended
<1>6. ASSUME NEW e \in FirstExtended(Tops(d[0].entries))
      PROVE  Chain(d, e) \in SUBSET Part /\ \A p \in Chain(d, e) : p.role = "logical"
  BY <1>5, ChainTyped
<1>7. Chained(d) \in SUBSET Part /\ \A p \in Chained(d) : p.role = "logical"
  BY <1>6 DEF Chained
<1> QED BY <1>3, <1>5, <1>7

\* The primary and extended partitions of an MBR are in block 0.
LEMMA TopsSeen ==
  ASSUME "unnamed" \in Names, NEW d \in [Blocks -> Contents], MbrDisk(d)
  PROVE  Seen(d).kind = "mbr" /\ NonLogical(Seen(d).parts) = Tops(d[0].entries)
<1> DEFINE T == Tops(d[0].entries)
           C == Chained(d)
           B(p) == [p EXCEPT !.ebr = 0]
<1>1. /\ T \in SUBSET Part /\ C \in SUBSET Part
      /\ \A p \in T : p.role # "logical" /\ B(p) = p
      /\ \A p \in C : p.role = "logical"
  BY ChainedTyped, TopsTyped
<1>2. Seen(d).kind = "mbr" /\ Seen(d).parts = {B(p) : p \in T \cup C}
  BY MbrReading DEF Seen, View
<1>3. \A p \in Part : B(p).role = p.role
  BY DEF Part
<1> HIDE DEF T, C, B
<1>4. NonLogical(Seen(d).parts) = T
  <2>1. ASSUME NEW p \in T PROVE p \in NonLogical(Seen(d).parts)
    BY <1>1, <1>2 DEF NonLogical
  <2>2. ASSUME NEW x \in NonLogical(Seen(d).parts) PROVE x \in T
    <3>1. PICK p \in T \cup C : x = B(p) /\ x.role # "logical"
      BY <1>2 DEF NonLogical
    <3>2. p \in T
      BY <1>1, <1>3, <3>1
    <3> QED BY <1>1, <3>1, <3>2
  <2> QED BY <2>1, <2>2
<1> QED BY <1>2, <1>4 DEF T

\* What is no record does not matter for an MBR, block 0 apart.
LEMMA MbrUnchanged ==
  ASSUME "unnamed" \in Names, NEW d \in [Blocks -> Contents], MbrDisk(d),
         NEW x \in [Blocks -> Contents], x[0] = d[0], SameRecords(d, x)
  PROVE  MbrDisk(x) /\ Read(x) = Read(d)
<1>1. MbrDisk(x)
  BY DEF MbrDisk
<1>2. \A e \in FirstExtended(Tops(d[0].entries)) : e.start \in Nat
  BY ChainedTyped
<1>3. \A e \in FirstExtended(Tops(d[0].entries)) : Chain(d, e) = Chain(x, e)
  BY <1>2, LinkedDisk, SameChain
<1>4. {Chain(d, e) : e \in FirstExtended(Tops(d[0].entries))}
        = {Chain(x, e) : e \in FirstExtended(Tops(d[0].entries))}
  BY <1>3
<1>5. Tops(d[0].entries) = Tops(x[0].entries) /\ Chained(d) = Chained(x)
  BY <1>4 DEF Chained
<1>6. ReadMbr(d) = ReadMbr(x)
  <2>1. ReadMbr(d) = [NoTable(FALSE) EXCEPT !.kind = "mbr", !.parts = Tops(d[0].entries) \cup Chained(d)]
    BY DEF ReadMbr, Tops, RoleOf, Chained
  <2>2. ReadMbr(x) = [NoTable(FALSE) EXCEPT !.kind = "mbr", !.parts = Tops(x[0].entries) \cup Chained(x)]
    BY DEF ReadMbr, Tops, RoleOf, Chained
  <2> QED BY <1>5, <2>1, <2>2
<1> QED BY <1>1, <1>6, MbrReading

\* What is seen has its type.
TableViews == [kind : {"none", "mbr", "gpt"}, parts : SUBSET Part]

LEMMA BareTyped == ASSUME NEW S \in SUBSET Part PROVE {[p EXCEPT !.ebr = 0] : p \in S} \in SUBSET Part
BY DEF Part

LEMMA GptTyped ==
  ASSUME NEW d \in [Blocks -> Contents], NEW h, NEW t, t = ReadGpt(d, h)
  PROVE  t.kind \in {"none", "gpt"} /\ t.parts \in SUBSET Part /\ t.hybrid = h
<1>1. ASSUME NEW b, b \in Nat, GoodCopy(d, b) PROVE d[b].parts \in SUBSET Part
  <2>1. b \in Blocks /\ d[b].tag = "gpt"
    BY <1>1, ImageAssumption DEF GoodCopy, Blocks
  <2>2. d[b] \in GptHeaders
    BY <2>1, Tags
  <2> QED BY <2>2 DEF GptHeaders
<1>2. NBlocks - 1 \in Nat /\ 1 \in Nat
  BY ImageAssumption
<1>3. GoodCopy(d, 1) => d[1].parts \in SUBSET Part
  BY <1>1, <1>2
<1>4. GoodCopy(d, NBlocks - 1) => d[NBlocks - 1].parts \in SUBSET Part
  BY <1>1, <1>2
<1> QED BY <1>3, <1>4 DEF ReadGpt, NoTable

LEMMA SeenTyped ==
  ASSUME "unnamed" \in Names, NEW d \in [Blocks -> Contents]
  PROVE  /\ Seen(d) \in TableViews
         /\ Read(d).hybrid \in BOOLEAN /\ (Read(d).hybrid => Announced(d))
         /\ Read(d).kind = "mbr" <=> MbrDisk(d)
<1>1. CASE MbrDisk(d)
  <2>1. Read(d).kind = "mbr" /\ Read(d).parts \in SUBSET Part /\ Read(d).hybrid = FALSE
    <3>1. Tops(d[0].entries) \in SUBSET Part /\ Chained(d) \in SUBSET Part
      BY <1>1, ChainedTyped, TopsTyped
    <3>2. Read(d).hybrid = FALSE
      BY <1>1 DEF Read, ReadMbr, NoTable, MbrDisk
    <3> QED BY <1>1, <3>1, <3>2, MbrReading
  <2> QED BY <1>1, <2>1, BareTyped DEF Seen, View, TableViews
<1>2. CASE ~MbrDisk(d)
  <2>1. \/ \E h \in BOOLEAN : Read(d) = ReadGpt(d, h) /\ (h => Announced(d))
        \/ Read(d) = NoTable(FALSE)
    BY <1>2 DEF Read, MbrDisk, Announced
  <2>2. /\ Read(d).kind \in {"none", "gpt"} /\ Read(d).parts \in SUBSET Part
        /\ Read(d).hybrid \in BOOLEAN /\ (Read(d).hybrid => Announced(d))
    <3>1. CASE Read(d) = NoTable(FALSE)
      BY <3>1 DEF NoTable
    <3>2. ASSUME NEW h \in BOOLEAN, Read(d) = ReadGpt(d, h), h => Announced(d)
          PROVE  /\ Read(d).kind \in {"none", "gpt"} /\ Read(d).parts \in SUBSET Part
                 /\ Read(d).hybrid = h
      BY <3>2, GptTyped
    <3> QED BY <2>1, <3>1, <3>2
  <2> QED BY <1>2, <2>2, BareTyped DEF Seen, View, TableViews
<1> QED BY <1>1, <1>2

-----------------------------------------------------------------------------
(* One block is written.                                                   *)

Stored(d, c, y) == [d EXCEPT ![c] = y]

LEMMA StoredAt ==
  ASSUME NEW d \in [Blocks -> Contents], NEW c \in Blocks, NEW y \in Contents,
         NEW x, x = Stored(d, c, y)
  PROVE  /\ x \in [Blocks -> Contents] /\ x[c] = y
         /\ \A b \in Blocks : b # c => x[b] = d[b]
BY DEF Stored

LEMMA SomeBlocks ==
  /\ NBlocks \in Nat \ {0} /\ ArrBlocks \in Nat \ {0} /\ 0 \in Blocks /\ NBlocks - 1 \in Blocks
  /\ NBlocks > 1 => 1 \in Blocks
  /\ \A b : b \in Blocks <=> b \in Nat /\ b < NBlocks
BY ImageAssumption DEF Blocks

\* A GPT copy stays as good as it was when neither its header nor its array
\* is written.
LEMMA CopyKept ==
  ASSUME NEW d \in [Blocks -> Contents], NEW c \in Blocks, NEW y \in Contents,
         NEW x, x = Stored(d, c, y), NEW b \in Blocks, b # c,
         d[b].tag = "gpt" => c < d[b].ents \/ d[b].ents + ArrBlocks <= c
  PROVE  x[b] = d[b] /\ (GoodCopy(x, b) <=> GoodCopy(d, b))
<1>1. /\ x[b] = d[b]
      /\ \A a \in Blocks : a # c => x[a] = d[a]
  BY StoredAt
<1>2. CASE d[b].tag # "gpt"
  BY <1>1, <1>2 DEF GoodCopy
<1>3. CASE d[b].tag = "gpt"
  <2>1. d[b] \in GptHeaders
    BY <1>3, Tags
  <2>2. d[b].ents \in Nat
    BY <2>1 DEF GptHeaders
  <2>3. ASSUME d[b].ents + ArrBlocks <= NBlocks
        PROVE  \A i \in 0..(ArrBlocks - 1) : x[d[b].ents + i] = d[d[b].ents + i]
    <3> TAKE i \in 0..(ArrBlocks - 1)
    <3>1. PICK a : a = d[b].ents + i
      OBVIOUS
    <3>2. a \in Blocks /\ a # c
      BY <3>1, <1>3, <2>2, <2>3, SomeBlocks
    <3> QED BY <1>1, <3>1, <3>2
  <2> QED BY <1>1, <1>3, <2>3 DEF GoodCopy
<1> QED BY <1>2, <1>3

\* The disk is read as one with a GPT.
LEMMA GptReading ==
  ASSUME NEW d, ~MbrDisk(d), NBlocks > 1, d[0].tag = "mbr" \/ Signed(d[1])
  PROVE  \E h \in BOOLEAN : Read(d) = ReadGpt(d, h)
BY DEF MbrDisk, Read

\* From a record reading goes on to no record before the one its link names.
LEMMA WalkedForward ==
  ASSUME NEW d, Linked(d), NEW e, e.start \in Nat, NEW f, Walked(f, d, e, 0)
  PROVE  \A b \in Nat : \A x, y \in f[b] : b <= x /\ (x < y => Follow(d, e, x) <= y)
<1> DEFINE Good(b) == \A x, y \in f[b] : b <= x /\ (x < y => Follow(d, e, x) <= y)
           S == {k \in Nat : \A b \in Nat : b + k >= NBlocks => Good(b)}
<1>0. NBlocks \in Nat
  BY ImageAssumption
<1>1. /\ f \in [Nat -> SUBSET Nat]
      /\ \A b \in Nat : f[b] = IF IsRecord(d, b) THEN {b} \cup f[Follow(d, e, b)] ELSE {}
  BY DEF Walked
<1>2. 0 \in S
  <2>1. ASSUME NEW b \in Nat, b + 0 >= NBlocks PROVE Good(b)
    <3>1. ~IsRecord(d, b)
      BY <2>1, <1>0 DEF IsRecord
    <3> QED BY <3>1, <1>1
  <2> QED BY <2>1
<1>3. ASSUME NEW k \in Nat, k \in S PROVE k + 1 \in S
  <2>1. ASSUME NEW b \in Nat, b + (k + 1) >= NBlocks PROVE Good(b)
    <3>1. CASE IsRecord(d, b)
      <4>1. Follow(d, e, b) \in Nat /\ b < Follow(d, e, b)
        BY <3>1, FollowForward
      <4>2. PICK g \in Nat : g = Follow(d, e, b)
        BY <4>1
      <4>3. g + k >= NBlocks
        BY <4>1, <4>2, <2>1, <1>0
      <4>4. Good(g)
        BY <4>3, <1>3
      <4>5. f[b] = {b} \cup f[g] /\ f[g] \subseteq Nat
        BY <3>1, <4>2, <1>1
      <4>6. ASSUME NEW x \in f[b], NEW y \in f[b] PROVE b <= x /\ (x < y => Follow(d, e, x) <= y)
        <5>1. x \in Nat /\ y \in Nat
          BY <4>5
        <5>2. CASE x = b
          <6>1. x < y => y \in f[g]
            BY <4>5, <5>1, <5>2
          <6> QED BY <4>2, <4>4, <5>1, <5>2, <6>1
        <5>3. CASE x \in f[g] /\ y \in f[g]
          <6>1. g <= x /\ (x < y => Follow(d, e, x) <= y)
            BY <4>4, <5>3
          <6> QED BY <4>1, <4>2, <5>1, <6>1
        <5>4. CASE x \in f[g] /\ y = b
          <6>1. g <= x
            BY <4>4, <5>4
          <6> QED BY <4>1, <4>2, <5>1, <5>4, <6>1
        <5> QED BY <4>5, <5>2, <5>3, <5>4
      <4> QED BY <4>6
    <3>2. CASE ~IsRecord(d, b)
      BY <3>2, <1>1
    <3> QED BY <3>1, <3>2
  <2> QED BY <2>1
<1> HIDE DEF S
<1>4. NBlocks \in S
  BY <1>0, <1>2, <1>3, NatSet
<1>5. \A b \in Nat : b + NBlocks >= NBlocks
  BY <1>0
<1> QED BY <1>4, <1>5 DEF S

LEMMA ChainForward ==
  ASSUME NEW d, Linked(d), NEW e, e.start \in Nat, NEW b \in ChainBlocks(d, e),
         NEW c \in ChainBlocks(d, e), b < c
  PROVE  Follow(d, e, b) <= c
<1>1. PICK f : /\ Walked(f, d, e, 0)
               /\ ChainBlocks(d, e) =
                    {a \in f[e.start] : Cardinality({x \in f[e.start] : x < a}) < MaxRecords}
  BY ChainWalk
<1>2. b \in f[e.start] /\ c \in f[e.start]
  BY <1>1
<1>3. \A a \in Nat : \A x, y \in f[a] : a <= x /\ (x < y => Follow(d, e, x) <= y)
  BY <1>1, WalkedForward
<1> QED BY <1>2, <1>3

-----------------------------------------------------------------------------
(* What is left to write.                                                  *)

IsOps(s) ==
  \E n \in Nat : /\ IsPiece(s, n)
                 /\ \A i \in 1..n : s[i].at \in Blocks /\ s[i].block \in Contents

LEMMA OpsSeq ==
  ASSUME NEW s, IsOps(s)
  PROVE  /\ Len(s) \in Nat /\ DOMAIN s = 1..Len(s) /\ IsPiece(s, Len(s))
         /\ \A i \in 1..Len(s) : s[i].at \in Blocks /\ s[i].block \in Contents
         /\ s # <<>> <=> Len(s) # 0
<1>1. PICK n \in Nat : /\ IsPiece(s, n)
                       /\ \A i \in 1..n : s[i].at \in Blocks /\ s[i].block \in Contents
  BY DEF IsOps
<1>2. s \in Seq({s[i] : i \in 1..n}) /\ Len(s) = n /\ DOMAIN s = 1..n
  BY <1>1 DEF IsPiece
<1> QED BY <1>1, <1>2

LEMMA OpsPiece ==
  ASSUME NEW s, NEW n \in Nat, IsPiece(s, n)
  PROVE  Len(s) = n
<1>1. s \in Seq({s[i] : i \in 1..n})
  BY DEF IsPiece
<1> QED BY <1>1 DEF IsPiece

LEMMA OpsNone == IsOps(<<>>)
<1>1. IsPiece(<<>>, 0)
  BY DEF IsPiece
<1>2. \A i \in 1..0 : FALSE
  OBVIOUS
<1> QED BY <1>1, <1>2 DEF IsOps

\* The next block is taken off the list.
LEMMA OpsTail ==
  ASSUME NEW s, IsOps(s), s # <<>>
  PROVE  /\ Head(s) = s[1] /\ s[1].at \in Blocks /\ s[1].block \in Contents
         /\ IsOps(Tail(s)) /\ Len(Tail(s)) = Len(s) - 1
         /\ \A i \in 1..Len(Tail(s)) : Tail(s)[i] = s[i + 1] /\ i + 1 \in 1..Len(s)
<1>1. /\ Len(s) \in Nat \ {0} /\ IsPiece(s, Len(s))
      /\ \A i \in 1..Len(s) : s[i].at \in Blocks /\ s[i].block \in Contents
  BY OpsSeq
<1>2. PICK n \in Nat \ {0} : n = Len(s)
  BY <1>1
<1>3. PICK X : X = {s[i] : i \in 1..n} /\ s \in Seq(X)
  <2>1. PICK X : X = {s[i] : i \in 1..n}
    OBVIOUS
  <2>2. s \in [1..n -> X]
    BY <1>1, <1>2, <2>1 DEF IsPiece
  <2>3. s \in Seq(X)
    BY <2>2
  <2> QED BY ONLY <2>1, <2>3, Zenon
<1>4. 1 \in 1..n
  BY <1>2
<1>5. Tail(s) \in Seq(X) /\ Len(Tail(s)) = n - 1 /\ Head(s) = s[1]
  BY <1>2, <1>3
<1>6. ASSUME NEW i \in 1..(n - 1) PROVE Tail(s)[i] = s[i + 1] /\ i + 1 \in 1..n
  BY <1>2, <1>3
<1>7. IsPiece(Tail(s), n - 1)
  <2>1. PICK t : t = Tail(s)
    OBVIOUS
  <2>2. t \in [1..(n - 1) -> X]
    <3>1. t \in Seq(X) /\ Len(t) = n - 1
      BY <1>5, <2>1
    <3> QED BY <3>1, LenProperties
  <2>3. t \in [1..(n - 1) -> {t[i] : i \in 1..(n - 1)}]
    BY <2>2
  <2> QED BY <2>1, <2>3 DEF IsPiece
<1>8. n - 1 \in Nat
  BY <1>2
<1>9. IsOps(Tail(s))
  BY <1>1, <1>2, <1>6, <1>7, <1>8 DEF IsOps
<1> QED BY <1>1, <1>2, <1>4, <1>5, <1>6, <1>9

-----------------------------------------------------------------------------
(* What a disk is read as.                                                 *)

TableRecords ==
  [kind : {"none", "mbr", "gpt"}, parts : SUBSET Part, first : Nat, last : Nat, hybrid : BOOLEAN,
   pok : BOOLEAN, bok : BOOLEAN, pent : Nat, blba : Nat, bent : Nat]

LEMMA HeaderTyped ==
  ASSUME NEW d \in [Blocks -> Contents], NEW b \in Nat, GoodCopy(d, b)
  PROVE  /\ d[b].parts \in SUBSET Part /\ d[b].first \in Nat /\ d[b].last \in Nat
         /\ d[b].ents \in Nat /\ d[b].alt \in Nat
<1>1. b \in Blocks /\ d[b].tag = "gpt"
  BY SomeBlocks DEF GoodCopy
<1>2. d[b] \in GptHeaders
  BY <1>1, Tags
<1> QED BY <1>2 DEF GptHeaders

LEMMA ReadTyped ==
  ASSUME "unnamed" \in Names, NEW d \in [Blocks -> Contents]
  PROVE  Read(d) \in TableRecords
<1>1. NoTable(FALSE) \in TableRecords /\ \A h \in BOOLEAN : NoTable(h) \in TableRecords
  BY DEF NoTable, TableRecords
<1>2. CASE MbrDisk(d)
  <2>1. Tops(d[0].entries) \cup Chained(d) \in SUBSET Part
    BY <1>2, ChainedTyped, TopsTyped
  <2>2. Read(d) = [NoTable(FALSE) EXCEPT !.kind = "mbr", !.parts = Tops(d[0].entries) \cup Chained(d)]
    BY <1>2 DEF MbrDisk, Read, ReadMbr, Tops, RoleOf, Chained
  <2>3. PICK S \in SUBSET Part : S = Tops(d[0].entries) \cup Chained(d)
    BY <2>1
  <2>4. Read(d) = [NoTable(FALSE) EXCEPT !.kind = "mbr", !.parts = S]
    BY <2>2, <2>3
  <2>5. Read(d) = [kind |-> "mbr", parts |-> S, first |-> 0, last |-> 0, hybrid |-> FALSE,
                   pok |-> FALSE, bok |-> FALSE, pent |-> 0, blba |-> 0, bent |-> 0]
    BY ONLY <2>4 DEF NoTable
  <2> QED BY <2>5 DEF TableRecords
<1>3. ASSUME NEW h \in BOOLEAN PROVE ReadGpt(d, h) \in TableRecords
  <2>1. PICK alt : alt = IF GoodCopy(d, 1) THEN d[1].alt ELSE NBlocks - 1
    OBVIOUS
  <2>2. PICK g : g = IF GoodCopy(d, 1) THEN d[1] ELSE d[alt]
    OBVIOUS
  <2>3. alt \in Nat
    BY <2>1, HeaderTyped, SomeBlocks
  <2>4. CASE ~GoodCopy(d, 1) /\ ~GoodCopy(d, alt)
    <3>1. ReadGpt(d, h) = NoTable(h)
      BY <2>1, <2>4 DEF ReadGpt
    <3> QED BY <1>1, <3>1
  <2>5. CASE GoodCopy(d, 1) \/ GoodCopy(d, alt)
    <3>1. ReadGpt(d, h) =
            [kind |-> "gpt", parts |-> g.parts, first |-> g.first, last |-> g.last,
             hybrid |-> h, pok |-> GoodCopy(d, 1), bok |-> GoodCopy(d, alt),
             pent |-> IF GoodCopy(d, 1) THEN g.ents ELSE 2,
             blba |-> alt, bent |-> IF GoodCopy(d, alt) THEN d[alt].ents ELSE 0]
      BY <2>1, <2>2, <2>5 DEF ReadGpt
    <3>2. g.parts \in SUBSET Part /\ g.first \in Nat /\ g.last \in Nat /\ g.ents \in Nat
      BY <2>2, <2>3, <2>5, HeaderTyped
    <3>3. GoodCopy(d, alt) => d[alt].ents \in Nat
      BY <2>3, HeaderTyped
    <3>4. PICK e, f : /\ e = IF GoodCopy(d, 1) THEN g.ents ELSE 2
                      /\ f = IF GoodCopy(d, alt) THEN d[alt].ents ELSE 0
      OBVIOUS
    <3>5. e \in Nat /\ f \in Nat
      BY <3>2, <3>3, <3>4
    <3>6. GoodCopy(d, 1) \in BOOLEAN /\ GoodCopy(d, alt) \in BOOLEAN
      BY DEF GoodCopy
    <3> QED BY <2>3, <3>1, <3>2, <3>4, <3>5, <3>6 DEF TableRecords
  <2> QED BY <2>4, <2>5
<1>4. CASE ~MbrDisk(d)
  <2>1. (\E h \in BOOLEAN : Read(d) = ReadGpt(d, h)) \/ Read(d) = NoTable(FALSE)
    BY <1>4 DEF Read, MbrDisk
  <2> QED BY <1>1, <1>3, <2>1
<1> QED BY <1>2, <1>4

LEMMA ViewTyped == ASSUME NEW t \in TableRecords PROVE View(t) \in TableViews
<1>1. t.kind \in {"none", "mbr", "gpt"} /\ t.parts \in SUBSET Part
  BY DEF TableRecords
<1>2. {[p EXCEPT !.ebr = 0] : p \in t.parts} \in SUBSET Part
  BY <1>1, BareTyped
<1> QED BY <1>1, <1>2 DEF View, TableViews

-----------------------------------------------------------------------------
(* The writes of a GPT.                                                    *)

\* The write with j more after it: the backup copy comes last, before it the
\* primary header, its array and block 0.
GptOp(o, j, t) ==
  /\ j <= 2 * ArrBlocks + 2
  /\ j <= ArrBlocks => 1 + ArrBlocks < o.at
  /\ j = ArrBlocks + 1 =>
       o.at = 1 /\ o.block = Header(1, NBlocks - 1, 2, t.first, NewLast, t.parts)
  /\ ArrBlocks + 1 < j /\ j < 2 * ArrBlocks + 2 =>
       o.at = 2 * ArrBlocks + 3 - j /\ o.block = ArrayBlock(t.parts, o.at - 2)
  /\ j = 2 * ArrBlocks + 2 => o.at = 0 /\ o.block = ProtectiveSector

GptLeft(s, t) == \A i \in 1..Len(s) : GptOp(s[i], Len(s) - i, t)

\* A block of a GPT.
GptBlock(y, t) ==
  /\ y.tag # "ebr"
  /\ y.tag = "mbr" => y = ProtectiveSector
  /\ y.tag = "gpt" => y.parts = t.parts

LEMMA GptBlockTags ==
  ASSUME NEW t
  PROVE  /\ GptBlock(ProtectiveSector, t)
         /\ \A i : GptBlock(ArrayBlock(t.parts, i), t)
         /\ \A my, alt, ents : GptBlock(Header(my, alt, ents, t.first, NewLast, t.parts), t)
<1>1. GptBlock(ProtectiveSector, t)
  BY DEF GptBlock, ProtectiveSector, Sector
<1>2. \A i : GptBlock(ArrayBlock(t.parts, i), t)
  BY DEF GptBlock, ArrayBlock
<1>3. \A my, alt, ents : GptBlock(Header(my, alt, ents, t.first, NewLast, t.parts), t)
  BY DEF GptBlock, Header
<1> QED BY <1>1, <1>2, <1>3

\* What is written is outside the usable area, and block 0 only without a
\* hybrid MBR.
GptAround(s, t) ==
  \A i \in 1..Len(s) : /\ s[i].at < 2 + ArrBlocks \/ NewLast < s[i].at
                       /\ s[i].at = 0 => ~t.hybrid /\ s[i].block = ProtectiveSector
                       /\ GptBlock(s[i].block, t)

LEMMA GptContents ==
  ASSUME NBlocks > 2 * ArrBlocks + 3, NEW t, t.first \in Nat, t.parts \in SUBSET Part
  PROVE  /\ ProtectiveSector \in Contents
         /\ \A i \in 0..(ArrBlocks - 1) : ArrayBlock(t.parts, i) \in Contents
         /\ Header(1, NBlocks - 1, 2, t.first, NewLast, t.parts) \in Contents
         /\ Header(NBlocks - 1, 1, NBlocks - 1 - ArrBlocks, t.first, NewLast, t.parts) \in Contents
<1>1. NBlocks - 1 \in Nat \ {0} /\ NewLast \in Nat /\ NBlocks - 1 - ArrBlocks \in Nat \ {0}
  BY SomeBlocks DEF NewLast
<1>2. ProtectiveSector \in MbrSectors
  <2> DEFINE e == [num |-> 1, start |-> 1, size |-> NBlocks - 1, type |-> Protective, active |-> FALSE]
  <2>1. e \in SectorEntries
    BY <1>1 DEF SectorEntries, Protective
  <2>2. ProtectiveSector = [tag |-> "mbr", entries |-> {e}]
    BY DEF ProtectiveSector, Sector
  <2> HIDE DEF e
  <2> QED BY <2>1, <2>2 DEF MbrSectors
<1>3. \A i \in 0..(ArrBlocks - 1) : ArrayBlock(t.parts, i) \in ArrayParts
  BY SomeBlocks DEF ArrayBlock, ArrayParts
<1>4. Header(1, NBlocks - 1, 2, t.first, NewLast, t.parts) \in GptHeaders
  BY <1>1 DEF Header, GptHeaders
<1>5. Header(NBlocks - 1, 1, NBlocks - 1 - ArrBlocks, t.first, NewLast, t.parts) \in GptHeaders
  BY <1>1 DEF Header, GptHeaders
<1> QED BY <1>2, <1>3, <1>4, <1>5 DEF Contents

\* The writes of a GPT: block 0, the primary copy, the backup copy.
LEMMA GptWork ==
  ASSUME NBlocks > 2 * ArrBlocks + 3, NEW t, t.first \in Nat, t.parts \in SUBSET Part,
         t.hybrid \in BOOLEAN, NEW s, s = GptWrites(t)
  PROVE  IsOps(s) /\ s # <<>> /\ GptAround(s, t) /\ GptLeft(s, t) /\ Len(s) >= 2 * ArrBlocks + 2
<1> DEFINE A == ArrBlocks
<1>0. A \in Nat \ {0} /\ NBlocks \in Nat /\ NBlocks - 1 - ArrBlocks > 2 + ArrBlocks
  BY SomeBlocks
<1>1. PICK n \in 0..1 : n = IF t.hybrid THEN 0 ELSE 1
  OBVIOUS
<1>2. PICK N \in Nat : N = n + 2 * A + 2
  BY <1>0
<1>3. /\ DOMAIN s = 1..N /\ IsPiece(s, N)
      /\ ~t.hybrid => s[1].at = 0 /\ s[1].block = ProtectiveSector
      /\ \A i \in 1..A : s[n + i].at = 1 + i /\ s[n + i].block = ArrayBlock(t.parts, i - 1)
      /\ s[n + A + 1].at = 1
      /\ s[n + A + 1].block = Header(1, NBlocks - 1, 2, t.first, NewLast, t.parts)
      /\ \A i \in 1..A : /\ s[n + A + 1 + i].at = NBlocks - 2 - A + i
                         /\ s[n + A + 1 + i].block = ArrayBlock(t.parts, i - 1)
      /\ s[n + 2 * A + 2].at = NBlocks - 1
      /\ s[n + 2 * A + 2].block =
           Header(NBlocks - 1, 1, NBlocks - 1 - A, t.first, NewLast, t.parts)
  BY <1>0, <1>1, <1>2, GptOps
<1>4. Len(s) = N
  BY <1>3, OpsPiece
<1>5. ASSUME NEW i \in 1..N
      PROVE  /\ GptOp(s[i], N - i, t)
             /\ s[i].at \in Blocks /\ s[i].block \in Contents
             /\ s[i].at < 2 + A \/ NewLast < s[i].at
             /\ s[i].at = 0 => ~t.hybrid /\ s[i].block = ProtectiveSector
             /\ GptBlock(s[i].block, t)
  <2>1. CASE i <= n
    <3>1. i = 1 /\ n = 1 /\ ~t.hybrid /\ N - i = 2 * A + 2
      BY <1>0, <1>1, <1>2, <2>1
    <3>2. s[i].at = 0 /\ s[i].block = ProtectiveSector
      BY <1>3, <3>1
    <3>3. s[i].at \in Blocks /\ s[i].block \in Contents /\ s[i].at < 2 + A
      BY <1>0, <3>2, GptContents, SomeBlocks
    <3>4. GptOp(s[i], N - i, t)
      BY <1>0, <3>1, <3>2 DEF GptOp
    <3>9. GptBlock(s[i].block, t)
      BY <3>2, GptBlockTags
    <3> QED BY <3>9, <3>1, <3>2, <3>3, <3>4
  <2>2. CASE n < i /\ i <= n + A
    <3>1. PICK k \in 1..A : k = i - n /\ n + k = i
      <4>1. i - n \in 1..A /\ n + (i - n) = i
        BY <1>0, <1>1, <2>2
      <4> QED BY ONLY <4>1
    <3>2. s[i].at = 1 + k /\ s[i].block = ArrayBlock(t.parts, k - 1)
      BY <1>3, <3>1
    <3>3. N - i = 2 * A + 2 - k
      BY <1>0, <1>1, <1>2, <3>1
    <3>4. 1 + k \in Blocks /\ 1 + k < 2 + A /\ 1 + k # 0 /\ k - 1 \in 0..(A - 1)
      BY <1>0, <3>1, SomeBlocks
    <3>5. ArrayBlock(t.parts, k - 1) \in Contents
      BY <3>4, GptContents
    <3>6. PICK j : j = N - i
      OBVIOUS
    <3>7. /\ A + 1 < j /\ j < 2 * A + 2 /\ 1 + k = 2 * A + 3 - j /\ (1 + k) - 2 = k - 1
      BY <1>0, <3>1, <3>3, <3>6
    <3>8. GptOp(s[i], j, t)
      BY <1>0, <3>2, <3>3, <3>6, <3>7 DEF GptOp
    <3>9. GptBlock(s[i].block, t)
      BY <3>2, GptBlockTags
    <3> QED BY <3>9, <3>2, <3>4, <3>5, <3>6, <3>8
  <2>3. CASE i = n + A + 1
    <3>1. N - i = A + 1
      BY <1>0, <1>1, <1>2, <2>3
    <3>2. s[i].at = 1 /\ s[i].block = Header(1, NBlocks - 1, 2, t.first, NewLast, t.parts)
      BY <1>3, <2>3
    <3>3. GptOp(s[i], N - i, t)
      BY <1>0, <3>1, <3>2 DEF GptOp
    <3>4. 1 \in Blocks /\ 1 < 2 + A /\ 1 # 0
      BY <1>0, SomeBlocks
    <3>5. Header(1, NBlocks - 1, 2, t.first, NewLast, t.parts) \in Contents
      BY GptContents
    <3>9. GptBlock(s[i].block, t)
      BY <3>2, GptBlockTags
    <3> QED BY <3>9, <3>2, <3>3, <3>4, <3>5
  <2>4. CASE n + A + 1 < i /\ i < n + 2 * A + 2
    <3>1. PICK k \in 1..A : k = i - (n + A + 1) /\ n + A + 1 + k = i
      <4>1. i - (n + A + 1) \in 1..A /\ n + A + 1 + (i - (n + A + 1)) = i
        BY <1>0, <1>1, <2>4
      <4> QED BY ONLY <4>1
    <3>2. s[i].at = NBlocks - 2 - A + k /\ s[i].block = ArrayBlock(t.parts, k - 1)
      BY <1>3, <3>1
    <3>3. N - i <= A /\ N - i # 2 * A + 2 /\ N - i # A + 1 /\ ~(A + 1 < N - i)
          /\ N - i <= 2 * A + 2
      BY <1>0, <1>1, <1>2, <2>4
    <3>4. /\ NBlocks - 2 - A + k \in Blocks /\ 1 + A < NBlocks - 2 - A + k
          /\ NewLast < NBlocks - 2 - A + k /\ NBlocks - 2 - A + k # 0 /\ k - 1 \in 0..(A - 1)
      BY <1>0, <3>1, SomeBlocks DEF NewLast
    <3>5. ArrayBlock(t.parts, k - 1) \in Contents
      BY <3>4, GptContents
    <3>6. GptOp(s[i], N - i, t)
      BY <3>2, <3>3, <3>4 DEF GptOp
    <3>9. GptBlock(s[i].block, t)
      BY <3>2, GptBlockTags
    <3> QED BY <3>9, <3>2, <3>4, <3>5, <3>6
  <2>5. CASE i = n + 2 * A + 2
    <3>1. N - i = 0
      BY <1>0, <1>1, <1>2, <2>5
    <3>2. /\ s[i].at = NBlocks - 1
          /\ s[i].block = Header(NBlocks - 1, 1, NBlocks - 1 - A, t.first, NewLast, t.parts)
      BY <1>3, <2>5
    <3>3. /\ NBlocks - 1 \in Blocks /\ NewLast < NBlocks - 1 /\ NBlocks - 1 # 0
          /\ 1 + A < NBlocks - 1
      BY <1>0, SomeBlocks DEF NewLast
    <3>4. s[i].block \in Contents
      BY <3>2, GptContents
    <3>5. GptOp(s[i], N - i, t)
      BY <1>0, <3>1, <3>2, <3>3 DEF GptOp
    <3>9. GptBlock(s[i].block, t)
      BY <3>2, GptBlockTags
    <3> QED BY <3>9, <3>2, <3>3, <3>4, <3>5
  <2> QED BY <1>0, <1>1, <1>2, <2>1, <2>2, <2>3, <2>4, <2>5
<1>6. IsOps(s)
  BY <1>3, <1>5 DEF IsOps
<1>7. s # <<>>
  BY <1>0, <1>1, <1>2, <1>4, <1>6, OpsSeq
<1>8. GptAround(s, t) /\ GptLeft(s, t)
  BY <1>4, <1>5 DEF GptAround, GptLeft
<1>9. N >= 2 * A + 2
  BY <1>0, <1>1, <1>2
<1> QED BY <1>4, <1>6, <1>7, <1>8, <1>9

-----------------------------------------------------------------------------
(* The writes of an MBR.                                                   *)

\* Without the places of records, partitions are where they were.
LEMMA BareParts ==
  ASSUME NEW S, S \in SUBSET Part
  PROVE  /\ \A p \in Bare(S) : \E q \in S :
              p.role = q.role /\ p.start = q.start /\ Last(p) = Last(q)
         /\ \A q \in S : \E p \in Bare(S) :
              p.role = q.role /\ p.start = q.start /\ Last(p) = Last(q)
         /\ NonLogical(Bare(S)) = Bare(NonLogical(S))
         /\ Extended(Bare(S)) = {} <=> Extended(S) = {}
         /\ \A b : InsidePartition(Bare(S), b) <=> InsidePartition(S, b)
<1> DEFINE B(p) == [p EXCEPT !.ebr = 0]
<1>1. \A q \in Part : B(q).role = q.role /\ B(q).start = q.start /\ Last(B(q)) = Last(q)
  BY DEF Part, Last
<1> HIDE DEF B
<1>2. Bare(S) = {B(q) : q \in S} /\ Bare(NonLogical(S)) = {B(q) : q \in NonLogical(S)}
  BY DEF Bare, B
<1>3. /\ \A p \in Bare(S) : \E q \in S :
           p = B(q) /\ p.role = q.role /\ p.start = q.start /\ Last(p) = Last(q)
      /\ \A q \in S : \E p \in Bare(S) :
           p = B(q) /\ p.role = q.role /\ p.start = q.start /\ Last(p) = Last(q)
  BY <1>1, <1>2
<1>4. NonLogical(Bare(S)) = Bare(NonLogical(S))
  BY <1>2, <1>3 DEF NonLogical
<1>5. Extended(Bare(S)) = {} <=> Extended(S) = {}
  BY <1>3 DEF Extended
<1>6. \A b : InsidePartition(Bare(S), b) <=> InsidePartition(S, b)
  BY <1>3 DEF InsidePartition
<1> QED BY <1>3, <1>4, <1>5, <1>6

\* The record of a logical partition is inside no other one.
LEMMA RecordApart ==
  ASSUME NEW S, LaidOut(S), NEW l \in Logicals(S), NEW q \in Logicals(S)
  PROVE  ~(q.start <= RecordOf(S, l) /\ RecordOf(S, l) <= Last(q))
<1>1. PICK e \in Extended(S) : e.start < l.start /\ Last(l) <= Last(e)
  BY DEF LaidOut, LogicalLayout
<1>2. /\ RecordOf(S, l) \in Nat /\ RecordOf(S, l) < l.start
      /\ \A p \in Before(S, l) : Last(p) < RecordOf(S, l)
  BY RecordPlaces
<1>3. q \in Part /\ l \in Part
  BY DEF LaidOut, Logicals
<1>4. q.start \in Nat /\ l.start \in Nat /\ Last(q) \in Nat
  BY <1>3, PartBounds
<1>5. CASE q.start < l.start
  <2>1. q \in Before(S, l)
    BY <1>5 DEF Before
  <2> QED BY <1>2, <1>4, <2>1
<1>6. CASE l.start <= q.start
  BY <1>2, <1>4, <1>6
<1> QED BY <1>4, <1>5, <1>6

\* What a disk with one extended partition, at E, has in block b: a link goes
\* past the partition of its record, which lies after the record.
InOrder(b, y, E) ==
  /\ y.tag = "mbr" =>
       \A e, f \in y.entries : e.type \in ExtTypes /\ f.type \in ExtTypes => e = f /\ e.start = E
  /\ y.tag = "ebr" =>
       /\ \A q, r \in y.part : q = r
       /\ \A q \in y.part : 0 < q.off /\ (y.next # 0 => b + q.off + q.size - 1 < E + y.next)
  /\ y.tag = "gpt" => Logicals(y.parts) = {}

\* A write puts such a block there, for the extended partition of S.
PutInOrder(o, S) ==
  \A E \in Nat : (\A e \in Extended(S) : e.start = E) => InOrder(o.at, o.block, E)

LEMMA LinkPast ==
  ASSUME NEW S, LaidOut(S), ExtendedOnDisk(S), NEW k, k = Cardinality(Logicals(S)), NEW i \in 1..k,
         i < k
  PROVE  Last(Sorted(S)[i]) < Records(S)[i + 1]
<1>1. k \in Nat
  BY SortedLogicals
<1>2. PICK j \in 1..k : j = i + 1 /\ i < j
  BY <1>1
<1>3. PICK l, m : l = Sorted(S)[i] /\ m = Sorted(S)[j]
  OBVIOUS
<1>4. l \in Logicals(S) /\ Place(S, l) = i
  BY <1>3, RecordBlocks
<1>5. m \in Logicals(S) /\ Place(S, m) = j /\ Records(S)[j] = RecordOf(S, m)
  BY <1>3, RecordBlocks
<1>6. l \in Before(S, m)
  BY <1>2, <1>4, <1>5, PlaceOrder DEF Before
<1>7. PICK e \in Extended(S) : e.start < m.start /\ Last(m) <= Last(e)
  BY <1>5 DEF LaidOut, LogicalLayout
<1>8. Last(l) < RecordOf(S, m)
  BY <1>5, <1>6, <1>7, RecordPlaces
<1> QED BY <1>2, <1>3, <1>5, <1>8

\* A block of the chain goes into the extended partition, between the others.
RecordWrite(o, S) ==
  /\ o.at \in Blocks /\ o.at # 0 /\ o.block \in Contents
  /\ \E e \in Extended(S) : e.start <= o.at /\ o.at <= Last(e)
  /\ \A q \in Logicals(S) : ~(q.start <= o.at /\ o.at <= Last(q))
  /\ PutInOrder(o, S) /\ o.block.tag = "ebr"

LEMMA ChainContents ==
  ASSUME NEW S, LaidOut(S), ExtendedOnDisk(S), NEW c, c = ChainWrites(S)
  PROVE  /\ IsOps(c) /\ (Extended(S) = {} => Len(c) = 0)
         /\ \A i \in 1..Len(c) : RecordWrite(c[i], S)
<1>1. PICK n : Ascends(c, n) /\ IsPiece(c, n)
  BY ChainGoesUp
<1>2. n \in Nat /\ Len(c) = n /\ DOMAIN c = 1..n
  BY <1>1, OpsPiece DEF Ascends
<1>3. PICK k \in Nat : k = Cardinality(Logicals(S))
  BY SortedLogicals
<1>4. CASE Extended(S) = {}
  <2>1. c = <<>>
    BY <1>3, <1>4, ChainOps
  <2>2. Len(c) = 0
    BY <2>1
  <2>3. \A i \in 1..0 : FALSE
    OBVIOUS
  <2> QED BY <2>1, <2>2, <2>3, OpsNone
<1>5. CASE Extended(S) # {}
  <2>1. PICK e \in Extended(S) : Extended(S) = {e}
    BY <1>5 DEF LaidOut
  <2>2. e \in Part
    BY DEF LaidOut, Extended
  <2>3. /\ e.start \in Nat /\ Last(e) \in Nat /\ e.start <= Last(e) /\ e.num \in Nat
        /\ 1 <= e.start /\ Last(e) < NBlocks
    BY <2>2, PartBounds DEF ExtendedOnDisk
  <2>4. ASSUME NEW i \in 1..n PROVE RecordWrite(c[i], S)
    <3>1. CASE k = 0
      <4>1. c = <<Put(ChainHead(S), Record({}, 0))>>
        BY <1>3, <1>5, <3>1, ChainOps
      <4>2. n = 1
        BY <1>2, <4>1
      <4>3. ChainHead(S) = e.start
        BY <2>1, <2>3 DEF ChainHead
      <4>4. c[i].at = e.start /\ c[i].block = Record({}, 0)
        BY <4>1, <4>2, <4>3 DEF Put
      <4>5. Record({}, 0) \in BootRecords
        BY DEF Record, BootRecords
      <4>6. IsFiniteSet(Logicals(S))
        BY FS_Subset DEF LaidOut, Logicals
      <4>7. Logicals(S) = {}
        BY <1>3, <3>1, <4>6, FS_EmptySet
      <4>8. e.start \in Blocks /\ e.start # 0
        BY <2>3, SomeBlocks
      <4>9. PutInOrder(c[i], S)
        BY <4>4 DEF PutInOrder, InOrder, Record
      <4>10. c[i].block.tag = "ebr"
        BY <4>4 DEF Record
      <4> QED BY <2>3, <4>4, <4>5, <4>7, <4>8, <4>9, <4>10 DEF RecordWrite, Contents
    <3>2. CASE k # 0
      <4>1. c = [j \in 1..k |-> Put(Records(S)[j], Record({RecordEntry(S, j)}, Link(S, j)))]
        BY <1>3, <3>2, ChainOps
      <4>2. IsPiece(c, k)
        BY <4>1 DEF IsPiece
      <4>3. i \in 1..k
        BY <1>2, <4>2, OpsPiece
      <4>4. c[i].at = Records(S)[i] /\ c[i].block = Record({RecordEntry(S, i)}, Link(S, i))
        BY <4>1, <4>3 DEF Put
      <4>5. PICK l : l = Sorted(S)[i]
        OBVIOUS
      <4>6. /\ Records(S)[i] = RecordOf(S, l) /\ Records(S)[i] \in 1..(NBlocks - 1)
            /\ l \in Logicals(S)
            /\ e.start <= Records(S)[i] /\ Records(S)[i] < l.start /\ l.start <= Last(e)
        BY <1>3, <4>3, <4>5, RecordBlocks
      <4>7. l \in Part
        BY <4>6 DEF LaidOut, Logicals
      <4>8. l.start \in Nat /\ NBlocks \in Nat
        BY <4>7, PartBounds, ImageAssumption
      <4>9. PICK r \in Nat : r = Records(S)[i]
        BY <4>6
      <4>10. r # 0 /\ r \in Blocks /\ r <= Last(e) /\ l.start - r \in Nat
        BY <2>3, <4>6, <4>8, <4>9, SomeBlocks
      <4>11. RecordEntry(S, i) \in RecordEntries
        BY <4>5, <4>7, <4>9, <4>10 DEF RecordEntry, RecordEntries, Part
      <4>12. Link(S, i) \in Nat
        BY <1>3, <4>3, LinkTo
      <4>13. Record({RecordEntry(S, i)}, Link(S, i)) \in BootRecords
        BY <4>11, <4>12 DEF Record, BootRecords
      <4>14. \A q \in Logicals(S) : ~(q.start <= r /\ r <= Last(q))
        BY <4>6, <4>9, RecordApart
      <4>15. PICK q : q = RecordEntry(S, i)
        OBVIOUS
      <4>16. /\ q.off = l.start - r /\ q.size = l.size /\ l.size \in Nat /\ l.size # 0
             /\ Last(l) = l.start + l.size - 1 /\ 0 < q.off
        BY <4>5, <4>6, <4>7, <4>8, <4>9, <4>15, PartBounds DEF RecordEntry
      <4>17. PICK n2 : n2 = Link(S, i)
        OBVIOUS
      <4>18. ASSUME n2 # 0 PROVE r + q.off + q.size - 1 < e.start + n2
        <5>1. i < k /\ n2 = Records(S)[i + 1] - e.start /\ i + 1 \in 1..k
          BY <1>3, <4>3, <4>17, <4>18, LinkTo
        <5>2. Records(S)[i + 1] \in 1..(NBlocks - 1)
          BY <1>3, <5>1, RecordBlocks
        <5>3. Last(l) < Records(S)[i + 1]
          BY <1>3, <4>3, <4>5, <5>1, LinkPast
        <5>4. PICK a \in Nat : a = Records(S)[i + 1]
          BY <5>2
        <5> QED BY <2>3, <4>8, <4>9, <4>16, <5>1, <5>3, <5>4
      <4>19. c[i].at = r /\ c[i].block = Record({q}, n2)
        BY <4>4, <4>9, <4>15, <4>17
      <4>20. ASSUME NEW E \in Nat, \A f \in Extended(S) : f.start = E
             PROVE  InOrder(r, Record({q}, n2), E)
        <5>1. E = e.start
          BY <4>20
        <5> QED BY <4>16, <4>18, <5>1 DEF InOrder, Record
      <4>21. PutInOrder(c[i], S)
        BY <4>19, <4>20 DEF PutInOrder
      <4>22. c[i].block.tag = "ebr"
        BY <4>19 DEF Record
      <4> QED BY <4>4, <4>6, <4>9, <4>10, <4>13, <4>14, <4>21, <4>22 DEF RecordWrite, Contents
    <3> QED BY <3>1, <3>2
  <2>5. IsOps(c)
    BY <1>1, <1>2, <2>4 DEF IsOps, RecordWrite
  <2> QED BY <1>2, <1>5, <2>4, <2>5
<1> QED BY <1>4, <1>5

\* Block 0 holds the primary and extended partitions.
LEMMA SectorTops ==
  ASSUME NEW S, MbrTable(S), NEW y, y = Sector({Entry(p) : p \in NonLogical(S)})
  PROVE  /\ y \in MbrSectors /\ y.tag = "mbr"
         /\ Tops(y.entries) = NonLogical(Bare(S))
         /\ ~\E e \in y.entries : e.type = Protective
<1> DEFINE B(p) == [p EXCEPT !.ebr = 0]
<1>1. S \in SUBSET Part
  BY DEF MbrTable, LaidOut
<1>2. ASSUME NEW p \in NonLogical(S)
      PROVE  /\ Entry(p) \in SectorEntries /\ Entry(p).type # Protective
             /\ AsPart(Entry(p), RoleOf(Entry(p)), 0) = B(p)
  <2>1. p \in Part /\ p.role # "logical" /\ p \in S
    BY <1>1 DEF NonLogical
  <2>2. /\ p.name = "unnamed" /\ p.type # Protective
        /\ p.role = "extended" <=> p.type \in ExtTypes
    BY DEF MbrTable
  <2>3. p.role \in {"primary", "extended", "logical"}
    BY <2>1 DEF Part, Roles
  <2>4. RoleOf(Entry(p)) = p.role /\ Entry(p).type = p.type
    BY <2>1, <2>2, <2>3 DEF RoleOf, Entry
  <2>5. Entry(p) \in SectorEntries
    BY <2>1 DEF Entry, SectorEntries, Part
  <2>6. AsPart(Entry(p), p.role, 0) = B(p)
    BY <2>1, <2>2 DEF AsPart, Entry, Part
  <2> QED BY <2>2, <2>4, <2>5, <2>6
<1>3. y.entries = {Entry(p) : p \in NonLogical(S)} /\ y.tag = "mbr" /\ y \in MbrSectors
  BY <1>2 DEF Sector, MbrSectors
<1>4. Bare(NonLogical(S)) = {B(p) : p \in NonLogical(S)}
  BY DEF Bare
<1> HIDE DEF B
<1>5. Tops(y.entries) = {B(p) : p \in NonLogical(S)}
  BY <1>2, <1>3 DEF Tops
<1>6. ~\E e \in y.entries : e.type = Protective
  BY <1>2, <1>3
<1>7. NonLogical(Bare(S)) = Bare(NonLogical(S))
  BY <1>1, BareParts
<1> QED BY <1>3, <1>4, <1>5, <1>6, <1>7

\* One write of an MBR.
MbrWrite(o, S) ==
  /\ o.at \in Blocks /\ o.block \in Contents
  /\ \A p \in S : p.role # "extended" => ~(p.start <= o.at /\ o.at <= Last(p))
  /\ o.at = 0 => o.block = Sector({Entry(p) : p \in NonLogical(S)})
  /\ PutInOrder(o, S) /\ o.block.tag # "gpt"

LEMMA RecordSpares ==
  ASSUME NEW S, S \in SUBSET Part, Separate(S), NEW o, RecordWrite(o, S)
  PROVE  MbrWrite(o, S)
<1>1. PICK e \in Extended(S) : e.start <= o.at /\ o.at <= Last(e)
  BY DEF RecordWrite
<1>2. o.at \in Nat /\ o.at # 0 /\ o.at \in Blocks /\ o.block \in Contents
  BY SomeBlocks DEF RecordWrite
<1>3. ASSUME NEW p \in S, p.role # "extended" PROVE ~(p.start <= o.at /\ o.at <= Last(p))
  <2>1. p.role \in {"primary", "extended", "logical"} /\ p \in Part /\ e \in Part
    BY DEF Part, Roles, Extended
  <2>2. CASE p.role = "logical"
    BY <2>2 DEF RecordWrite, Logicals
  <2>3. CASE p.role = "primary"
    <3>1. ~Overlaps(p.start, Last(p), e.start, Last(e))
      BY <2>3 DEF Separate
    <3>2. p.start \in Nat /\ Last(p) \in Nat /\ e.start \in Nat /\ Last(e) \in Nat
      BY <2>1, PartBounds
    <3> QED BY <1>1, <1>2, <3>1, <3>2 DEF Overlaps
  <2> QED BY <1>3, <2>1, <2>2, <2>3
<1>4. PutInOrder(o, S) /\ o.block.tag # "gpt"
  BY DEF RecordWrite
<1> QED BY <1>2, <1>3, <1>4 DEF MbrWrite

LEMMA WipeSpares ==
  ASSUME NBlocks > 1, NEW d, NEW S, NEW o, IsHeaderWipe(o, d, S)
  PROVE  MbrWrite(o, S) /\ o.at # 0 /\ o.block = Zero /\ Signed(d[o.at])
<1>1. o.at \in {1, NBlocks - 1} /\ o.block = Zero /\ ~InsidePartition(S, o.at) /\ Signed(d[o.at])
  BY DEF IsHeaderWipe
<1>2. o.at \in Blocks /\ o.at # 0
  BY <1>1, SomeBlocks
<1>3. Zero \in Contents
  BY DEF Contents, Plain
<1>4. PutInOrder(o, S) /\ o.block.tag # "gpt"
  BY <1>1 DEF PutInOrder, InOrder, Zero
<1> QED BY <1>1, <1>2, <1>3, <1>4 DEF MbrWrite, InsidePartition

LEMMA SectorSpares ==
  ASSUME NEW S, MbrTable(S), Separate(S), NEW o, o.at = 0,
         o.block = Sector({Entry(p) : p \in NonLogical(S)})
  PROVE  MbrWrite(o, S)
<1>1. o.block \in Contents
  BY SectorTops DEF Contents
<1>2. ASSUME NEW p \in S PROVE ~(p.start <= 0)
  <2>1. p.start \in Nat
    BY PartBounds DEF MbrTable, LaidOut
  <2> QED BY <2>1 DEF Separate
<1>3. o.block.entries = {Entry(p) : p \in NonLogical(S)} /\ o.block.tag = "mbr"
  BY DEF Sector
<1>4. ASSUME NEW p \in NonLogical(S), Entry(p).type \in ExtTypes
      PROVE  p \in Extended(S) /\ Entry(p).start = p.start
  <2>1. p.role = "extended" <=> p.type \in ExtTypes
    BY DEF MbrTable
  <2>2. p \in S /\ Entry(p).type = p.type /\ Entry(p).start = p.start
    BY DEF NonLogical, Entry
  <2> QED BY <1>4, <2>1, <2>2 DEF Extended
<1>5. \A e, f \in Extended(S) : e = f
  BY DEF MbrTable, LaidOut
<1>6. PutInOrder(o, S) /\ o.block.tag # "gpt"
  BY <1>3, <1>4, <1>5 DEF PutInOrder, InOrder
<1> QED BY <1>1, <1>2, <1>6, SomeBlocks DEF MbrWrite

\* The writes are wipes of headers, block 0, and the chain.
LEMMA MbrWork ==
  ASSUME NBlocks > 1, NEW d, NEW t, MbrTable(t.parts), Separate(t.parts), NEW w, w = MbrWrites(d, t)
  PROVE  /\ IsOps(w) /\ w # <<>>
         /\ \A i \in 1..Len(w) : MbrWrite(w[i], t.parts)
         /\ Extended(t.parts) = {} =>
              \A i \in 1..(Len(w) - 1) : w[i].at # 0 /\ w[i].block = Zero /\ Signed(d[w[i].at])
<1> DEFINE S == t.parts
<1>1. LaidOut(S) /\ ExtendedOnDisk(S) /\ S \in SUBSET Part
  BY DEF MbrTable, LaidOut
<1>2. PICK c, n : c = ChainWrites(S) /\ n = Len(c)
  OBVIOUS
<1>3. PICK m \in Nat : \E x : x = MbrWrites(d, t) /\ WipesThenTable(x, d, S, c, n, m)
  BY <1>1, <1>2, MbrOps
<1>4. WipesThenTable(w, d, S, c, n, m)
  BY <1>3
<1>5. n \in Nat /\ (Extended(S) = {} => n = 0) /\ \A i \in 1..n : RecordWrite(c[i], S)
  BY <1>1, <1>2, ChainContents, OpsSeq
<1>6. PICK N \in Nat : N = m + 1 + n
  BY <1>5
<1>7. /\ DOMAIN w = 1..N /\ IsPiece(w, N)
      /\ \A i \in 1..m : IsHeaderWipe(w[i], d, S)
      /\ w[m + 1].at = 0 /\ w[m + 1].block = Sector({Entry(p) : p \in NonLogical(S)})
      /\ \A i \in 1..n : w[m + 1 + i] = c[i]
  BY <1>4, <1>6 DEF WipesThenTable
<1>8. Len(w) = N
  BY <1>7, OpsPiece
<1> HIDE DEF S
<1>9. ASSUME NEW i \in 1..N PROVE MbrWrite(w[i], S)
  <2>1. CASE i <= m
    <3>1. i \in 1..m
      BY <2>1
    <3> QED BY <1>7, <3>1, WipeSpares
  <2>2. CASE i = m + 1
    BY <1>7, <2>2, SectorSpares DEF S
  <2>3. CASE m + 1 < i
    <3>1. PICK j \in 1..n : i = m + 1 + j
      <4>1. i - (m + 1) \in 1..n /\ i = m + 1 + (i - (m + 1))
        BY <1>5, <1>6, <2>3
      <4> QED BY <4>1
    <3>2. w[i] = c[j] /\ RecordWrite(c[j], S)
      BY <1>5, <1>7, <3>1
    <3> QED BY <1>1, <3>2, RecordSpares DEF S
  <2> QED BY <2>1, <2>2, <2>3
<1>10. ASSUME Extended(S) = {}, NEW i \in 1..(N - 1)
       PROVE  w[i].at # 0 /\ w[i].block = Zero /\ Signed(d[w[i].at])
  <2>1. i \in 1..m
    BY <1>5, <1>6, <1>10
  <2> QED BY <1>7, <2>1, WipeSpares
<1>11. IsOps(w)
  BY <1>7, <1>9 DEF IsOps, MbrWrite
<1>12. w # <<>>
  <2>1. N # 0
    BY <1>5, <1>6
  <2> QED BY <1>8, <1>11, <2>1, OpsSeq
<1> QED BY <1>8, <1>9, <1>10, <1>11, <1>12 DEF S

-----------------------------------------------------------------------------
(* The writes of a deletion.                                               *)

LEMMA EraseWork ==
  ASSUME NBlocks > 2, NEW w, w = EraseWrites
  PROVE  IsOps(w) /\ w # <<>> /\ Len(w) = 3 /\ \A i \in 1..3 : w[i].block = Zero
<1>1. /\ IsPiece(w, 3)
      /\ w[1].at = 0 /\ w[1].block = Zero
      /\ w[2].at = 1 /\ w[2].block = Zero
      /\ w[3].at = NBlocks - 1 /\ w[3].block = Zero
  BY EraseOps
<1>2. PICK n \in Nat : n = 3
  OBVIOUS
<1>3. Len(w) = n
  BY <1>1, <1>2, OpsPiece
<1>4. \A i \in 1..n : i = 1 \/ i = 2 \/ i = 3
  BY <1>2
<1>5. Zero \in Contents
  BY DEF Contents, Plain
<1>6. \A i \in 1..n : w[i].at \in Blocks /\ w[i].block \in Contents /\ w[i].block = Zero
  BY <1>1, <1>4, <1>5, SomeBlocks
<1>7. IsOps(w)
  BY <1>1, <1>2, <1>6 DEF IsOps
<1>8. w # <<>>
  BY <1>2, <1>3, <1>7, OpsSeq
<1> QED BY <1>2, <1>3, <1>6, <1>7, <1>8
=============================================================================

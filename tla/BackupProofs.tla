---------------------------- MODULE BackupProofs ----------------------------
(***************************************************************************)
(* Proofs about backup and restore, for every disk, every place a restore  *)
(* is cut and every geometry: what a restore brings back, what it clears   *)
(* and what it never touches.                                              *)
(***************************************************************************)
EXTENDS BackupRestore, ImageProofs

-----------------------------------------------------------------------------
(* Lists of blocks.                                                        *)

\* s writes the blocks of A, each as the disk d has it, in some order.
Copies(s, d, A) ==
  /\ IsOps(s)
  /\ \A i \in 1..Len(s) : s[i].at \in A /\ s[i].block = d[s[i].at]
  /\ \A b \in A : \E i \in 1..Len(s) : s[i].at = b

LEMMA CopiesMade ==
  ASSUME NEW n \in Nat, NEW at, \A i \in 1..n : at[i] \in Blocks,
         NEW d, \A i \in 1..n : d[at[i]] \in Contents,
         NEW s, s = [i \in 1..n |-> Put(at[i], d[at[i]])]
  PROVE  Copies(s, d, {at[i] : i \in 1..n})
<1>1. \A i \in 1..n : s[i] = Put(at[i], d[at[i]])
  OBVIOUS
<1>2. \A i \in 1..n : s[i].at = at[i] /\ s[i].block = d[at[i]]
  BY <1>1 DEF Put
<1>3. s \in [1..n -> {s[i] : i \in 1..n}]
  OBVIOUS
<1>4. IsPiece(s, n)
  BY ONLY n \in Nat, <1>3 DEF IsPiece
<1>5. Len(s) = n
  BY ONLY n \in Nat, <1>4, OpsPiece
<1>6. \A i \in 1..n : at[i] \in Blocks /\ d[at[i]] \in Contents
  OBVIOUS
<1>7. IsOps(s)
  BY ONLY n \in Nat, <1>2, <1>4, <1>6 DEF IsOps
<1> QED BY ONLY n \in Nat, <1>2, <1>5, <1>7 DEF Copies

LEMMA CopiesNone == ASSUME NEW d PROVE Copies(<<>>, d, {})
<1>1. Len(<<>>) = 0
  OBVIOUS
<1> QED BY <1>1, OpsNone DEF Copies

LEMMA CopiesJoined ==
  ASSUME NEW d, NEW A, NEW s, Copies(s, d, A), NEW B, NEW t, Copies(t, d, B),
         NEW u, IsJoin(u, s, t)
  PROVE  Copies(u, d, A \cup B)
<1>1. /\ Len(s) \in Nat /\ IsPiece(s, Len(s)) /\ Len(t) \in Nat /\ IsPiece(t, Len(t))
      /\ \A i \in 1..Len(s) : s[i].at \in Blocks /\ s[i].block \in Contents
      /\ \A i \in 1..Len(t) : t[i].at \in Blocks /\ t[i].block \in Contents
  BY OpsSeq DEF Copies
<1>2. PICK m \in Nat, n \in Nat : m = Len(s) /\ n = Len(t)
  BY <1>1
<1>3. PICK X : X = {s[i] : i \in 1..m} \cup {t[i] : i \in 1..n}
  OBVIOUS
<1>4. OpList(s, m, X) /\ OpList(t, n, X)
  <2>1. s \in [1..m -> {s[i] : i \in 1..m}] /\ t \in [1..n -> {t[i] : i \in 1..n}]
    BY <1>1, <1>2 DEF IsPiece
  <2> QED BY <1>3, <2>1 DEF OpList
<1>5. OpList(u, m + n, X) /\ Begins(u, s, m) /\ Copied(u, m, t, n)
  BY <1>4, Joined
<1>6. IsPiece(u, m + n) /\ Len(u) = m + n
  <2>1. IsPiece(u, m + n)
    BY <1>5, ListedPiece
  <2> QED BY <2>1, OpsPiece
<1>7. \A i \in 1..m : u[i] = s[i] /\ i \in 1..(m + n)
  BY <1>5 DEF Begins
<1>8. \A i \in 1..n : u[m + i] = t[i] /\ m + i \in 1..(m + n)
  BY <1>5 DEF Copied
<1>9. \A j \in 1..(m + n) : j \in 1..m \/ \E i \in 1..n : j = m + i
  <2> TAKE j \in 1..(m + n)
  <2>1. j > m => j - m \in 1..n /\ j = m + (j - m)
    OBVIOUS
  <2> QED BY <2>1
<1>10. ASSUME NEW j \in 1..(m + n)
       PROVE  /\ u[j].at \in A \cup B /\ u[j].block = d[u[j].at]
              /\ u[j].at \in Blocks /\ u[j].block \in Contents
  <2>1. CASE j \in 1..m
    BY <1>1, <1>2, <1>7, <2>1 DEF Copies
  <2>2. ASSUME NEW i \in 1..n, j = m + i
        PROVE  /\ u[j].at \in A \cup B /\ u[j].block = d[u[j].at]
               /\ u[j].at \in Blocks /\ u[j].block \in Contents
    BY <1>1, <1>2, <1>8, <2>2 DEF Copies
  <2> QED BY <1>9, <2>1, <2>2
<1>11. ASSUME NEW b \in A \cup B PROVE \E j \in 1..(m + n) : u[j].at = b
  <2>1. CASE b \in A
    <3>1. PICK i \in 1..m : s[i].at = b
      BY <1>2, <2>1 DEF Copies
    <3> QED BY <1>7, <3>1
  <2>2. CASE b \in B
    <3>1. PICK i \in 1..n : t[i].at = b
      BY <1>2, <2>2 DEF Copies
    <3> QED BY <1>8, <3>1
  <2> QED BY <2>1, <2>2
<1>12. IsOps(u)
  BY <1>6, <1>10 DEF IsOps
<1> QED BY <1>6, <1>10, <1>11, <1>12 DEF Copies

\* Ascending lists the blocks of B.
LEMMA AscendingLists ==
  ASSUME NEW B \in SUBSET Blocks, NEW k, k = Cardinality(B)
  PROVE  /\ k \in Nat /\ DOMAIN Ascending(B) = 1..k /\ Len(Ascending(B)) = k
         /\ \A i \in 1..k : Ascending(B)[i] \in B
         /\ {Ascending(B)[i] : i \in 1..k} = B
<1> DEFINE rank(b) == Cardinality(BelowOf(B, b)) + 1
           f == [b \in B |-> rank(b)]
<1>1. IsFiniteSet(B) /\ k \in Nat
  <2>1. IsFiniteSet(Blocks)
    BY ImageAssumption, FS_Interval DEF Blocks
  <2> QED BY <2>1, FS_Subset, FS_CardinalityType
<1>2. ASSUME NEW b PROVE IsFiniteSet(BelowOf(B, b)) /\ Cardinality(BelowOf(B, b)) \in Nat
  <2>1. BelowOf(B, b) \subseteq B
    BY DEF BelowOf
  <2> QED BY <1>1, <2>1, FS_Subset, FS_CardinalityType
<1>3. B \subseteq Nat
  BY SomeBlocks
<1>4. ASSUME NEW b \in B PROVE rank(b) \in 1..k
  <2>1. BelowOf(B, b) \subseteq B \ {b}
    BY <1>3 DEF BelowOf
  <2>2. IsFiniteSet(B \ {b}) /\ Cardinality(B \ {b}) = k - 1
    BY <1>1, FS_RemoveElement
  <2>3. Cardinality(BelowOf(B, b)) <= k - 1
    BY <2>1, <2>2, FS_Subset
  <2> QED BY <1>1, <1>2, <2>3
<1>5. ASSUME NEW b \in B, NEW c \in B, b < c PROVE rank(b) < rank(c)
  <2>1. BelowOf(B, b) \subseteq BelowOf(B, c) /\ b \in BelowOf(B, c) /\ b \notin BelowOf(B, b)
    <3>1. b \in Nat /\ c \in Nat /\ ~(b < b)
      BY <1>3
    <3>2. \A x \in B : x < b => x < c
      BY <1>3, <1>5
    <3> QED BY <1>5, <3>1, <3>2 DEF BelowOf
  <2>2. Cardinality(BelowOf(B, b)) <= Cardinality(BelowOf(B, c))
        /\ Cardinality(BelowOf(B, b)) # Cardinality(BelowOf(B, c))
    BY <1>2, <2>1, FS_Subset
  <2> QED BY <1>2, <2>2
<1>6. ASSUME NEW b \in B, NEW c \in B, rank(b) = rank(c) PROVE b = c
  <2>1. rank(b) \in Nat /\ rank(c) \in Nat
    BY <1>2
  <2>2. b \in Nat /\ c \in Nat
    BY <1>3
  <2> HIDE DEF rank
  <2> QED BY <1>5, <1>6, <2>1, <2>2
<1>7. f \in Injection(B, 1..k)
  BY <1>4, <1>6 DEF Injection, IsInjective
<1>8. IsFiniteSet(1..k) /\ Cardinality(1..k) = k
  BY <1>1, FS_Interval
<1>9. f \in Surjection(B, 1..k)
  BY <1>7, <1>8, FS_Injection, <1>1
<1>10. \A i \in 1..k : \E b \in B : rank(b) = i
  BY <1>9 DEF Surjection
<1>11. ASSUME NEW i \in 1..k PROVE Ascending(B)[i] \in B /\ rank(Ascending(B)[i]) = i
  <2>1. PICK b \in B : rank(b) = i
    BY <1>10
  <2>2. Cardinality({c \in B : c < b}) = i - 1
    <3>1. PICK n \in Nat : n = Cardinality(BelowOf(B, b))
      BY <1>2
    <3>2. n = i - 1
      BY <2>1, <3>1
    <3> QED BY <3>1, <3>2 DEF BelowOf
  <2>3. Ascending(B)[i] = CHOOSE x \in B : Cardinality({c \in B : c < x}) = i - 1
    BY DEF Ascending
  <2>4. Ascending(B)[i] \in B /\ Cardinality({c \in B : c < Ascending(B)[i]}) = i - 1
    BY ONLY <2>2, <2>3, b \in B
  <2> QED BY <1>2, <2>4 DEF BelowOf
<1>12. DOMAIN Ascending(B) = 1..k /\ Len(Ascending(B)) = k
  <2>1. DOMAIN Ascending(B) = 1..k
    BY DEF Ascending
  <2>2. Ascending(B) \in [1..k -> B]
    <3> DEFINE at(i) == CHOOSE b \in B : Cardinality({c \in B : c < b}) = i - 1
    <3>1. Ascending(B) = [i \in 1..k |-> at(i)]
      BY DEF Ascending
    <3> HIDE DEF at
    <3>2. \A i \in 1..k : at(i) \in B
      BY ONLY <1>11, <3>1
    <3> QED BY ONLY <3>1, <3>2
  <2>3. Ascending(B) \in Seq(B)
    BY <1>1, <2>2
  <2> QED BY <1>1, <2>1, <2>3, LenProperties
<1>13. ASSUME NEW b \in B PROVE \E i \in 1..k : Ascending(B)[i] = b
  BY <1>4, <1>6, <1>11
<1> HIDE DEF rank, f
<1> QED BY <1>1, <1>11, <1>12, <1>13

LEMMA AscendingCopies ==
  ASSUME NEW B \in SUBSET Blocks, NEW d \in [Blocks -> Contents],
         NEW s, s = [i \in 1..Len(Ascending(B)) |-> Put(Ascending(B)[i], d[Ascending(B)[i]])]
  PROVE  Copies(s, d, B)
<1>1. PICK k, a : k \in Nat /\ k = Cardinality(B) /\ a = Ascending(B)
  BY AscendingLists
<1>2. Len(a) = k /\ (\A i \in 1..k : a[i] \in B) /\ {a[i] : i \in 1..k} = B
  BY <1>1, AscendingLists
<1>3. \A i \in 1..k : a[i] \in Blocks /\ d[a[i]] \in Contents
  BY <1>2
<1>4. s = [i \in 1..k |-> Put(a[i], d[a[i]])]
  BY <1>1, <1>2
<1>5. Copies(s, d, {a[i] : i \in 1..k})
  BY ONLY <1>1, <1>3, <1>4, CopiesMade
<1> QED BY <1>2, <1>5

\* The blocks of the disk among the count from lba on.
Stretch(lba, count) == {b \in Blocks : lba <= b /\ b < lba + count}

LEMMA ExtentCopies ==
  ASSUME NEW d \in [Blocks -> Contents], NEW lba \in Nat, NEW count \in Nat,
         NEW s, s = Extent(d, lba, count)
  PROVE  Copies(s, d, Stretch(lba, count))
<1>1. NBlocks \in Nat
  BY ImageAssumption
<1>2. PICK n \in Nat :
        n = IF lba >= NBlocks THEN 0 ELSE IF count > NBlocks - lba THEN NBlocks - lba ELSE count
  <2>1. CASE lba >= NBlocks
    BY <2>1
  <2>2. CASE ~(lba >= NBlocks) /\ count > NBlocks - lba
    <3>1. NBlocks - lba \in Nat
      BY <1>1, <2>2
    <3> QED BY <2>2, <3>1
  <2>3. CASE ~(lba >= NBlocks) /\ ~(count > NBlocks - lba)
    BY <2>3
  <2> QED BY <2>1, <2>2, <2>3
<1>3. PICK at : at = [i \in 1..n |-> lba + i - 1]
  OBVIOUS
<1>4. \A i \in 1..n : at[i] = lba + i - 1
  BY <1>3
<1>5. \A i \in 1..n : at[i] \in Nat /\ at[i] < NBlocks /\ lba <= at[i] /\ at[i] < lba + count
  BY ONLY <1>1, <1>2, <1>4, n \in Nat, lba \in Nat, count \in Nat
<1>6. \A i \in 1..n : at[i] \in Blocks /\ d[at[i]] \in Contents
  BY <1>5, SomeBlocks
<1>7. s = [i \in 1..n |-> Put(at[i], d[at[i]])]
  <2>1. s = [i \in 1..n |-> Put(lba + i - 1, d[lba + i - 1])]
    BY <1>2 DEF Extent
  <2> QED BY ONLY <1>4, <2>1
<1>8. Copies(s, d, {at[i] : i \in 1..n})
  BY ONLY <1>6, <1>7, CopiesMade, n \in Nat
<1>9. {at[i] : i \in 1..n} = Stretch(lba, count)
  <2>1. ASSUME NEW b \in Stretch(lba, count) PROVE \E i \in 1..n : at[i] = b
    <3>1. b \in Nat /\ b < NBlocks /\ lba <= b /\ b < lba + count
      BY SomeBlocks DEF Stretch
    <3>2. PICK i \in Nat : i = b - lba + 1
      BY <3>1
    <3>3. i \in 1..n /\ lba + i - 1 = b
      BY ONLY <1>1, <1>2, <3>1, <3>2, lba \in Nat, count \in Nat, n \in Nat, i \in Nat
    <3> QED BY <1>4, <3>3
  <2>2. ASSUME NEW i \in 1..n PROVE at[i] \in Stretch(lba, count)
    BY <1>5, <1>6 DEF Stretch
  <2> QED BY <2>1, <2>2
<1> QED BY <1>8, <1>9

\* The blocks of the table t.
TableBlocks(t) ==
  {0} \cup IF t.kind = "gpt"
             THEN Stretch(1, 1) \cup Stretch(t.pent, ArrBlocks) \cup Stretch(t.blba, 1)
                    \cup (IF t.bent # 0 THEN Stretch(t.bent, ArrBlocks) ELSE {})
             ELSE ChainRecordBlocks(t.parts)

LEMMA ExtentsCopy ==
  ASSUME NEW d \in [Blocks -> Contents], NEW t \in TableRecords,
         NEW s, s = Extents(d, t)
  PROVE  Copies(s, d, TableBlocks(t))
<1>1. t.pent \in Nat /\ t.blba \in Nat /\ t.bent \in Nat /\ ArrBlocks \in Nat
  BY SomeBlocks DEF TableRecords
<1>2. PICK z : z = Extent(d, 0, 1)
  OBVIOUS
<1>3. Copies(z, d, {0})
  <2>1. Stretch(0, 1) = {0}
    BY SomeBlocks DEF Stretch
  <2> QED BY <1>2, <2>1, ExtentCopies
<1>4. CASE t.kind = "gpt"
  <2>1. PICK a, p, h : a = Extent(d, 1, 1) /\ p = Extent(d, t.pent, ArrBlocks) /\ h = Extent(d, t.blba, 1)
    OBVIOUS
  <2>2. /\ Copies(a, d, Stretch(1, 1)) /\ Copies(p, d, Stretch(t.pent, ArrBlocks))
        /\ Copies(h, d, Stretch(t.blba, 1))
    BY <1>1, <2>1, ExtentCopies
  <2>3. PICK e : e = IF t.bent # 0 THEN Extent(d, t.bent, ArrBlocks) ELSE <<>>
    OBVIOUS
  <2>4. PICK E : E = IF t.bent # 0 THEN Stretch(t.bent, ArrBlocks) ELSE {}
    OBVIOUS
  <2>5. Copies(e, d, E)
    BY <1>1, <2>3, <2>4, ExtentCopies, CopiesNone
  <2>6. PICK u1 : IsJoin(u1, a, p)
    BY DEF IsJoin
  <2>7. PICK u2 : IsJoin(u2, u1, h)
    BY DEF IsJoin
  <2>8. PICK u3 : IsJoin(u3, u2, e)
    BY DEF IsJoin
  <2>9. IsJoin(s, z, u3)
    BY <1>2, <1>4, <2>1, <2>3, <2>6, <2>7, <2>8, Zenon DEF IsJoin, Extents
  <2>10. Copies(u1, d, Stretch(1, 1) \cup Stretch(t.pent, ArrBlocks))
    BY <2>2, <2>6, CopiesJoined
  <2>11. Copies(u2, d, (Stretch(1, 1) \cup Stretch(t.pent, ArrBlocks)) \cup Stretch(t.blba, 1))
    BY <2>2, <2>7, <2>10, CopiesJoined
  <2>12. Copies(u3, d, ((Stretch(1, 1) \cup Stretch(t.pent, ArrBlocks)) \cup Stretch(t.blba, 1)) \cup E)
    BY <2>5, <2>8, <2>11, CopiesJoined
  <2>13. Copies(s, d, {0} \cup (((Stretch(1, 1) \cup Stretch(t.pent, ArrBlocks)) \cup Stretch(t.blba, 1)) \cup E))
    BY <1>3, <2>9, <2>12, CopiesJoined
  <2> QED BY <1>4, <2>4, <2>13 DEF TableBlocks
<1>5. CASE t.kind # "gpt"
  <2>1. PICK c : c = ChainExtents(d, t.parts)
    OBVIOUS
  <2>2. Copies(c, d, ChainRecordBlocks(t.parts))
    <3>1. ChainRecordBlocks(t.parts) \in SUBSET Blocks
      BY DEF ChainRecordBlocks
    <3> QED BY <2>1, <3>1, AscendingCopies DEF ChainExtents
  <2>3. IsJoin(s, z, c)
    BY <1>2, <1>5, <2>1, Zenon DEF IsJoin, Extents
  <2>4. Copies(s, d, {0} \cup ChainRecordBlocks(t.parts))
    BY <1>3, <2>2, <2>3, CopiesJoined
  <2> QED BY <1>5, <2>4 DEF TableBlocks
<1> QED BY <1>4, <1>5

\* The clearing of a GPT writes zeros to its blocks outside the partitions S.
ClearedBlocks(t, S) ==
  {b \in PrimaryBlocks(t) \cup BackupBlocks(t) : b < NBlocks /\ ~InsidePartition(S, b)}

Zeros == [b \in Blocks |-> Zero]

LEMMA ClearCopies ==
  ASSUME NEW t, PrimaryBlocks(t) \subseteq Nat, BackupBlocks(t) \subseteq Nat, NEW S,
         NEW s, s = ClearWrites(t, S)
  PROVE  Copies(s, Zeros, ClearedBlocks(t, S))
<1>1. Zeros \in [Blocks -> Contents]
  BY DEF Zeros, Contents, Plain
<1>2. ASSUME NEW B \in SUBSET Blocks, NEW z, z = Clear(B) PROVE Copies(z, Zeros, B)
  <2>1. PICK k, a : k \in Nat /\ k = Len(a) /\ a = Ascending(B) /\ \A i \in 1..k : a[i] \in Blocks
    BY AscendingLists
  <2>2. \A i \in 1..k : Put(a[i], Zero) = Put(a[i], Zeros[a[i]])
    BY <2>1 DEF Zeros
  <2>3. z = [i \in 1..k |-> Put(a[i], Zero)]
    BY <1>2, <2>1 DEF Clear
  <2>4. z = [i \in 1..k |-> Put(a[i], Zeros[a[i]])]
    BY ONLY <2>2, <2>3
  <2> QED BY <1>1, <2>1, <2>4, AscendingCopies
<1>3. PICK P : P = {b \in PrimaryBlocks(t) : b < NBlocks /\ ~InsidePartition(S, b)}
  OBVIOUS
<1>4. PICK B : B = {b \in BackupBlocks(t) : b < NBlocks /\ ~InsidePartition(S, b)}
  OBVIOUS
<1>5. P \in SUBSET Blocks /\ B \in SUBSET Blocks
  BY <1>3, <1>4, SomeBlocks
<1>6. PICK p, q : p = Clear(P) /\ q = Clear(B)
  OBVIOUS
<1>7. Copies(p, Zeros, P) /\ Copies(q, Zeros, B)
  BY <1>2, <1>5, <1>6
<1>8. IsJoin(s, p, q)
  BY <1>3, <1>4, <1>6 DEF IsJoin, ClearWrites
<1>9. Copies(s, Zeros, P \cup B)
  BY <1>7, <1>8, CopiesJoined
<1>10. P \cup B = ClearedBlocks(t, S)
  BY <1>3, <1>4 DEF ClearedBlocks
<1> QED BY <1>9, <1>10

-----------------------------------------------------------------------------
(* What is on the disk.                                                    *)

\* A block b of a disk: a sector has one extended partition at most, and a primary
\* header has its array behind it and gives a place for the other copy that is
\* clear of block 0.
BlockOK(b, x) ==
  /\ x \in Contents
  /\ b = 0 /\ x.tag = "mbr" =>
       \A e, f \in x.entries : e.type \in ExtTypes /\ f.type \in ExtTypes => e = f
  /\ b = 1 /\ x.tag = "gpt" => x.ents = 2 /\ x.alt > ArrBlocks

DiskOK(d) == d \in [Blocks -> Contents] /\ \A b \in Blocks : BlockOK(b, d[b])

LEMMA ZeroOK == ASSUME NEW b PROVE BlockOK(b, Zero)
BY DEF BlockOK, Zero, Contents, Plain

LEMMA DiskWritten ==
  ASSUME NEW d, DiskOK(d), NEW c \in Blocks, NEW y, BlockOK(c, y), NEW x, x = [d EXCEPT ![c] = y]
  PROVE  DiskOK(x) /\ x[c] = y /\ \A b \in Blocks : b # c => x[b] = d[b]
BY DEF DiskOK, BlockOK

\* Where the copies of a GPT are.
LEMMA GptPlaces ==
  ASSUME NBlocks > 2 * ArrBlocks + 3, NEW d, DiskOK(d), Read(d).kind = "gpt",
         NEW t, t = Read(d)
  PROVE  /\ t.pent = 2 /\ t.blba \in Nat /\ t.blba > ArrBlocks
         /\ GoodCopy(d, 1) => t.parts = d[1].parts /\ t.blba = d[1].alt
         /\ ~GoodCopy(d, 1) => /\ t.blba = NBlocks - 1 /\ GoodCopy(d, NBlocks - 1)
                               /\ t.parts = d[NBlocks - 1].parts
                               /\ t.bent = d[NBlocks - 1].ents
<1>0. NBlocks \in Nat /\ ArrBlocks \in Nat \ {0} /\ 1 \in Blocks /\ NBlocks - 1 \in Blocks
  BY SomeBlocks
<1>1. ~MbrDisk(d)
  BY MbrReading
<1>2. PICK h : Read(d) = ReadGpt(d, h)
  BY <1>1 DEF Read, MbrDisk, NoTable
<1>3. CASE GoodCopy(d, 1)
  <2>1. d[1].tag = "gpt" /\ BlockOK(1, d[1]) /\ d[1] \in Contents
    BY <1>0, <1>3 DEF GoodCopy, DiskOK
  <2>2. d[1].ents = 2 /\ d[1].alt > ArrBlocks /\ d[1] \in GptHeaders
    BY <2>1, Tags DEF BlockOK
  <2>3. d[1].alt \in Nat
    BY <2>2 DEF GptHeaders
  <2>4. t.pent = d[1].ents /\ t.blba = d[1].alt /\ t.parts = d[1].parts
    BY <1>2, <1>3 DEF ReadGpt
  <2> QED BY <1>3, <2>2, <2>3, <2>4
<1>4. CASE ~GoodCopy(d, 1)
  <2>1. GoodCopy(d, NBlocks - 1)
    BY <1>2, <1>4 DEF ReadGpt, NoTable
  <2>2. /\ t.pent = 2 /\ t.blba = NBlocks - 1 /\ t.parts = d[NBlocks - 1].parts
        /\ t.bent = d[NBlocks - 1].ents
    BY <1>2, <1>4, <2>1 DEF ReadGpt
  <2>3. NBlocks - 1 \in Nat /\ NBlocks - 1 > ArrBlocks
    BY <1>0
  <2> QED BY <1>4, <2>1, <2>2, <2>3
<1> QED BY <1>3, <1>4

\* A copy is as good on a disk with the same header and array.
LEMMA SameCopy ==
  ASSUME NEW d, NEW x, NEW b \in Blocks, x[b] = d[b],
         d[b].tag = "gpt" => d[b].ents \in Nat /\ \A c \in Stretch(d[b].ents, ArrBlocks) : x[c] = d[c]
  PROVE  GoodCopy(x, b) <=> GoodCopy(d, b)
<1>1. CASE d[b].tag # "gpt" \/ ~(d[b].ents + ArrBlocks <= NBlocks)
  BY <1>1 DEF GoodCopy
<1>2. CASE d[b].tag = "gpt" /\ d[b].ents + ArrBlocks <= NBlocks
  <2>1. PICK n \in Nat : n = d[b].ents
    BY <1>2
  <2>2. ASSUME NEW i \in 0..(ArrBlocks - 1) PROVE x[n + i] = d[n + i]
    <3>1. n + i \in Nat /\ n + i < NBlocks /\ n <= n + i /\ n + i < n + ArrBlocks
      BY <1>2, <2>1, SomeBlocks
    <3>2. n + i \in Stretch(n, ArrBlocks)
      BY <3>1, SomeBlocks DEF Stretch
    <3> QED BY <1>2, <2>1, <3>2
  <2>3. \A i \in 0..(ArrBlocks - 1) : x[d[b].ents + i] = d[d[b].ents + i]
    BY <2>1, <2>2
  <2> QED BY <2>3 DEF GoodCopy
<1> QED BY <1>1, <1>2

\* A disk that has the blocks of a GPT shows that GPT.
LEMMA RestoredGpt ==
  ASSUME NBlocks > 2 * ArrBlocks + 3, NEW d, DiskOK(d), Read(d).kind = "gpt",
         NEW x, DiskOK(x), \A b \in TableBlocks(Read(d)) : x[b] = d[b]
  PROVE  Read(x).kind = "gpt" /\ Read(x).parts = Read(d).parts
<1>0. /\ NBlocks \in Nat /\ ArrBlocks \in Nat \ {0} /\ 0 \in Blocks /\ 1 \in Blocks
      /\ NBlocks - 1 \in Blocks /\ NBlocks > 1
  BY SomeBlocks
<1>1. PICK t : t = Read(d)
  OBVIOUS
<1>2. /\ t.pent = 2 /\ t.blba \in Nat
      /\ GoodCopy(d, 1) => t.parts = d[1].parts
      /\ ~GoodCopy(d, 1) => /\ t.blba = NBlocks - 1 /\ GoodCopy(d, NBlocks - 1)
                            /\ t.parts = d[NBlocks - 1].parts /\ t.bent = d[NBlocks - 1].ents
  BY <1>1, GptPlaces
<1>3. TableBlocks(t) = {0} \cup (Stretch(1, 1) \cup Stretch(t.pent, ArrBlocks) \cup Stretch(t.blba, 1)
                                   \cup (IF t.bent # 0 THEN Stretch(t.bent, ArrBlocks) ELSE {}))
  BY <1>1 DEF TableBlocks
<1>4. x[0] = d[0] /\ x[1] = d[1]
  <2>1. 1 \in Stretch(1, 1)
    BY <1>0 DEF Stretch
  <2> QED BY <1>1, <1>3, <2>1
<1>5. \A c \in Stretch(2, ArrBlocks) : x[c] = d[c]
  BY <1>1, <1>2, <1>3
<1>6. GoodCopy(x, 1) <=> GoodCopy(d, 1)
  <2>1. d[1].tag = "gpt" => d[1].ents = 2
    BY <1>0 DEF DiskOK, BlockOK
  <2> QED BY <1>0, <1>4, <1>5, <2>1, SameCopy
<1>7. ~GoodCopy(d, 1) =>
        x[NBlocks - 1] = d[NBlocks - 1] /\ GoodCopy(x, NBlocks - 1)
  <2> SUFFICES ASSUME ~GoodCopy(d, 1) PROVE x[NBlocks - 1] = d[NBlocks - 1] /\ GoodCopy(x, NBlocks - 1)
    OBVIOUS
  <2>1. PICK l : l = NBlocks - 1
    OBVIOUS
  <2>2. l \in Blocks /\ GoodCopy(d, l) /\ t.blba = l /\ t.bent = d[l].ents
    BY <1>0, <1>2, <2>1
  <2>3. l \in Stretch(l, 1)
    BY <2>2, SomeBlocks DEF Stretch
  <2>4. x[l] = d[l]
    BY <1>1, <1>3, <2>2, <2>3
  <2>5. d[l] \in GptHeaders
    BY <2>2, Tags DEF GoodCopy, DiskOK
  <2>6. d[l].ents \in Nat /\ d[l].ents # 0
    BY <2>5 DEF GptHeaders
  <2>7. \A c \in Stretch(d[l].ents, ArrBlocks) : x[c] = d[c]
    BY <1>1, <1>3, <2>2, <2>6
  <2>8. GoodCopy(x, l)
    BY <2>2, <2>4, <2>6, <2>7, SameCopy
  <2> QED BY <2>1, <2>4, <2>8
<1>8. ~MbrDisk(d) /\ ~MbrDisk(x)
  BY <1>4, MbrReading DEF MbrDisk
<1>9. d[0].tag = "mbr" \/ Signed(d[1])
  BY <1>8 DEF Read, MbrDisk, NoTable
<1>10. PICK h : Read(x) = ReadGpt(x, h)
  BY <1>0, <1>4, <1>8, <1>9, GptReading
<1>11. CASE GoodCopy(d, 1)
  <2>1. Read(x).kind = "gpt" /\ Read(x).parts = x[1].parts
    BY <1>6, <1>10, <1>11 DEF ReadGpt
  <2> QED BY <1>1, <1>2, <1>4, <1>11, <2>1
<1>12. CASE ~GoodCopy(d, 1)
  <2>1. Read(x).kind = "gpt" /\ Read(x).parts = x[NBlocks - 1].parts
    BY <1>6, <1>7, <1>10, <1>12 DEF ReadGpt
  <2> QED BY <1>1, <1>2, <1>7, <1>12, <2>1
<1> QED BY <1>11, <1>12

-----------------------------------------------------------------------------
(* A chain that is backed up.                                              *)

\* Of two records on a walk the later is on the walk from the earlier, and the
\* walk stays inside the extended partition.
LEMMA WalkedOrder ==
  ASSUME NEW d, Linked(d), NEW e, e.start \in Nat, e.size \in Nat, NEW f, Walked(f, d, e, 0)
  PROVE  \A b \in Nat : \A x, y \in f[b] :
           (x <= y => y \in f[x]) /\ b <= x /\ (x = b \/ x < e.start + e.size)
<1> DEFINE Good(b) == \A x, y \in f[b] :
                        (x <= y => y \in f[x]) /\ b <= x /\ (x = b \/ x < e.start + e.size)
           S == {k \in Nat : \A b \in Nat : b + k >= NBlocks => Good(b)}
<1>0. NBlocks \in Nat
  BY ImageAssumption
<1>1. /\ f \in [Nat -> SUBSET Nat]
      /\ \A b \in Nat : f[b] = IF IsRecord(d, b) THEN {b} \cup f[Follow(d, e, b)] ELSE {}
  BY DEF Walked
<1>2. 0 \in S
  <2>1. ASSUME NEW b \in Nat, b + 0 >= NBlocks PROVE Good(b)
    <3>1. ~IsRecord(d, b)
      BY <2>1, <1>0 DEF IsRecord
    <3> QED BY <3>1, <1>1
  <2> QED BY <2>1
<1>3. ASSUME NEW k \in Nat, k \in S PROVE k + 1 \in S
  <2>1. ASSUME NEW b \in Nat, b + (k + 1) >= NBlocks PROVE Good(b)
    <3>1. CASE IsRecord(d, b)
      <4>1. Follow(d, e, b) \in Nat /\ b < Follow(d, e, b)
        BY <3>1, FollowForward
      <4>2. PICK g \in Nat : g = Follow(d, e, b)
        BY <4>1
      <4>3. g + k >= NBlocks
        BY <4>1, <4>2, <2>1, <1>0
      <4>4. Good(g)
        BY <4>3, <1>3
      <4>5. f[b] = {b} \cup f[g] /\ f[g] \subseteq Nat
        BY <3>1, <4>2, <1>1
      <4>6. ASSUME NEW x \in f[g] PROVE x < e.start + e.size
        <5>1. g <= x /\ (x = g \/ x < e.start + e.size)
          BY <4>4, <4>6
        <5>2. IsRecord(d, g)
          BY <1>1, <4>6
        <5>3. g # NBlocks
          BY <5>2, <1>0 DEF IsRecord
        <5>4. d[b].next < e.size /\ g = e.start + d[b].next
          BY <4>2, <5>3 DEF Follow
        <5>5. d[b].next \in Nat
          BY <3>1, SomeBlocks DEF Linked, IsRecord
        <5> QED BY <5>1, <5>4, <5>5
      <4>7. ASSUME NEW x \in f[b], NEW y \in f[b]
            PROVE  (x <= y => y \in f[x]) /\ b <= x /\ (x = b \/ x < e.start + e.size)
        <5>1. x \in Nat /\ y \in Nat
          BY <4>5
        <5>2. CASE x = b
          BY <4>5, <5>1, <5>2
        <5>3. CASE x # b
          <6>1. x \in f[g]
            BY <4>5, <5>3
          <6>2. g <= x /\ b < x
            BY <4>1, <4>2, <4>4, <5>1, <6>1
          <6>3. x <= y => y \in f[g]
            BY <4>5, <5>1, <6>2
          <6>4. x <= y => y \in f[x]
            BY <4>4, <6>1, <6>3
          <6> QED BY <4>6, <5>1, <6>1, <6>2, <6>4
        <5> QED BY <5>2, <5>3
      <4> QED BY <4>7
    <3>2. CASE ~IsRecord(d, b)
      BY <3>2, <1>1
    <3> QED BY <3>1, <3>2
  <2> QED BY <2>1
<1> HIDE DEF S
<1>4. NBlocks \in S
  BY <1>0, <1>2, <1>3, NatSet
<1>5. \A b \in Nat : b + NBlocks >= NBlocks
  BY <1>0
<1> QED BY <1>4, <1>5 DEF S

\* What reading the records c looks at on d is the same on x.
SameLook(d, x, e, c) ==
  x[c] = d[c] /\ (Follow(d, e, c) \in Blocks => x[Follow(d, e, c)] = d[Follow(d, e, c)])

\* The walk is the same on a disk that is the same wherever the walk looks.
LEMMA SameWalk ==
  ASSUME NEW d, Linked(d), NEW x, Linked(x), NEW e, e.start \in Nat,
         NEW f, Walked(f, d, e, 0), NEW g, Walked(g, x, e, 0)
  PROVE  \A a \in Nat :
           (a \in Blocks => x[a] = d[a]) /\ (\A c \in f[a] : SameLook(d, x, e, c)) => g[a] = f[a]
<1> DEFINE Looks(a) == (a \in Blocks => x[a] = d[a]) /\ \A c \in f[a] : SameLook(d, x, e, c)
           S == {k \in Nat : \A a \in Nat : a + k >= NBlocks => (Looks(a) => g[a] = f[a])}
<1>0. NBlocks \in Nat
  BY ImageAssumption
<1>1. /\ \A b \in Nat : f[b] = IF IsRecord(d, b) THEN {b} \cup f[Follow(d, e, b)] ELSE {}
      /\ \A b \in Nat : g[b] = IF IsRecord(x, b) THEN {b} \cup g[Follow(x, e, b)] ELSE {}
  BY DEF Walked
<1>2. 0 \in S
  <2>1. ASSUME NEW a \in Nat, a + 0 >= NBlocks PROVE g[a] = f[a]
    <3>1. ~IsRecord(d, a) /\ ~IsRecord(x, a)
      BY <2>1, <1>0 DEF IsRecord
    <3> QED BY <3>1, <1>1
  <2> QED BY <2>1
<1>3. ASSUME NEW k \in Nat, k \in S PROVE k + 1 \in S
  <2>1. ASSUME NEW a \in Nat, a + (k + 1) >= NBlocks, Looks(a) PROVE g[a] = f[a]
    <3>1. CASE ~IsRecord(d, a)
      <4>1. ~IsRecord(x, a)
        <5>1. a \in Blocks \/ ~(a < NBlocks)
          BY <1>0 DEF Blocks
        <5> QED BY <2>1, <3>1, <5>1 DEF IsRecord
      <4> QED BY <1>1, <3>1, <4>1
    <3>2. CASE IsRecord(d, a)
      <4>1. Follow(d, e, a) \in Nat /\ a < Follow(d, e, a)
        BY <3>2, FollowForward
      <4>2. PICK n \in Nat : n = Follow(d, e, a)
        BY <4>1
      <4>3. n + k >= NBlocks
        BY <4>1, <4>2, <2>1, <1>0
      <4>4. f[a] = {a} \cup f[n]
        BY <1>1, <3>2, <4>2
      <4>5. x[a] = d[a] /\ (n \in Blocks => x[n] = d[n])
        BY <2>1, <4>2, <4>4 DEF SameLook
      <4>6. IsRecord(x, a) /\ Follow(x, e, a) = n
        BY <3>2, <4>2, <4>5 DEF IsRecord, Follow
      <4>7. g[a] = {a} \cup g[n]
        BY <1>1, <4>6
      <4>8. Looks(n)
        BY <2>1, <4>4, <4>5
      <4>9. g[n] = f[n]
        BY <1>3, <4>3, <4>8
      <4> QED BY <4>4, <4>7, <4>9
    <3> QED BY <3>1, <3>2
  <2> QED BY <2>1
<1> HIDE DEF S
<1>4. NBlocks \in S
  BY <1>0, <1>2, <1>3, NatSet
<1>5. \A b \in Nat : b + NBlocks >= NBlocks
  BY <1>0
<1> QED BY <1>4, <1>5 DEF S

\* Up to a record m of the walk it is the same where the disk is the same at its
\* records up to m.
LEMMA SamePrefix ==
  ASSUME NEW d, Linked(d), NEW x, Linked(x), NEW e, e.start \in Nat, e.size \in Nat,
         NEW f, Walked(f, d, e, 0), NEW g, Walked(g, x, e, 0), NEW m \in Nat
  PROVE  \A a \in Nat :
           m \in f[a] /\ (\A c \in f[a] : c <= m => x[c] = d[c]) =>
             \A c \in Nat : c <= m => (c \in g[a] <=> c \in f[a])
<1> DEFINE Agree(a) == m \in f[a] /\ \A c \in f[a] : c <= m => x[c] = d[c]
           Same(a) == \A c \in Nat : c <= m => (c \in g[a] <=> c \in f[a])
           S == {k \in Nat : \A a \in Nat : a + k >= NBlocks => (Agree(a) => Same(a))}
<1>0. NBlocks \in Nat
  BY ImageAssumption
<1>1. /\ \A b \in Nat : f[b] = IF IsRecord(d, b) THEN {b} \cup f[Follow(d, e, b)] ELSE {}
      /\ \A b \in Nat : g[b] = IF IsRecord(x, b) THEN {b} \cup g[Follow(x, e, b)] ELSE {}
      /\ f \in [Nat -> SUBSET Nat] /\ g \in [Nat -> SUBSET Nat]
  BY DEF Walked
<1>2. 0 \in S
  <2>1. ASSUME NEW a \in Nat, a + 0 >= NBlocks, m \in f[a] PROVE FALSE
    <3>1. ~IsRecord(d, a)
      BY <2>1, <1>0 DEF IsRecord
    <3> QED BY <2>1, <3>1, <1>1
  <2> QED BY <2>1
<1>3. ASSUME NEW k \in Nat, k \in S PROVE k + 1 \in S
  <2>1. ASSUME NEW a \in Nat, a + (k + 1) >= NBlocks, Agree(a) PROVE Same(a)
    <3>1. IsRecord(d, a)
      BY <1>1, <2>1
    <3>2. Follow(d, e, a) \in Nat /\ a < Follow(d, e, a)
      BY <3>1, FollowForward
    <3>3. PICK n \in Nat : n = Follow(d, e, a)
      BY <3>2
    <3>4. n + k >= NBlocks
      BY <3>2, <3>3, <2>1, <1>0
    <3>5. f[a] = {a} \cup f[n]
      BY <1>1, <3>1, <3>3
    <3>6. \A c \in f[a] : a <= c
      BY WalkedOrder
    <3>7. x[a] = d[a]
      BY <2>1, <3>5, <3>6
    <3>8. IsRecord(x, a) /\ Follow(x, e, a) = n
      BY <3>1, <3>3, <3>7 DEF IsRecord, Follow
    <3>9. g[a] = {a} \cup g[n]
      BY <1>1, <3>8
    <3>10. CASE m = a
      <4>1. \A c \in f[n] : n <= c
        BY WalkedOrder
      <4>2. \A c \in g[n] : n <= c
        BY WalkedOrder
      <4>3. ASSUME NEW c \in Nat, c <= m PROVE c \notin f[n] /\ c \notin g[n]
        BY <3>2, <3>3, <3>10, <4>1, <4>2, <4>3
      <4> QED BY <3>5, <3>9, <4>3
    <3>11. CASE m # a
      <4>1. Agree(n)
        BY <2>1, <3>5, <3>11
      <4>2. Same(n)
        BY <1>3, <3>4, <4>1
      <4> QED BY <3>5, <3>9, <4>2
    <3> QED BY <3>10, <3>11
  <2> HIDE DEF Agree, Same
  <2> QED BY <2>1
<1> HIDE DEF S
<1>4. NBlocks \in S
  BY <1>0, <1>2, <1>3, NatSet
<1>5. \A b \in Nat : b + NBlocks >= NBlocks
  BY <1>0
<1> QED BY <1>4, <1>5 DEF S

\* A walk stays among records whose links stay among them.
LEMMA WalkInside ==
  ASSUME NEW d, Linked(d), NEW e, e.start \in Nat, NEW f, Walked(f, d, e, 0), NEW C,
         \A b \in C : IsRecord(d, Follow(d, e, b)) => Follow(d, e, b) \in C
  PROVE  \A a \in Nat : (IsRecord(d, a) => a \in C) => f[a] \subseteq C
<1> DEFINE Goes(a) == IsRecord(d, a) => a \in C
           S == {k \in Nat : \A a \in Nat : a + k >= NBlocks => (Goes(a) => f[a] \subseteq C)}
<1>0. NBlocks \in Nat
  BY ImageAssumption
<1>1. \A b \in Nat : f[b] = IF IsRecord(d, b) THEN {b} \cup f[Follow(d, e, b)] ELSE {}
  BY DEF Walked
<1>2. 0 \in S
  <2>1. ASSUME NEW a \in Nat, a + 0 >= NBlocks PROVE f[a] \subseteq C
    <3>1. ~IsRecord(d, a)
      BY <2>1, <1>0 DEF IsRecord
    <3> QED BY <3>1, <1>1
  <2> QED BY <2>1
<1>3. ASSUME NEW k \in Nat, k \in S PROVE k + 1 \in S
  <2>1. ASSUME NEW a \in Nat, a + (k + 1) >= NBlocks, Goes(a) PROVE f[a] \subseteq C
    <3>1. CASE IsRecord(d, a)
      <4>1. Follow(d, e, a) \in Nat /\ a < Follow(d, e, a)
        BY <3>1, FollowForward
      <4>2. PICK n \in Nat : n = Follow(d, e, a)
        BY <4>1
      <4>3. n + k >= NBlocks
        BY <4>1, <4>2, <2>1, <1>0
      <4>4. a \in C /\ Goes(n)
        BY <2>1, <3>1, <4>2
      <4>5. f[n] \subseteq C
        BY <1>3, <4>3, <4>4
      <4> QED BY <1>1, <3>1, <4>2, <4>4, <4>5
    <3>2. CASE ~IsRecord(d, a)
      BY <1>1, <3>2
    <3> QED BY <3>1, <3>2
  <2> QED BY <2>1
<1> HIDE DEF S
<1>4. NBlocks \in S
  BY <1>0, <1>2, <1>3, NatSet
<1>5. \A b \in Nat : b + NBlocks >= NBlocks
  BY <1>0
<1> QED BY <1>4, <1>5 DEF S

\* The records that describe the partitions of a chain.
RecordsIn(S) == {l.ebr : l \in S}

LEMMA ChainRecordsIn ==
  ASSUME NEW d, NEW e
  PROVE  RecordsIn(Chain(d, e)) = {b \in ChainBlocks(d, e) : d[b].part # {}}
<1> DEFINE R == {b \in ChainBlocks(d, e) : d[b].part # {}}
           n(b) == 5 + Cardinality({c \in R : c < b})
<1>1. Chain(d, e) = UNION {{RecordPart(e, b, q, n(b)) : q \in d[b].part} : b \in R}
  BY DEF Chain, Numbered
<1>2. \A b, q, m : RecordPart(e, b, q, m).ebr = b
  BY DEF RecordPart, AsPart
<1> HIDE DEF n
<1>3. ASSUME NEW l \in Chain(d, e) PROVE l.ebr \in R
  <2>1. PICK b \in R : l \in {RecordPart(e, b, q, n(b)) : q \in d[b].part}
    BY <1>1, <1>3
  <2> QED BY <1>2, <2>1
<1>4. ASSUME NEW b \in R PROVE \E l \in Chain(d, e) : l.ebr = b
  <2>1. PICK q \in d[b].part : TRUE
    OBVIOUS
  <2>2. RecordPart(e, b, q, n(b)) \in Chain(d, e)
    BY <1>1
  <2> QED BY <1>2, <2>2
<1> HIDE DEF R
<1>5. RecordsIn(Chain(d, e)) = R
  BY <1>3, <1>4 DEF RecordsIn
<1> QED BY <1>5 DEF R

\* The records reading finds, and how it comes to them.
Found(d, e, f) ==
  /\ Walked(f, d, e, 0)
  /\ ChainBlocks(d, e) = {b \in f[e.start] : Cardinality(BelowOf(f[e.start], b)) < MaxRecords}

LEMMA ChainFrom ==
  ASSUME NEW d, Linked(d), NEW e, e.start \in Nat, e.size \in Nat
  PROVE  \E f : Found(d, e, f)
<1>1. PICK f : /\ Walked(f, d, e, 0)
               /\ ChainBlocks(d, e) =
                    {b \in f[e.start] : Cardinality({c \in f[e.start] : c < b}) < MaxRecords}
  BY ChainWalk
<1>2. Found(d, e, f)
  BY <1>1 DEF Found, BelowOf
<1> QED BY <1>2

\* They lie in the extended partition, each is reached from those before it, and
\* fewer are before the earlier of two.
LEMMA FoundPlaces ==
  ASSUME NEW d, Linked(d), NEW e, e.start \in Nat, e.size \in Nat, NEW f, Found(d, e, f)
  PROVE  /\ ChainBlocks(d, e) \subseteq f[e.start] /\ f[e.start] \subseteq Blocks
         /\ \A c \in f[e.start] : /\ c \in Nat /\ IsRecord(d, c) /\ e.start <= c
                                  /\ c = e.start \/ c < e.start + e.size
                                  /\ c = e.start => c \in ChainBlocks(d, e)
         /\ \A b \in ChainBlocks(d, e), c \in f[e.start] : c < b => c \in ChainBlocks(d, e)
<1> DEFINE F == f[e.start]
<1>0. NBlocks \in Nat /\ MaxRecords \in Nat \ {0} /\ f \in [Nat -> SUBSET Nat] /\ Walked(f, d, e, 0)
  BY ImageAssumption DEF Found, Walked
<1>1. F \subseteq Nat /\ F \subseteq {c \in Blocks : d[c].tag = "ebr"}
  BY <1>0, WalkedRecords
<1>2. \A c \in F : e.start <= c /\ (c = e.start \/ c < e.start + e.size)
  BY <1>0, WalkedOrder
<1>3. IsFiniteSet(F)
  <2>1. IsFiniteSet(Blocks)
    BY ImageAssumption, FS_Interval DEF Blocks
  <2> QED BY <1>1, <2>1, FS_Subset
<1>4. \A c \in F : c \in Nat /\ IsRecord(d, c)
  BY <1>1, SomeBlocks DEF IsRecord
<1> HIDE DEF F
<1>5. ASSUME NEW c PROVE IsFiniteSet(BelowOf(F, c)) /\ Cardinality(BelowOf(F, c)) \in Nat
  <2>1. BelowOf(F, c) \subseteq F
    BY DEF BelowOf
  <2> QED BY <1>3, <2>1, FS_Subset, FS_CardinalityType
<1>6. ChainBlocks(d, e) = {b \in F : Cardinality(BelowOf(F, b)) < MaxRecords}
  BY DEF Found, F
<1>7. ASSUME NEW c \in F, c = e.start PROVE c \in ChainBlocks(d, e)
  <2>1. \A b \in F : ~(b < c)
    BY <1>2, <1>4, <1>7
  <2>2. BelowOf(F, c) = {}
    BY <2>1 DEF BelowOf
  <2>3. Cardinality(BelowOf(F, c)) = 0
    BY <2>2, FS_EmptySet
  <2>4. 0 < MaxRecords
    BY <1>0
  <2> QED BY <1>6, <1>7, <2>3, <2>4
<1>8. ASSUME NEW b \in ChainBlocks(d, e), NEW c \in F, c < b PROVE c \in ChainBlocks(d, e)
  <2>1. b \in F /\ b \in Nat /\ c \in Nat
    BY <1>4, <1>6
  <2>2. \A y \in F : y < c => y < b
    BY <1>4, <1>8, <2>1
  <2>3. BelowOf(F, c) \subseteq BelowOf(F, b)
    BY <2>2 DEF BelowOf
  <2>4. Cardinality(BelowOf(F, c)) <= Cardinality(BelowOf(F, b))
    BY <1>5, <2>3, FS_Subset
  <2>5. PICK m, n \in Nat : m = Cardinality(BelowOf(F, c)) /\ n = Cardinality(BelowOf(F, b))
    BY <1>5
  <2>6. n < MaxRecords /\ m <= n
    BY <1>6, <2>4, <2>5
  <2> QED BY <1>0, <1>6, <2>5, <2>6
<1> QED BY <1>1, <1>2, <1>4, <1>6, <1>7, <1>8 DEF F

\* The records of a chain that a backup has.
SavedRecords(d, e) == ({e.start} \cup RecordsIn(Chain(d, e))) \cap Blocks

\* Reading the chain looks at no other block.
LooksAtSaved(d, e) ==
  \A b \in ChainBlocks(d, e) : {b, Follow(d, e, b)} \cap Blocks \subseteq SavedRecords(d, e)

LEMMA ChainWhole ==
  ASSUME NEW d, Linked(d), NEW e, e.start \in Nat, e.size \in Nat, NEW f, Found(d, e, f),
         LooksAtSaved(d, e)
  PROVE  /\ f[e.start] = ChainBlocks(d, e)
         /\ \A x : (\A c \in SavedRecords(d, e) : x[c] = d[c]) =>
              /\ e.start \in Blocks => x[e.start] = d[e.start]
              /\ \A c \in f[e.start] : SameLook(d, x, e, c)
<1>1. PICK C : C = ChainBlocks(d, e)
  OBVIOUS
<1>2. /\ C \subseteq f[e.start] /\ f[e.start] \subseteq Blocks
      /\ \A c \in f[e.start] : c = e.start => c \in C
  BY <1>1, FoundPlaces
<1>3. SavedRecords(d, e) \subseteq {e.start} \cup C
  BY <1>1, ChainRecordsIn DEF SavedRecords
<1>4. Walked(f, d, e, 0) /\ \A b \in Nat : f[b] = IF IsRecord(d, b) THEN {b} \cup f[Follow(d, e, b)] ELSE {}
  BY DEF Found, Walked
<1>5. IsRecord(d, e.start) => e.start \in C
  BY <1>2, <1>4
<1>6. ASSUME NEW b \in C, IsRecord(d, Follow(d, e, b)) PROVE Follow(d, e, b) \in C
  <2>1. b \in Nat /\ IsRecord(d, b)
    BY <1>1, <1>2, FoundPlaces
  <2>2. Follow(d, e, b) \in Nat /\ Follow(d, e, b) < NBlocks
    BY <1>6, <2>1, FollowForward DEF IsRecord
  <2>3. Follow(d, e, b) \in SavedRecords(d, e)
    BY <1>1, <1>6, <2>2, SomeBlocks DEF LooksAtSaved
  <2> QED BY <1>3, <1>5, <1>6, <2>3
<1>7. f[e.start] \subseteq C
  BY <1>4, <1>5, <1>6, WalkInside
<1>8. f[e.start] = C
  BY <1>2, <1>7
<1>9. ASSUME NEW x, \A c \in SavedRecords(d, e) : x[c] = d[c], NEW c \in f[e.start]
      PROVE  SameLook(d, x, e, c)
  <2>1. c \in Blocks /\ {c, Follow(d, e, c)} \cap Blocks \subseteq SavedRecords(d, e)
    BY <1>1, <1>2, <1>8 DEF LooksAtSaved
  <2> QED BY <1>9, <2>1 DEF SameLook
<1>10. e.start \in Blocks => e.start \in SavedRecords(d, e)
  BY DEF SavedRecords
<1> QED BY <1>1, <1>8, <1>9, <1>10

\* A walk that is the same gives the same chain.
LEMMA WalkedChain ==
  ASSUME NEW d, Linked(d), NEW x, Linked(x), NEW e, e.start \in Nat, e.size \in Nat,
         NEW f, Found(d, e, f), NEW g, Found(x, e, g),
         e.start \in Blocks => x[e.start] = d[e.start],
         \A c \in f[e.start] : SameLook(d, x, e, c)
  PROVE  Chain(x, e) = Chain(d, e)
<1>1. g[e.start] = f[e.start]
  BY SameWalk DEF Found
<1>2. PICK C : C = ChainBlocks(d, e) /\ C = ChainBlocks(x, e)
  BY <1>1 DEF Found
<1>3. \A b \in C : d[b] = x[b]
  BY <1>2 DEF Found, SameLook
<1>4. PICK R : R = {b \in C : d[b].part # {}} /\ R = {b \in C : x[b].part # {}}
  BY <1>3
<1> DEFINE D(b) == {RecordPart(e, b, q, 5 + Cardinality({c \in R : c < b})) : q \in d[b].part}
           X(b) == {RecordPart(e, b, q, 5 + Cardinality({c \in R : c < b})) : q \in x[b].part}
<1>5. \A b \in R : D(b) = X(b)
  BY <1>3, <1>4
<1>6. Chain(d, e) = UNION {D(b) : b \in R}
  <2>1. Chain(d, e) = Numbered(d, e, R)
    BY <1>2, <1>4 DEF Chain
  <2> QED BY <2>1 DEF Numbered
<1>7. Chain(x, e) = UNION {X(b) : b \in R}
  <2>1. Chain(x, e) = Numbered(x, e, R)
    BY <1>2, <1>4 DEF Chain
  <2> QED BY <2>1 DEF Numbered
<1> HIDE DEF D, X
<1>8. {D(b) : b \in R} = {X(b) : b \in R}
  BY <1>5
<1> QED BY <1>6, <1>7, <1>8

\* A disk with the saved records on it reads the same chain, if reading looked
\* at no other block.
LEMMA RestoredChain ==
  ASSUME NEW d, Linked(d), NEW x, Linked(x), NEW e, e.start \in Nat, e.size \in Nat,
         LooksAtSaved(d, e), \A c \in SavedRecords(d, e) : x[c] = d[c]
  PROVE  Chain(x, e) = Chain(d, e)
<1>1. PICK f : Found(d, e, f)
  BY ChainFrom
<1>2. PICK g : Found(x, e, g)
  BY ChainFrom
<1>3. /\ e.start \in Blocks => x[e.start] = d[e.start]
      /\ \A c \in f[e.start] : SameLook(d, x, e, c)
  BY <1>1, ChainWhole
<1> QED BY <1>1, <1>2, <1>3, WalkedChain

\* So does one that is the same in the whole extended partition.
LEMMA SameInsideChain ==
  ASSUME NEW d, Linked(d), NEW x, Linked(x), NEW e, e.start \in Nat, e.size \in Nat \ {0},
         \A b \in Blocks : e.start <= b /\ b < e.start + e.size => x[b] = d[b]
  PROVE  Chain(x, e) = Chain(d, e)
<1>1. PICK f : Found(d, e, f)
  BY ChainFrom
<1>2. PICK g : Found(x, e, g)
  BY ChainFrom
<1>3. e.start \in Blocks => x[e.start] = d[e.start]
  OBVIOUS
<1>4. ASSUME NEW c \in f[e.start] PROVE SameLook(d, x, e, c)
  <2>1. /\ c \in Nat /\ IsRecord(d, c) /\ e.start <= c /\ (c = e.start \/ c < e.start + e.size)
        /\ c \in Blocks
    BY <1>1, <1>4, FoundPlaces
  <2>2. x[c] = d[c]
    BY <2>1
  <2>3. ASSUME Follow(d, e, c) \in Blocks PROVE x[Follow(d, e, c)] = d[Follow(d, e, c)]
    <3>1. d[c].next \in Nat /\ Follow(d, e, c) # NBlocks
      BY <2>1, <2>3, SomeBlocks DEF Linked, IsRecord
    <3>2. Follow(d, e, c) = e.start + d[c].next /\ d[c].next < e.size
      BY <3>1 DEF Follow
    <3>3. e.start <= e.start + d[c].next /\ e.start + d[c].next < e.start + e.size
      BY <3>1, <3>2
    <3> QED BY <2>3, <3>2, <3>3
  <2> QED BY <2>2, <2>3 DEF SameLook
<1> QED BY <1>1, <1>2, <1>3, <1>4, WalkedChain

\* A record that a backup lacks is followed by none that it has.
NoGap(d, e) ==
  \A b, c \in ChainBlocks(d, e) : b < c /\ c \in SavedRecords(d, e) => b \in SavedRecords(d, e)

\* A disk with the saved records on it reads every partition of such a chain,
\* under its number.
LEMMA ChainRegained ==
  ASSUME NEW d, Linked(d), NEW x, Linked(x), NEW e, e.start \in Nat, e.size \in Nat,
         NoGap(d, e), \A c \in SavedRecords(d, e) : x[c] = d[c]
  PROVE  Chain(d, e) \subseteq Chain(x, e)
<1>1. PICK f : Found(d, e, f)
  BY ChainFrom
<1>2. PICK g : Found(x, e, g)
  BY ChainFrom
<1>3. PICK F, G : F = f[e.start] /\ G = g[e.start]
  OBVIOUS
<1>4. /\ F \subseteq Nat /\ G \subseteq Nat
      /\ ChainBlocks(d, e) = {b \in F : Cardinality(BelowOf(F, b)) < MaxRecords}
      /\ ChainBlocks(x, e) = {b \in G : Cardinality(BelowOf(G, b)) < MaxRecords}
      /\ F \subseteq Blocks
      /\ \A b \in ChainBlocks(d, e), c \in F : c < b => c \in ChainBlocks(d, e)
  BY <1>1, <1>2, <1>3, FoundPlaces DEF Found, Walked
<1> DEFINE RD == {b \in ChainBlocks(d, e) : d[b].part # {}}
           RX == {b \in ChainBlocks(x, e) : x[b].part # {}}
<1>5. ASSUME NEW m \in RD
      PROVE  m \in RX /\ x[m] = d[m] /\ {c \in RX : c < m} = {c \in RD : c < m}
  <2>1. m \in F /\ m \in Nat /\ m \in SavedRecords(d, e)
    BY <1>4, ChainRecordsIn DEF SavedRecords
  <2>2. ASSUME NEW c \in F, c <= m PROVE c \in SavedRecords(d, e) /\ x[c] = d[c]
    <3>1. c = m \/ c < m
      BY <1>4, <2>1, <2>2
    <3>2. c < m => c \in ChainBlocks(d, e)
      BY <1>4, <2>2
    <3> QED BY <2>1, <3>1, <3>2 DEF NoGap
  <2>3. \A c \in Nat : c <= m => (c \in G <=> c \in F)
    <3>1. Walked(f, d, e, 0) /\ Walked(g, x, e, 0)
      BY <1>1, <1>2 DEF Found
    <3>2. m \in f[e.start] /\ \A c \in f[e.start] : c <= m => x[c] = d[c]
      BY <1>3, <2>1, <2>2
    <3>3. m \in Nat
      BY <2>1
    <3>4. \A c \in Nat : c <= m => (c \in g[e.start] <=> c \in f[e.start])
      BY ONLY Linked(d), Linked(x), e.start \in Nat, e.size \in Nat, <3>1, <3>2, <3>3, SamePrefix
    <3> QED BY <1>3, <3>4
  <2>4. ASSUME NEW c \in Nat, c <= m PROVE BelowOf(G, c) = BelowOf(F, c)
    <3>1. \A y \in Nat : y < c => y <= m
      BY <2>1, <2>4
    <3>2. \A y \in Nat : y < c => (y \in G <=> y \in F)
      BY <2>3, <3>1
    <3> QED BY <1>4, <3>2 DEF BelowOf
  <2>5. ASSUME NEW c \in Nat, c <= m PROVE c \in RX <=> c \in RD
    <3>1. c \in G <=> c \in F
      BY <2>3, <2>5
    <3>2. BelowOf(G, c) = BelowOf(F, c)
      BY <2>4, <2>5
    <3>3. c \in F => x[c] = d[c]
      BY <2>2, <2>5
    <3> QED BY <1>4, <3>1, <3>2, <3>3
  <2>6. RD \subseteq Nat /\ RX \subseteq Nat
    BY <1>4
  <2> HIDE DEF RD, RX
  <2>7. m <= m /\ \A c \in Nat : c < m => c <= m
    BY <2>1
  <2>8. \A c \in Nat : c < m => (c \in RX <=> c \in RD)
    BY <2>5, <2>7
  <2>9. {c \in RX : c < m} = {c \in RD : c < m}
    BY <2>6, <2>8
  <2>10. m \in RX
    BY <2>1, <2>5, <2>7
  <2> QED BY <2>1, <2>2, <2>7, <2>9, <2>10
<1> DEFINE D(b) == {RecordPart(e, b, q, 5 + Cardinality({c \in RD : c < b})) : q \in d[b].part}
           X(b) == {RecordPart(e, b, q, 5 + Cardinality({c \in RX : c < b})) : q \in x[b].part}
<1>6. Chain(d, e) = UNION {D(b) : b \in RD} /\ Chain(x, e) = UNION {X(b) : b \in RX}
  BY DEF Chain, Numbered
<1> HIDE DEF RD, RX
<1>7. \A b \in RD : b \in RX /\ D(b) = X(b)
  BY <1>5
<1> HIDE DEF D, X
<1> QED BY <1>6, <1>7

\* The parts of an MBR: its extended partition and the chain in it.
LEMMA MbrParts ==
  ASSUME "unnamed" \in Names, NEW d, DiskOK(d), MbrDisk(d), NEW S, S = Read(d).parts
  PROVE  /\ S \in SUBSET Part
         /\ S = Tops(d[0].entries) \cup Chained(d)
         /\ Extended(S) = Extended(Tops(d[0].entries))
         /\ FirstExtended(Tops(d[0].entries)) = Extended(S)
         /\ \A e, f \in Extended(S) : e = f
         /\ Logicals(S) = Chained(d)
<1>1. /\ d[0] \in Contents /\ BlockOK(0, d[0]) /\ d \in [Blocks -> Contents]
  BY SomeBlocks DEF DiskOK
<1> DEFINE E == d[0].entries
           T == Tops(E)
           C == Chained(d)
<1>2. /\ E \in SUBSET SectorEntries /\ C \in SUBSET Part /\ \A p \in C : p.role = "logical"
  BY <1>1, ChainedTyped
<1>3. T \in SUBSET Part /\ \A p \in T : p.role # "logical"
  BY <1>2, TopsTyped
<1>4. S = T \cup C
  BY MbrReading
<1>5. \A a, b \in E : a.type \in ExtTypes /\ b.type \in ExtTypes => a = b
  BY <1>1 DEF BlockOK, MbrDisk
<1>6. ASSUME NEW e \in Extended(T), NEW f \in Extended(T) PROVE e = f
  <2>1. \A a \in E : AsPart(a, RoleOf(a), 0).role = RoleOf(a)
    BY DEF AsPart
  <2>2. PICK a \in E : e = AsPart(a, RoleOf(a), 0) /\ RoleOf(a) = "extended"
    BY <2>1 DEF Tops, Extended
  <2>3. PICK b \in E : f = AsPart(b, RoleOf(b), 0) /\ RoleOf(b) = "extended"
    BY <2>1 DEF Tops, Extended
  <2>4. a = b
    BY <1>5, <2>2, <2>3 DEF RoleOf
  <2> QED BY <2>2, <2>3, <2>4
<1> HIDE DEF T, C, E
<1>7. Extended(S) = Extended(T)
  BY <1>2, <1>4 DEF Extended
<1>8. FirstExtended(T) = Extended(T)
  <2>1. \A e \in Extended(T) : e.num \in Nat
    BY <1>3, PartBounds DEF Extended
  <2> QED BY <1>6, <2>1 DEF FirstExtended
<1>9. Logicals(S) = C
  BY <1>2, <1>3, <1>4 DEF Logicals
<1> QED BY <1>2, <1>3, <1>4, <1>6, <1>7, <1>8, <1>9 DEF T, C, E

\* The chain of an MBR, and what a backup has of it.
LEMMA MbrChain ==
  ASSUME "unnamed" \in Names, NEW d, DiskOK(d), MbrDisk(d), NEW S, S = Read(d).parts,
         NEW e \in Extended(S)
  PROVE  /\ e \in Part /\ e.start \in Nat /\ e.size \in Nat \ {0} /\ Last(e) = e.start + e.size - 1
         /\ Linked(d) /\ Extended(S) = {e} /\ FirstExtended(S) = {e}
         /\ S = Tops(d[0].entries) \cup Chain(d, e)
         /\ ChainRecordBlocks(S) = SavedRecords(d, e)
         /\ \A b \in ChainRecordBlocks(S) : e.start <= b /\ b <= Last(e)
<1>1. PICK T : T = Tops(d[0].entries)
  OBVIOUS
<1>2. /\ S \in SUBSET Part /\ S = T \cup Chained(d)
      /\ Extended(S) = Extended(T) /\ FirstExtended(T) = Extended(S)
      /\ \A p, q \in Extended(S) : p = q
      /\ Logicals(S) = Chained(d)
  BY <1>1, MbrParts
<1>3. e \in Part /\ e.start \in Nat /\ e.size \in Nat \ {0} /\ Last(e) = e.start + e.size - 1
      /\ e.num \in Nat
  BY <1>2, PartBounds DEF Extended
<1>4. Extended(S) = {e} /\ FirstExtended(T) = {e}
  BY <1>2
<1>5. FirstExtended(S) = {e}
  BY <1>3, <1>4 DEF FirstExtended
<1>6. Chained(d) = Chain(d, e)
  <2>1. Chained(d) = UNION {Chain(d, y) : y \in FirstExtended(T)}
    BY <1>1 DEF Chained
  <2>2. PICK C : C = Chain(d, e)
    OBVIOUS
  <2>3. {Chain(d, y) : y \in FirstExtended(T)} = {C}
    BY ONLY <1>4, <2>2
  <2>4. UNION {C} = C
    OBVIOUS
  <2> QED BY ONLY <2>1, <2>2, <2>3, <2>4
<1>7. ChainRecordBlocks(S) = SavedRecords(d, e)
  <2>1. ChainRecordBlocks(S) = ({y.start : y \in {e}} \cup {l.ebr : l \in Chain(d, e)}) \cap Blocks
    BY <1>2, <1>4, <1>6 DEF ChainRecordBlocks
  <2> QED BY <2>1 DEF SavedRecords, RecordsIn
<1>8. Linked(d)
  BY LinkedDisk DEF DiskOK
<1>9. ASSUME NEW b \in SavedRecords(d, e) PROVE e.start <= b /\ b <= Last(e)
  <2>1. PICK f : Found(d, e, f)
    BY <1>3, <1>8, ChainFrom
  <2>2. b = e.start \/ b \in f[e.start]
    BY <1>3, <1>8, <2>1, ChainRecordsIn, FoundPlaces DEF SavedRecords
  <2>3. b \in f[e.start] => b \in Nat /\ e.start <= b /\ (b = e.start \/ b < e.start + e.size)
    BY <1>3, <1>8, <2>1, FoundPlaces
  <2> QED BY <1>3, <2>2, <2>3
<1> QED BY <1>1, <1>2, <1>3, <1>4, <1>5, <1>6, <1>7, <1>8, <1>9

\* An MBR without an extended partition has no chain.
LEMMA NoChain ==
  ASSUME "unnamed" \in Names, NEW d, DiskOK(d), MbrDisk(d), NEW S, S = Read(d).parts,
         Extended(S) = {}
  PROVE  S = Tops(d[0].entries) /\ ChainRecordBlocks(S) = {}
<1>1. PICK T : T = Tops(d[0].entries)
  OBVIOUS
<1>2. /\ S = T \cup Chained(d) /\ FirstExtended(T) = {} /\ Logicals(S) = Chained(d)
  BY <1>1, MbrParts
<1>3. Chained(d) = {}
  BY <1>1, <1>2 DEF Chained
<1> QED BY <1>1, <1>2, <1>3 DEF ChainRecordBlocks

\* The blocks of the table of an MBR but block 0 lie in its extended partition,
\* which block 0 gives.
LEMMA MbrBlocksInside ==
  ASSUME "unnamed" \in Names, NEW d, DiskOK(d), MbrDisk(d), NEW b \in TableBlocks(Read(d)), b # 0
  PROVE  \E e \in Tops(d[0].entries) : e.start <= b /\ b <= Last(e)
<1>1. PICK S : S = Read(d).parts
  OBVIOUS
<1>2. Read(d).kind = "mbr" /\ Extended(S) = Extended(Tops(d[0].entries))
  BY <1>1, MbrReading, MbrParts
<1>3. b \in ChainRecordBlocks(S)
  BY <1>1, <1>2 DEF TableBlocks
<1>4. PICK e \in Extended(S) : TRUE
  BY <1>1, <1>3, NoChain
<1>5. e.start <= b /\ b <= Last(e)
  BY <1>1, <1>3, MbrChain
<1> QED BY <1>2, <1>4, <1>5 DEF Extended

\* What a disk x shows that has the blocks of the table d shows: its kind and
\* the partitions of block 0; all of it when the backup of d is whole; at least
\* all its partitions when that has no gap.
Regained(d, x) ==
  /\ Read(x).kind = Read(d).kind
  /\ NonLogical(Read(x).parts) = NonLogical(Read(d).parts)
  /\ Whole(d) => Read(x).parts = Read(d).parts
  /\ ~Gap(d) => Read(d).parts \subseteq Read(x).parts

LEMMA RestoredMbr ==
  ASSUME "unnamed" \in Names, NEW d, DiskOK(d), Read(d).kind = "mbr",
         NEW x, DiskOK(x), \A b \in TableBlocks(Read(d)) : x[b] = d[b]
  PROVE  Regained(d, x) /\ x[0] = d[0] /\ MbrDisk(d) /\ MbrDisk(x)
<1>0. MbrDisk(d)
  BY SeenTyped DEF DiskOK
<1>1. PICK S, R, T : S = Read(d).parts /\ R = Read(x).parts /\ T = Tops(d[0].entries)
  OBVIOUS
<1>2. x[0] = d[0] /\ \A b \in ChainRecordBlocks(S) : x[b] = d[b]
  BY <1>1 DEF TableBlocks
<1>3. MbrDisk(x) /\ Tops(x[0].entries) = T
  BY <1>0, <1>1, <1>2 DEF MbrDisk
<1>4. Read(x).kind = "mbr"
  BY <1>3, MbrReading
<1>5. Extended(S) = Extended(T) /\ Extended(R) = Extended(T)
  BY <1>0, <1>1, <1>3, MbrParts
<1>6. NonLogical(S) = NonLogical(T) /\ NonLogical(R) = NonLogical(T)
  <2>1. ASSUME NEW y, DiskOK(y), MbrDisk(y), Tops(y[0].entries) = T
        PROVE  NonLogical(Read(y).parts) = NonLogical(T)
    <3>1. PICK Q : Q = Read(y).parts
      OBVIOUS
    <3>2. Q = T \cup Chained(y) /\ Logicals(Q) = Chained(y)
      BY <2>1, <3>1, MbrParts
    <3>3. \A l \in Chained(y) : l.role = "logical"
      BY <3>2 DEF Logicals
    <3> QED BY <3>1, <3>2, <3>3 DEF NonLogical
  <2> QED BY <1>0, <1>1, <1>3, <2>1
<1>7. CASE Extended(S) = {}
  <2>1. S = T /\ R = T
    BY <1>0, <1>1, <1>3, <1>5, <1>7, NoChain
  <2> QED BY <1>0, <1>1, <1>2, <1>3, <1>4, <2>1 DEF Regained
<1>8. ASSUME NEW e \in Extended(S) PROVE Regained(d, x)
  <2>1. /\ e.start \in Nat /\ e.size \in Nat \ {0} /\ Linked(d) /\ FirstExtended(S) = {e}
        /\ S = T \cup Chain(d, e) /\ ChainRecordBlocks(S) = SavedRecords(d, e)
    BY ONLY <1>0, <1>1, "unnamed" \in Names, DiskOK(d), e \in Extended(S), MbrChain
  <2>2. Linked(x) /\ R = T \cup Chain(x, e)
    <3>1. e \in Extended(R)
      BY <1>5
    <3>2. Linked(x) /\ R = Tops(x[0].entries) \cup Chain(x, e)
      BY ONLY <1>1, <1>3, <3>1, "unnamed" \in Names, DiskOK(x), MbrChain
    <3> QED BY <1>3, <3>2
  <2>3. \A c \in SavedRecords(d, e) : x[c] = d[c]
    BY <1>2, <2>1
  <2>4. ASSUME Whole(d) PROVE R = S
    <3>1. LooksAtSaved(d, e)
      BY <1>1, <2>1, <2>4 DEF Whole, LooksAtSaved
    <3>2. Chain(x, e) = Chain(d, e)
      BY <2>1, <2>2, <2>3, <3>1, RestoredChain
    <3> QED BY <2>1, <2>2, <3>2
  <2>5. ASSUME ~Gap(d) PROVE S \subseteq R
    <3>1. NoGap(d, e)
      BY <1>1, <2>1, <2>5 DEF Gap, NoGap
    <3>2. Chain(d, e) \subseteq Chain(x, e)
      BY <2>1, <2>2, <2>3, <3>1, ChainRegained
    <3> QED BY <2>1, <2>2, <3>2
  <2> QED BY <1>1, <1>4, <1>6, <2>4, <2>5 DEF Regained
<1> QED BY <1>0, <1>2, <1>3, <1>7, <1>8

LEMMA RestoredTable ==
  ASSUME NBlocks > 2 * ArrBlocks + 3, "unnamed" \in Names, NEW d, DiskOK(d), Read(d).kind # "none",
         NEW x, DiskOK(x), \A b \in TableBlocks(Read(d)) : x[b] = d[b]
  PROVE  Regained(d, x)
<1>1. Read(d).kind \in {"mbr", "gpt"}
  BY ReadTyped DEF DiskOK, TableRecords
<1>2. CASE Read(d).kind = "gpt"
  <2>1. Read(x).kind = "gpt" /\ Read(x).parts = Read(d).parts
    BY <1>2, RestoredGpt
  <2> QED BY <1>2, <2>1 DEF Regained
<1> QED BY <1>1, <1>2, RestoredMbr

\* A disk shows the same MBR when nothing in its partitions, and not block 0,
\* changes.
LEMMA SameInside ==
  ASSUME "unnamed" \in Names, NEW d, DiskOK(d), Read(d).kind = "mbr", NEW x, DiskOK(x),
         x[0] = d[0], \A b \in Blocks : InsidePartition(Read(d).parts, b) => x[b] = d[b]
  PROVE  Read(x).parts = Read(d).parts
<1>0. MbrDisk(d)
  BY SeenTyped DEF DiskOK
<1>1. PICK S, R, T : S = Read(d).parts /\ R = Read(x).parts /\ T = Tops(d[0].entries)
  OBVIOUS
<1>2. MbrDisk(x) /\ Tops(x[0].entries) = T
  BY <1>0, <1>1 DEF MbrDisk
<1>3. Extended(S) = Extended(T) /\ Extended(R) = Extended(T)
  BY <1>0, <1>1, <1>2, MbrParts
<1>4. CASE Extended(S) = {}
  BY <1>0, <1>1, <1>2, <1>3, <1>4, NoChain
<1>5. ASSUME NEW e \in Extended(S) PROVE R = S
  <2>1. /\ e.start \in Nat /\ e.size \in Nat \ {0} /\ Last(e) = e.start + e.size - 1
        /\ Linked(d) /\ S = T \cup Chain(d, e)
    BY <1>0, <1>1, MbrChain
  <2>2. Linked(x) /\ R = T \cup Chain(x, e)
    <3>1. e \in Extended(R)
      BY <1>3, <1>5
    <3> QED BY <1>1, <1>2, <3>1, MbrChain
  <2>3. ASSUME NEW b \in Blocks, e.start <= b, b < e.start + e.size PROVE x[b] = d[b]
    <3>1. b <= Last(e)
      BY <2>1, <2>3, SomeBlocks
    <3> QED BY <1>1, <1>5, <2>3, <3>1 DEF InsidePartition, Extended
  <2>4. Chain(x, e) = Chain(d, e)
    BY <2>1, <2>2, <2>3, SameInsideChain
  <2> QED BY <2>1, <2>2, <2>4
<1> QED BY <1>1, <1>4, <1>5

\* What lies in a partition does not depend on where its record is.
LEMMA InsideSeen ==
  ASSUME "unnamed" \in Names, NEW d, DiskOK(d), NEW b
  PROVE  InsidePartition(Seen(d).parts, b) <=> InsidePartition(Read(d).parts, b)
<1>1. Read(d).parts \in SUBSET Part
  BY ReadTyped DEF DiskOK, TableRecords
<1>2. \A p \in Part : /\ [p EXCEPT !.ebr = 0].start = p.start
                      /\ [p EXCEPT !.ebr = 0].size = p.size
  BY DEF Part
<1>3. \A p \in Part : Last([p EXCEPT !.ebr = 0]) = Last(p)
  BY <1>2 DEF Last
<1>4. Seen(d).parts = {[p EXCEPT !.ebr = 0] : p \in Read(d).parts}
  BY DEF Seen, View
<1> QED BY <1>1, <1>2, <1>3, <1>4 DEF InsidePartition

LEMMA RegainedSeen ==
  ASSUME "unnamed" \in Names, NEW d, DiskOK(d), NEW x, DiskOK(x), Regained(d, x)
  PROVE  /\ Seen(x).kind = Seen(d).kind
         /\ NonLogical(Seen(x).parts) = NonLogical(Seen(d).parts)
         /\ Whole(d) => Seen(x) = Seen(d)
         /\ ~Gap(d) => Seen(d).parts \subseteq Seen(x).parts
<1>1. /\ Seen(x).kind = Read(x).kind /\ Seen(d).kind = Read(d).kind
      /\ Seen(x).parts = Bare(Read(x).parts) /\ Seen(d).parts = Bare(Read(d).parts)
      /\ Read(x).kind = Read(d).kind /\ Read(x).parts = Read(d).parts => Seen(x) = Seen(d)
  BY DEF Seen, View, Bare
<1>2. Read(x).parts \in SUBSET Part /\ Read(d).parts \in SUBSET Part
  BY ReadTyped DEF DiskOK, TableRecords
<1>3. /\ NonLogical(Bare(Read(x).parts)) = Bare(NonLogical(Read(x).parts))
      /\ NonLogical(Bare(Read(d).parts)) = Bare(NonLogical(Read(d).parts))
  BY <1>2, BareParts
<1>4. ~Gap(d) => Seen(d).parts \subseteq Seen(x).parts
  BY <1>1 DEF Regained, Bare
<1> QED BY <1>1, <1>3, <1>4 DEF Regained

-----------------------------------------------------------------------------
(* What is left of a restore.                                              *)

\* The blocks of A are to become what they are in src: s has those left, in x.
Left(s, src, A, x) ==
  /\ IsOps(s)
  /\ \A i \in 1..Len(s) : s[i].at \in A /\ s[i].block = src[s[i].at]
  /\ \A b \in A : x[b] = src[b] \/ \E i \in 1..Len(s) : s[i].at = b

LEMMA AllLeft ==
  ASSUME NEW s, NEW src, NEW A, Copies(s, src, A), NEW x
  PROVE  Left(s, src, A, x)
BY DEF Copies, Left

\* The next block of s is written: x becomes y.
Written(s, x, y) == s # <<>> /\ y = [x EXCEPT ![Head(s).at] = Head(s).block]

\* What is left then; nothing, if it was the last one.
Leaves(s, src, A, y) ==
  /\ Head(s).at \in A /\ Head(s).block = src[Head(s).at] /\ Head(s).at \in Blocks
  /\ Left(Tail(s), src, A, y)
  /\ ~(Len(s) > 1) => \A b \in A : y[b] = src[b]
  /\ Len(s) > 1 => Tail(s) # <<>>

LEMMA LeftStep ==
  ASSUME NEW src, NEW A \in SUBSET Blocks, NEW x \in [Blocks -> Contents],
         NEW s, Left(s, src, A, x), NEW y, Written(s, x, y)
  PROVE  Leaves(s, src, A, y)
<1>0. s # <<>> /\ y = [x EXCEPT ![Head(s).at] = Head(s).block]
  BY DEF Written
<1>1. /\ IsOps(s)
      /\ \A i \in 1..Len(s) : s[i].at \in A /\ s[i].block = src[s[i].at]
      /\ \A b \in A : x[b] = src[b] \/ \E i \in 1..Len(s) : s[i].at = b
  BY DEF Left
<1>2. /\ Head(s) = s[1] /\ s[1].at \in Blocks /\ s[1].block \in Contents
      /\ IsOps(Tail(s)) /\ Len(Tail(s)) = Len(s) - 1
      /\ \A i \in 1..Len(Tail(s)) : Tail(s)[i] = s[i + 1] /\ i + 1 \in 1..Len(s)
  BY <1>0, <1>1, OpsTail
<1>3. Len(s) \in Nat /\ Len(s) # 0
  BY <1>0, <1>1, OpsSeq
<1>4. PICK n \in Nat \ {0} : n = Len(s)
  BY <1>3
<1>5. s[1].at \in A /\ s[1].block = src[s[1].at]
  BY <1>1, <1>4
<1>6. PICK t : t = Tail(s)
  OBVIOUS
<1>7. Len(t) = n - 1 /\ \A i \in 1..(n - 1) : t[i] = s[i + 1] /\ i + 1 \in 1..n
  BY <1>2, <1>4, <1>6
<1>8. \A i \in 1..(n - 1) : t[i].at \in A /\ t[i].block = src[t[i].at]
  BY <1>1, <1>4, <1>7
<1>9. /\ y[s[1].at] = src[s[1].at]
      /\ \A b \in Blocks : b # s[1].at => y[b] = x[b]
  BY <1>0, <1>2, <1>5
<1>10. ASSUME NEW b \in A PROVE y[b] = src[b] \/ \E i \in 1..(n - 1) : t[i].at = b
  <2>1. CASE b = s[1].at
    BY <1>9, <2>1
  <2>2. CASE b # s[1].at /\ x[b] = src[b]
    BY <1>9, <2>2
  <2>3. CASE b # s[1].at /\ \E i \in 1..n : s[i].at = b
    <3>1. PICK i \in 1..n : s[i].at = b /\ i # 1
      BY <2>3
    <3>2. i - 1 \in 1..(n - 1) /\ (i - 1) + 1 = i
      BY <3>1
    <3> QED BY <1>7, <3>1, <3>2
  <2> QED BY <1>1, <1>4, <2>1, <2>2, <2>3
<1>11. Left(t, src, A, y)
  BY <1>2, <1>6, <1>7, <1>8, <1>10 DEF Left
<1>12. ~(n > 1) => \A b \in A : y[b] = src[b]
  <2>1. ~(n > 1) => \A i \in 1..(n - 1) : FALSE
    OBVIOUS
  <2> QED BY <1>10, <2>1
<1>13. n > 1 => t # <<>>
  <2>1. Len(<<>>) = 0
    OBVIOUS
  <2> QED BY <1>7, <2>1
<1> QED BY <1>2, <1>4, <1>5, <1>6, <1>11, <1>12, <1>13 DEF Leaves

-----------------------------------------------------------------------------
(* The invariant.                                                          *)

\* The disk a backup was made of. pt_restore takes the file for what it is: the
\* backup of a GPT or that of an MBR.
BackupOf(d) ==
  [tag |-> "backup", writes |-> Extents(d, Read(d)), view |-> Seen(d),
   whole |-> Whole(d), gap |-> Gap(d)]

Source(d) ==
  /\ DiskOK(d) /\ Read(d).kind # "none"
  /\ HasGpt(BackupOf(d)) <=> Read(d).kind = "gpt"

\* The blocks a restore clears, when the disk shows what it brought back.
Cleared == ClearedBlocks(cur, Read(disk).parts)

Restoring(d) ==
  /\ Source(d) /\ file = BackupOf(d) /\ goal = Seen(d)
  /\ \E c : DiskOK(c) /\ cur = Read(c)
  /\ todo # <<>> /\ said = "nothing"
  /\ stage = "extents" => Left(todo, d, TableBlocks(Read(d)), disk)
  /\ stage = "clearing" =>
       /\ Read(d).kind = "mbr" /\ cur.kind = "gpt"
       /\ \A b \in TableBlocks(Read(d)) : disk[b] = d[b]
       /\ Left(todo, Zeros, Cleared, disk)

Inv ==
  /\ DiskOK(disk)
  /\ file.tag = "backup" => \E d : Source(d) /\ file = BackupOf(d)
  /\ goal \in TableViews
  /\ stage \in {"idle", "extents", "clearing"}
  /\ stage # "idle" => \E d : Restoring(d)

\* The disks a backup and a restore are about: room for the two copies of a
\* GPT, and disks of blocks.
Given ==
  /\ NBlocks > 2 * ArrBlocks + 3 /\ "unnamed" \in Names
  /\ \A d \in Disks : DiskOK(d)

\* Every backup is taken for what it is: a GPT has the signature of its primary
\* header whenever it is backed up, though it may be damaged otherwise, and no
\* extended partition of an MBR begins in block 1 with the header of an old GPT
\* in it. (pt_restore judges by the signature in block 1, ptwrite.c:384.)
GptSigned == Backup => (HasGpt(file') <=> Read(disk).kind = "gpt")

LEMMA SourceBlocks ==
  ASSUME Given, NEW d, Source(d), NEW w, w = BackupOf(d).writes
  PROVE  /\ Copies(w, d, TableBlocks(Read(d))) /\ TableBlocks(Read(d)) \in SUBSET Blocks
         /\ HasGpt(BackupOf(d)) <=> Read(d).kind = "gpt"
         /\ Read(d).kind \in {"mbr", "gpt"} /\ Seen(d) \in TableViews
<1>1. /\ DiskOK(d) /\ d \in [Blocks -> Contents] /\ Read(d) \in TableRecords
      /\ Read(d).kind \in {"mbr", "gpt"} /\ Seen(d) \in TableViews
  BY ReadTyped, SeenTyped DEF Given, Source, DiskOK, TableRecords
<1>2. w = Extents(d, Read(d))
  BY DEF BackupOf
<1>3. Copies(w, d, TableBlocks(Read(d)))
  BY <1>1, <1>2, ExtentsCopy
<1>4. TableBlocks(Read(d)) \in SUBSET Blocks
  BY SomeBlocks DEF TableBlocks, Stretch, ChainRecordBlocks
<1> QED BY <1>1, <1>3, <1>4 DEF Source

\* What is cleared is on the disk, outside the partitions it shows, and no block
\* of the table that was brought back: the records of its chain lie in the
\* extended partition, which block 0 gives.
LEMMA ClearedApart ==
  ASSUME Given, NEW c, DiskOK(c), Read(c).kind = "gpt", NEW t, t = Read(c),
         NEW d, Source(d), Read(d).kind = "mbr",
         NEW x, DiskOK(x), \A b \in TableBlocks(Read(d)) : x[b] = d[b]
  PROVE  /\ PrimaryBlocks(t) \subseteq Nat /\ BackupBlocks(t) \subseteq Nat
         /\ ClearedBlocks(t, Read(x).parts) \in SUBSET (Blocks \ TableBlocks(Read(d)))
         /\ 0 \notin ClearedBlocks(t, Read(x).parts)
         /\ {1, t.blba} \subseteq PrimaryBlocks(t) \cup BackupBlocks(t)
<1>1. t.pent = 2 /\ t.blba \in Nat /\ t.blba > ArrBlocks /\ ArrBlocks \in Nat \ {0}
  BY GptPlaces, SomeBlocks DEF Given
<1>2. PrimaryBlocks(t) = 1..(ArrBlocks + 1) /\ BackupBlocks(t) = (t.blba - ArrBlocks)..t.blba
  BY <1>1 DEF PrimaryBlocks, BackupBlocks
<1>3. \A b \in PrimaryBlocks(t) \cup BackupBlocks(t) : b \in Nat /\ b # 0
  BY <1>1, <1>2
<1>4. {1, t.blba} \subseteq PrimaryBlocks(t) \cup BackupBlocks(t)
  BY <1>1, <1>2
<1>5. DiskOK(d) /\ "unnamed" \in Names
  BY DEF Given, Source
<1>6. x[0] = d[0] /\ MbrDisk(d) /\ MbrDisk(x)
  BY <1>5, RestoredMbr
<1>7. Tops(d[0].entries) \subseteq Read(x).parts
  BY <1>6, MbrReading
<1>8. ASSUME NEW b \in TableBlocks(Read(d)), b # 0 PROVE InsidePartition(Read(x).parts, b)
  <2>1. PICK e \in Tops(d[0].entries) : e.start <= b /\ b <= Last(e)
    BY ONLY <1>5, <1>6, <1>8, MbrBlocksInside
  <2> QED BY <1>7, <2>1 DEF InsidePartition
<1>9. ASSUME NEW b \in ClearedBlocks(t, Read(x).parts) PROVE b \in Blocks \ TableBlocks(Read(d)) /\ b # 0
  BY <1>3, <1>8, SomeBlocks DEF ClearedBlocks
<1> QED BY <1>3, <1>4, <1>9

LEMMA InitInv == Given /\ Init => Inv
<1> SUFFICES ASSUME Given, Init PROVE Inv
  OBVIOUS
<1>1. DiskOK(disk) /\ file.tag # "backup" /\ stage = "idle" /\ goal = Seen(disk)
  BY DEF Init, Given, NoFile
<1>2. goal \in TableViews
  BY <1>1, SeenTyped DEF Given, DiskOK
<1> QED BY <1>1, <1>2 DEF Inv

\* A restore that ends leaves what an idle disk needs.
LEMMA EndedInv ==
  ASSUME Given, Inv, NEW m, Ended(disk', m), DiskOK(disk'), file' = file
  PROVE  Inv'
<1>1. stage' = "idle" /\ goal' = Seen(disk')
  BY DEF Ended
<1>2. goal' \in TableViews
  BY <1>1, SeenTyped DEF Given, DiskOK
<1> QED BY <1>1, <1>2 DEF Inv

\* A block of the backup is written; after the last one the disk shows what the
\* backup has of the table.
LEMMA ExtentsStep ==
  ASSUME Given, NEW d, Restoring(d), DiskOK(disk), stage = "extents", WriteNext
  PROVE  /\ DiskOK(disk') /\ Head(todo).at \in TableBlocks(Read(d))
         /\ \A b \in Blocks : b # Head(todo).at => disk'[b] = disk[b]
         /\ Left(Tail(todo), d, TableBlocks(Read(d)), disk')
         /\ Len(todo) > 1 => Tail(todo) # <<>>
         /\ ~(Len(todo) > 1) =>
              /\ \A b \in TableBlocks(Read(d)) : disk'[b] = d[b]
              /\ Regained(d, disk')
<1>1. /\ Source(d) /\ goal = Seen(d) /\ todo # <<>> /\ Left(todo, d, TableBlocks(Read(d)), disk)
  BY DEF Restoring
<1>2. TableBlocks(Read(d)) \in SUBSET Blocks
  BY <1>1, SourceBlocks
<1>3. disk' = [disk EXCEPT ![Head(todo).at] = Head(todo).block] /\ disk \in [Blocks -> Contents]
  BY DEF WriteNext, DiskOK
<1>4. /\ Head(todo).at \in TableBlocks(Read(d)) /\ Head(todo).block = d[Head(todo).at]
      /\ Head(todo).at \in Blocks /\ Left(Tail(todo), d, TableBlocks(Read(d)), disk')
      /\ ~(Len(todo) > 1) => \A b \in TableBlocks(Read(d)) : disk'[b] = d[b]
      /\ Len(todo) > 1 => Tail(todo) # <<>>
  <2>1. PICK A : A = TableBlocks(Read(d))
    OBVIOUS
  <2>2. PICK y : y = disk'
    OBVIOUS
  <2>3. /\ A \in SUBSET Blocks /\ disk \in [Blocks -> Contents]
        /\ Left(todo, d, A, disk) /\ Written(todo, disk, y)
    BY ONLY <1>1, <1>2, <1>3, <2>1, <2>2 DEF Written
  <2>4. Leaves(todo, d, A, y)
    BY ONLY <2>3, LeftStep
  <2> QED BY ONLY <2>1, <2>2, <2>4 DEF Leaves
<1>5. BlockOK(Head(todo).at, Head(todo).block)
  BY <1>1, <1>4 DEF Source, DiskOK
<1>6. DiskOK(disk') /\ \A b \in Blocks : b # Head(todo).at => disk'[b] = disk[b]
  BY <1>3, <1>4, <1>5, DiskWritten
<1>7. ASSUME ~(Len(todo) > 1) PROVE Regained(d, disk')
  BY <1>1, <1>4, <1>6, <1>7, RestoredTable DEF Given, Source
<1> QED BY <1>4, <1>6, <1>7

\* What is to be cleared then, the GPT an MBR has replaced.
LEMMA ClearingBegins ==
  ASSUME Given, NEW d, Restoring(d),
         NEW x, DiskOK(x), \A b \in TableBlocks(Read(d)) : x[b] = d[b]
  PROVE  /\ Clearing(x) # <<>> => Read(d).kind = "mbr" /\ cur.kind = "gpt"
         /\ Read(d).kind = "mbr" /\ cur.kind = "gpt" =>
              Copies(Clearing(x), Zeros, ClearedBlocks(cur, Read(x).parts))
<1>1. PICK c : DiskOK(c) /\ cur = Read(c)
  BY DEF Restoring
<1>2. Source(d) /\ file = BackupOf(d) /\ goal = Seen(d)
  BY DEF Restoring
<1>3. (HasGpt(file) <=> Read(d).kind = "gpt") /\ Read(d).kind \in {"mbr", "gpt"}
  BY <1>2, SourceBlocks
<1>4. ASSUME Read(d).kind = "mbr", cur.kind = "gpt"
      PROVE  Copies(Clearing(x), Zeros, ClearedBlocks(cur, Read(x).parts))
  <2>1. Clearing(x) = ClearWrites(cur, Read(x).parts)
    BY <1>3, <1>4 DEF Clearing
  <2>2. PrimaryBlocks(cur) \subseteq Nat /\ BackupBlocks(cur) \subseteq Nat
    BY <1>1, <1>2, <1>4, ClearedApart
  <2> QED BY <2>1, <2>2, ClearCopies
<1> QED BY <1>3, <1>4 DEF Clearing

LEMMA StepExtentsInv == ASSUME Given, Inv, StepExtents PROVE Inv'
<1>1. stage = "extents" /\ WriteNext /\ file' = file
  BY DEF StepExtents
<1>2. PICK d : Restoring(d)
  BY <1>1 DEF Inv
<1>3. /\ DiskOK(disk') /\ Left(Tail(todo), d, TableBlocks(Read(d)), disk')
      /\ Len(todo) > 1 => Tail(todo) # <<>>
      /\ ~(Len(todo) > 1) => \A b \in TableBlocks(Read(d)) : disk'[b] = d[b]
  BY <1>1, <1>2, ExtentsStep DEF Inv
<1>4. CASE Len(todo) > 1
  <2>1. todo' = Tail(todo) /\ UNCHANGED <<stage, cur, said, goal>>
    BY <1>4 DEF StepExtents
  <2>2. Restoring(d)'
    BY <1>1, <1>2, <1>3, <1>4, <2>1 DEF Restoring
  <2> QED BY <1>1, <1>3, <2>1, <2>2 DEF Inv
<1>5. CASE ~(Len(todo) > 1) /\ Clearing(disk') # <<>>
  <2>1. stage' = "clearing" /\ todo' = Clearing(disk') /\ UNCHANGED <<cur, said, goal>>
    BY <1>5 DEF StepExtents
  <2>2. /\ Read(d).kind = "mbr" /\ cur.kind = "gpt"
        /\ Copies(todo', Zeros, ClearedBlocks(cur, Read(disk').parts))
    <3>1. PICK x : x = disk'
      OBVIOUS
    <3>2. DiskOK(x) /\ \A b \in TableBlocks(Read(d)) : x[b] = d[b]
      BY <1>3, <1>5, <3>1
    <3>3. /\ Clearing(x) # <<>> => Read(d).kind = "mbr" /\ cur.kind = "gpt"
          /\ Read(d).kind = "mbr" /\ cur.kind = "gpt" =>
               Copies(Clearing(x), Zeros, ClearedBlocks(cur, Read(x).parts))
      BY ONLY Given, <1>2, <3>2, ClearingBegins
    <3> QED BY <1>5, <2>1, <3>1, <3>3
  <2>3. Left(todo', Zeros, Cleared', disk')
    <3>1. Cleared' = ClearedBlocks(cur, Read(disk').parts)
      BY <2>1 DEF Cleared
    <3>2. PICK w, A, x : w = todo' /\ A = Cleared' /\ x = disk'
      OBVIOUS
    <3>3. Copies(w, Zeros, A)
      BY <2>2, <3>1, <3>2
    <3>4. Left(w, Zeros, A, x)
      BY ONLY <3>3, AllLeft
    <3> QED BY <3>2, <3>4
  <2>4. Restoring(d)'
    BY <1>1, <1>2, <1>3, <1>5, <2>1, <2>2, <2>3 DEF Restoring
  <2> QED BY <1>1, <1>3, <2>1, <2>4 DEF Inv
<1>6. CASE ~(Len(todo) > 1) /\ Clearing(disk') = <<>>
  <2>1. Ended(disk', "written")
    BY <1>6 DEF StepExtents
  <2> QED BY <1>1, <1>3, <2>1, EndedInv
<1> QED BY <1>4, <1>5, <1>6

\* A block of the old GPT is cleared: the blocks of the table that was brought
\* back stay, and the disk shows what it showed.
LEMMA ClearingStep ==
  ASSUME Given, NEW d, Restoring(d), DiskOK(disk), stage = "clearing", WriteNext
  PROVE  /\ DiskOK(disk') /\ Head(todo).at \in Cleared
         /\ \A b \in Blocks : b # Head(todo).at => disk'[b] = disk[b]
         /\ \A b \in TableBlocks(Read(d)) : disk'[b] = d[b]
         /\ Read(disk').parts = Read(disk).parts
         /\ Left(Tail(todo), Zeros, Cleared, disk')
         /\ Len(todo) > 1 => Tail(todo) # <<>>
         /\ ~(Len(todo) > 1) => \A b \in Cleared : disk'[b] = Zero
         /\ Regained(d, disk')
<1>1. /\ Source(d) /\ goal = Seen(d) /\ todo # <<>> /\ Left(todo, Zeros, Cleared, disk)
      /\ Read(d).kind = "mbr" /\ cur.kind = "gpt"
      /\ \A b \in TableBlocks(Read(d)) : disk[b] = d[b]
  BY DEF Restoring
<1>2. PICK c : DiskOK(c) /\ cur = Read(c)
  BY DEF Restoring
<1>3. /\ Cleared \in SUBSET (Blocks \ TableBlocks(Read(d))) /\ Cleared \in SUBSET Blocks
      /\ 0 \notin Cleared
  <2>1. PICK t, x : t = cur /\ x = disk
    OBVIOUS
  <2>2. /\ DiskOK(c) /\ Read(c).kind = "gpt" /\ t = Read(c) /\ Source(d) /\ Read(d).kind = "mbr"
        /\ DiskOK(x) /\ \A b \in TableBlocks(Read(d)) : x[b] = d[b]
    BY <1>1, <1>2, <2>1
  <2>3. /\ ClearedBlocks(t, Read(x).parts) \in SUBSET (Blocks \ TableBlocks(Read(d)))
        /\ 0 \notin ClearedBlocks(t, Read(x).parts)
    BY ONLY Given, <2>2, ClearedApart
  <2> QED BY <2>1, <2>3 DEF Cleared
<1>4. disk' = [disk EXCEPT ![Head(todo).at] = Head(todo).block] /\ disk \in [Blocks -> Contents]
  BY DEF WriteNext, DiskOK
<1>5. /\ Head(todo).at \in Cleared /\ Head(todo).block = Zeros[Head(todo).at]
      /\ Head(todo).at \in Blocks /\ Left(Tail(todo), Zeros, Cleared, disk')
      /\ ~(Len(todo) > 1) => \A b \in Cleared : disk'[b] = Zeros[b]
      /\ Len(todo) > 1 => Tail(todo) # <<>>
  <2>1. PICK A : A = Cleared
    OBVIOUS
  <2>2. PICK y : y = disk'
    OBVIOUS
  <2>3. PICK z : z = Zeros
    OBVIOUS
  <2>4. /\ A \in SUBSET Blocks /\ disk \in [Blocks -> Contents]
        /\ Left(todo, z, A, disk) /\ Written(todo, disk, y)
    BY ONLY <1>1, <1>3, <1>4, <2>1, <2>2, <2>3 DEF Written
  <2>5. Leaves(todo, z, A, y)
    BY ONLY <2>4, LeftStep
  <2> QED BY ONLY <2>1, <2>2, <2>3, <2>5 DEF Leaves
<1>6. \A b \in Blocks : Zeros[b] = Zero
  BY DEF Zeros
<1>7. BlockOK(Head(todo).at, Head(todo).block)
  BY <1>5, <1>6, ZeroOK
<1>8. DiskOK(disk') /\ \A b \in Blocks : b # Head(todo).at => disk'[b] = disk[b]
  BY <1>4, <1>5, <1>7, DiskWritten
<1>9. \A b \in TableBlocks(Read(d)) : disk'[b] = d[b]
  <2>1. TableBlocks(Read(d)) \in SUBSET Blocks
    BY <1>1, SourceBlocks
  <2> QED BY <1>1, <1>3, <1>5, <1>8, <2>1
<1>10. Regained(d, disk')
  BY <1>1, <1>8, <1>9, RestoredTable DEF Given, Source
<1>11. Read(disk').parts = Read(disk).parts
  <2>1. PICK n, x : n = disk /\ x = disk'
    OBVIOUS
  <2>2. DiskOK(n) /\ DiskOK(x) /\ "unnamed" \in Names
    BY <1>8, <2>1 DEF Given
  <2>3. Read(n).kind = "mbr"
    <3>1. DiskOK(d) /\ \A b \in TableBlocks(Read(d)) : n[b] = d[b]
      BY <1>1, <2>1 DEF Source
    <3>2. Regained(d, n)
      BY ONLY <1>1, <2>2, <3>1, RestoredMbr
    <3> QED BY <1>1, <3>2 DEF Regained
  <2>4. x[0] = n[0]
    <3>1. 0 \in Blocks
      BY SomeBlocks
    <3> QED BY <1>3, <1>5, <1>8, <2>1, <3>1
  <2>5. \A b \in Blocks : InsidePartition(Read(n).parts, b) => x[b] = n[b]
    BY <1>5, <1>8, <2>1 DEF Cleared, ClearedBlocks
  <2>6. Read(x).parts = Read(n).parts
    BY ONLY <2>2, <2>3, <2>4, <2>5, SameInside
  <2> QED BY <2>1, <2>6
<1> QED BY <1>3, <1>5, <1>6, <1>8, <1>9, <1>10, <1>11

LEMMA StepClearingInv == ASSUME Given, Inv, StepClearing PROVE Inv'
<1>1. stage = "clearing" /\ WriteNext /\ file' = file
  BY DEF StepClearing
<1>2. PICK d : Restoring(d)
  BY <1>1 DEF Inv
<1>3. /\ DiskOK(disk') /\ Left(Tail(todo), Zeros, Cleared, disk')
      /\ \A b \in TableBlocks(Read(d)) : disk'[b] = d[b]
      /\ Len(todo) > 1 => Tail(todo) # <<>>
      /\ Read(disk').parts = Read(disk).parts
  BY <1>1, <1>2, ClearingStep DEF Inv
<1>4. CASE Len(todo) > 1
  <2>1. todo' = Tail(todo) /\ UNCHANGED <<stage, cur, said, goal>>
    BY <1>4 DEF StepClearing
  <2>2. Cleared' = Cleared
    BY <1>3, <2>1 DEF Cleared
  <2>3. Restoring(d)'
    BY <1>1, <1>2, <1>3, <1>4, <2>1, <2>2 DEF Restoring
  <2> QED BY <1>1, <1>3, <2>1, <2>3 DEF Inv
<1>5. CASE ~(Len(todo) > 1)
  <2>1. Ended(disk', "written")
    BY <1>5 DEF StepClearing
  <2> QED BY <1>1, <1>3, <2>1, EndedInv
<1> QED BY <1>4, <1>5

\* What a backup holds is what a restore begins with.
LEMMA FileCopies ==
  ASSUME Given, NEW d, Source(d), NEW w, w = BackupOf(d).writes, NEW x
  PROVE  w # <<>> /\ Left(w, d, TableBlocks(Read(d)), x)
<1>1. PICK A : A = TableBlocks(Read(d))
  OBVIOUS
<1>2. Copies(w, d, A)
  BY <1>1, SourceBlocks
<1>3. 0 \in A
  BY <1>1 DEF TableBlocks
<1>4. \E i \in 1..Len(w) : w[i].at = 0
  BY <1>2, <1>3 DEF Copies
<1>5. Len(<<>>) = 0
  OBVIOUS
<1>6. w # <<>>
  <2>1. w = <<>> => Len(w) = 0
    BY ONLY <1>5
  <2>2. Len(w) = 0 => \A i \in 1..Len(w) : FALSE
    OBVIOUS
  <2> QED BY ONLY <1>4, <2>1, <2>2
<1>7. Left(w, d, A, x)
  BY ONLY <1>2, AllLeft
<1> QED BY ONLY <1>1, <1>6, <1>7

LEMMA BackupInv == ASSUME Given, Inv, Backup, GptSigned PROVE Inv'
<1>2. file' = BackupOf(disk) /\ UNCHANGED <<disk, goal>> /\ stage' = "idle"
  BY DEF Backup, BackupOf, Idle
<1>1. Source(disk)
  BY <1>2 DEF Backup, GptSigned, Inv, Source
<1>3. DiskOK(disk') /\ goal' \in TableViews
  BY <1>2 DEF Inv
<1>4. PICK d : d = disk
  OBVIOUS
<1>5. Source(d) /\ file' = BackupOf(d)
  BY <1>1, <1>2, <1>4
<1> QED BY <1>2, <1>3, <1>5 DEF Inv

LEMMA BackupFailsInv == ASSUME Given, Inv, BackupFails PROVE Inv'
<1>1. file'.tag # "backup" /\ UNCHANGED <<disk, goal>> /\ stage' = "idle"
  BY DEF BackupFails, Damaged, Idle
<1> QED BY <1>1 DEF Inv

LEMMA UseInv == ASSUME Given, Inv, Use PROVE Inv'
<1>1. DiskOK(disk') /\ goal' = Seen(disk') /\ file' = file /\ stage' = "idle"
  BY DEF Use, Given, Idle
<1>2. goal' \in TableViews
  BY <1>1, SeenTyped DEF Given, DiskOK
<1> QED BY <1>1, <1>2 DEF Inv

LEMMA BeginInv == ASSUME Given, Inv, Begin PROVE Inv'
<1>1. /\ stage' = "extents" /\ todo' = file.writes /\ cur' = Read(disk) /\ goal' = file.view
      /\ said' = "nothing" /\ UNCHANGED <<disk, file>>
  BY DEF Begin
<1>2. PICK d : Source(d) /\ file = BackupOf(d)
  BY DEF Begin, Inv
<1>3. DiskOK(disk)
  BY DEF Inv
<1>4. goal' = Seen(d) /\ goal' \in TableViews
  BY <1>1, <1>2, SourceBlocks DEF BackupOf
<1>5. todo' # <<>> /\ Left(todo', d, TableBlocks(Read(d)), disk)
  <2>1. PICK w, x : w = BackupOf(d).writes /\ x = disk
    OBVIOUS
  <2>2. w # <<>> /\ Left(w, d, TableBlocks(Read(d)), x)
    BY <1>2, <2>1, FileCopies
  <2> QED BY <1>1, <1>2, <2>1, <2>2
<1>6. Restoring(d)'
  BY <1>1, <1>2, <1>3, <1>4, <1>5 DEF Restoring
<1> QED BY <1>1, <1>2, <1>3, <1>4, <1>6 DEF Inv

\* A restore that is cut short leaves the disk as it is.
LEMMA CutInv == ASSUME Given, Inv, Fail \/ PowerCut PROVE Inv'
<1>1. PICK m : Ended(disk', m)
  BY DEF Fail, PowerCut
<1>2. UNCHANGED <<disk, file>>
  BY DEF Fail, PowerCut
<1>3. DiskOK(disk')
  BY <1>2 DEF Inv
<1> QED BY <1>1, <1>2, <1>3, EndedInv

LEMMA NextInv == ASSUME Given, Inv, [Next]_vars, [GptSigned]_vars PROVE Inv'
<1>1. CASE UNCHANGED vars
  <2>1. UNCHANGED <<disk, file, stage, todo, cur, said, goal>>
    BY <1>1 DEF vars
  <2>2. Cleared' = Cleared
    BY <2>1 DEF Cleared
  <2>3. \A d : Restoring(d) => Restoring(d)'
    BY <2>1, <2>2 DEF Restoring
  <2> QED BY <2>1, <2>3 DEF Inv
<1>2. CASE Backup
  <2>1. CASE GptSigned
    BY <1>2, <2>1, BackupInv
  <2> QED BY <1>1, <2>1
<1>3. CASE Next
  BY <1>2, <1>3, BackupFailsInv, UseInv, BeginInv, StepExtentsInv, StepClearingInv, CutInv
  DEF Next
<1> QED BY <1>1, <1>3

Signatures == [][GptSigned]_vars

LEMMA InvAlways == ASSUME Given PROVE Spec /\ Signatures => []Inv
<1>1. Init => Inv
  BY InitInv
<1>2. Inv /\ [Next]_vars /\ [GptSigned]_vars => Inv'
  BY NextInv
<1> QED BY <1>1, <1>2, PTL DEF Spec, Signatures

-----------------------------------------------------------------------------
(* The theorems.                                                           *)

\* Every step is one the promise of TableStore allows, or changes nothing it
\* speaks of.
LEMMA InitPromise == ASSUME Given, Init PROVE Store!StoreInit
<1>1. DiskOK(disk) /\ stage = "idle" /\ said = "nothing" /\ goal = Seen(disk)
  BY DEF Init, Given
<1>2. Seen(disk) \in TableViews
  BY <1>1, SeenTyped DEF Given, DiskOK
<1> QED BY <1>1, <1>2 DEF Store!StoreInit, TableViews, Idle

LEMMA ViewsSeen == ASSUME Given, Inv PROVE Seen(disk) \in TableViews /\ goal \in TableViews
BY SeenTyped DEF Given, Inv, DiskOK

LEMMA LastWritten ==
  ASSUME Given, Inv, Inv', StepExtents \/ StepClearing, Ended(disk', "written"),
         file.whole => Seen(disk') = goal
  PROVE  Store!Finish
<1>1. stage # "idle" /\ stage' = "idle" /\ said' = "written"
  BY DEF StepExtents, StepClearing, Ended
<1>2. goal' \in TableViews /\ Seen(disk') \in TableViews
  <2>1. DiskOK(disk')
    BY DEF Inv
  <2> QED BY <2>1, SeenTyped DEF Inv, Given, DiskOK
<1>3. IF Idle \/ file.whole THEN Seen(disk') = goal ELSE Seen(disk') \in TableViews
  BY <1>1, <1>2 DEF Idle
<1>4. (Idle \/ file.whole)' \in BOOLEAN
  OBVIOUS
<1> QED BY <1>1, <1>2, <1>3, <1>4 DEF Store!Finish, Store!Stop, TableViews, Idle

LEMMA MoreToWrite ==
  ASSUME Given, Inv, Inv', StepExtents \/ StepClearing, stage' # "idle", UNCHANGED <<said, goal>>
  PROVE  Store!Change
<1>1. stage # "idle" /\ file' = file
  BY DEF StepExtents, StepClearing
<1>2. Seen(disk') \in TableViews
  <2>1. DiskOK(disk')
    BY DEF Inv
  <2> QED BY <2>1, SeenTyped DEF Given, DiskOK
<1>3. (Idle \/ file.whole)' = (Idle \/ file.whole)
  BY <1>1 DEF Idle
<1> QED BY <1>1, <1>2, <1>3 DEF Store!Change, TableViews, Idle

\* The last block of a restore leaves what the file has of the table.
LEMMA LastLeaves ==
  ASSUME Given, Inv, Inv', NEW d, Restoring(d), Regained(d, disk')
  PROVE  (file.whole => Seen(disk') = goal) /\ BroughtBack
<1>1. Source(d) /\ file.whole = Whole(d) /\ file.gap = Gap(d) /\ goal = Seen(d)
  BY DEF Restoring, BackupOf
<1>2. PICK x : x = disk'
  OBVIOUS
<1>3. DiskOK(d) /\ DiskOK(x) /\ "unnamed" \in Names /\ Regained(d, x)
  BY <1>1, <1>2 DEF Source, Inv, Given
<1>4. /\ Seen(x).kind = Seen(d).kind
      /\ NonLogical(Seen(x).parts) = NonLogical(Seen(d).parts)
      /\ Whole(d) => Seen(x) = Seen(d)
      /\ ~Gap(d) => Seen(d).parts \subseteq Seen(x).parts
  BY ONLY <1>3, RegainedSeen
<1> QED BY <1>1, <1>2, <1>4 DEF BroughtBack

LEMMA StepPromise ==
  ASSUME Given, Inv, Inv', StepExtents \/ StepClearing
  PROVE  Store!StoreNext
<1>1. PICK d : Restoring(d) /\ DiskOK(disk)
  BY DEF Inv, StepExtents, StepClearing
<1>2. CASE StepExtents
  <2>1. ASSUME ~(Len(todo) > 1) PROVE file.whole => Seen(disk') = goal
    <3>1. Regained(d, disk')
      BY <1>1, <1>2, <2>1, ExtentsStep DEF StepExtents
    <3> QED BY <1>1, <3>1, LastLeaves
  <2>2. CASE Ended(disk', "written") /\ ~(Len(todo) > 1)
    BY <1>2, <2>1, <2>2, LastWritten DEF Store!StoreNext
  <2>3. CASE stage' # "idle" /\ UNCHANGED <<said, goal>>
    BY <1>2, <2>3, MoreToWrite DEF Store!StoreNext
  <2> QED BY <1>2, <2>2, <2>3 DEF StepExtents
<1>3. CASE StepClearing
  <2>1. file.whole => Seen(disk') = goal
    <3>1. Regained(d, disk')
      BY <1>1, <1>3, ClearingStep DEF StepClearing
    <3> QED BY <1>1, <3>1, LastLeaves
  <2>2. CASE Ended(disk', "written")
    BY <1>3, <2>1, <2>2, LastWritten DEF Store!StoreNext
  <2>3. CASE stage' # "idle" /\ UNCHANGED <<said, goal>>
    BY <1>3, <2>3, MoreToWrite DEF Store!StoreNext
  <2> QED BY <1>3, <2>2, <2>3 DEF StepClearing
<1> QED BY <1>2, <1>3

LEMMA NextPromise ==
  ASSUME Given, Inv, Inv', [Next]_vars
  PROVE  [Store!StoreNext]_(Store!storeVars)
<1>1. /\ Seen(disk) \in TableViews /\ goal \in TableViews
      /\ Seen(disk') \in TableViews /\ goal' \in TableViews
  <2>1. DiskOK(disk') /\ goal' \in TableViews
    BY DEF Inv
  <2> QED BY <2>1, ViewsSeen, SeenTyped DEF Given, DiskOK
<1>2. CASE UNCHANGED vars
  <2>1. UNCHANGED <<disk, file, stage, said, goal>>
    BY <1>2 DEF vars
  <2> QED BY <2>1 DEF Store!storeVars, Idle
<1>3. CASE Backup \/ BackupFails
  <2>1. stage = "idle" /\ said' = "nothing" /\ UNCHANGED <<disk, stage, goal>>
    BY <1>3 DEF Backup, BackupFails, Idle
  <2>2. Store!Forget
    BY <2>1 DEF Store!Forget, Idle
  <2> QED BY <2>2 DEF Store!StoreNext
<1>4. CASE Use
  <2>1. stage = "idle" /\ said' = "nothing" /\ UNCHANGED stage
    BY <1>4 DEF Use, Idle
  <2>2. Store!Outside
    BY <1>1, <2>1 DEF Store!Outside, TableViews, Idle
  <2> QED BY <2>2 DEF Store!StoreNext
<1>5. CASE Begin
  <2>1. stage = "idle" /\ stage' = "extents" /\ said' = "nothing" /\ UNCHANGED disk
    BY <1>5 DEF Begin, Idle
  <2>2. (Idle \/ file.whole)' \in BOOLEAN
    OBVIOUS
  <2>3. Store!Start
    BY <1>1, <2>1, <2>2 DEF Store!Start, TableViews, Idle
  <2> QED BY <2>3 DEF Store!StoreNext
<1>6. CASE StepExtents \/ StepClearing
  BY <1>6, StepPromise
<1>7. CASE Fail \/ PowerCut
  <2>1. /\ stage # "idle" /\ stage' = "idle" /\ said' \in {"nothing", "not written"}
        /\ UNCHANGED disk
    BY <1>7 DEF Fail, PowerCut, Ended, Idle
  <2>2. Store!GiveUp
    <3>1. (Idle \/ file.whole)' \in BOOLEAN
      OBVIOUS
    <3> QED BY <1>1, <2>1, <3>1 DEF Store!GiveUp, Store!Stop, TableViews, Idle
  <2> QED BY <2>2 DEF Store!StoreNext
<1> QED BY <1>2, <1>3, <1>4, <1>5, <1>6, <1>7 DEF Next

\* What the last block of a restore leaves.
LEMMA RestoreDone ==
  ASSUME Given, Inv, NEW d, Restoring(d), Next, Done
  PROVE  /\ \A b \in TableBlocks(Read(d)) : disk'[b] = d[b]
         /\ DiskOK(disk') /\ Regained(d, disk')
         /\ Read(d).kind = "mbr" /\ cur.kind = "gpt" =>
              \A b \in ClearedBlocks(cur, Read(disk').parts) : disk'[b] = Zero
<1>1. said = "nothing" /\ DiskOK(disk)
  BY DEF Restoring, Inv
<1>2. StepExtents \/ StepClearing
  BY <1>1 DEF Done, Next, Backup, BackupFails, Use, Begin, Fail, PowerCut, Idle, Ended
<1>3. CASE StepExtents
  <2>1. ~(Len(todo) > 1) /\ Clearing(disk') = <<>>
    BY <1>1, <1>3 DEF StepExtents, Done
  <2>2. /\ \A b \in TableBlocks(Read(d)) : disk'[b] = d[b]
        /\ DiskOK(disk') /\ Regained(d, disk')
    BY <1>1, <1>3, <2>1, ExtentsStep DEF StepExtents
  <2>3. PICK x : x = disk'
    OBVIOUS
  <2>4. DiskOK(x) /\ \A b \in TableBlocks(Read(d)) : x[b] = d[b]
    BY <2>2, <2>3
  <2>5. ASSUME Read(d).kind = "mbr", cur.kind = "gpt", NEW b \in ClearedBlocks(cur, Read(x).parts)
        PROVE  FALSE
    <3>1. /\ Clearing(x) # <<>> => Read(d).kind = "mbr" /\ cur.kind = "gpt"
          /\ Read(d).kind = "mbr" /\ cur.kind = "gpt" =>
               Copies(Clearing(x), Zeros, ClearedBlocks(cur, Read(x).parts))
      BY ONLY Given, Restoring(d), <2>4, ClearingBegins
    <3>2. Copies(Clearing(x), Zeros, ClearedBlocks(cur, Read(x).parts)) /\ Clearing(x) = <<>>
      BY <2>1, <2>3, <2>5, <3>1
    <3>3. \E i \in 1..Len(<<>>) : TRUE
      BY <2>5, <3>2 DEF Copies
    <3> QED BY ONLY <3>3
  <2> QED BY <2>2, <2>3, <2>5
<1>4. CASE StepClearing
  <2>1. ~(Len(todo) > 1)
    BY <1>1, <1>4 DEF StepClearing, Done
  <2>2. /\ \A b \in TableBlocks(Read(d)) : disk'[b] = d[b]
        /\ DiskOK(disk') /\ Regained(d, disk') /\ Read(disk').parts = Read(disk).parts
        /\ \A b \in Cleared : disk'[b] = Zero
    BY <1>1, <1>4, <2>1, ClearingStep DEF StepClearing
  <2> QED BY <2>2 DEF Cleared
<1> QED BY <1>2, <1>3, <1>4

LEMMA DoneRestoring == ASSUME Inv, Done PROVE \E d : Restoring(d)
BY DEF Inv, Done, Idle

LEMMA BroughtBackStep == ASSUME Given, Inv, Inv', Next, Done PROVE BroughtBack
<1>1. PICK d : Restoring(d)
  BY DoneRestoring
<1>2. Regained(d, disk')
  BY <1>1, RestoreDone
<1> QED BY <1>1, <1>2, LastLeaves

\* A restore keeps the promise of TableStore: when it says "Restored" of a file
\* that has every block reading looked at, the disk shows the table that was
\* backed up, whatever was on it before and wherever restores before were cut
\* short. Of any file, one of a chain that breaks off included, it brings back
\* the kind, the partitions of block 0 and, unless the file has a gap, every
\* logical partition; and nothing else is ever said to be restored.
THEOREM RestoredTheorem == ASSUME Given PROVE Spec /\ Signatures => Restored
<1>1. Init => Store!StoreInit
  BY InitPromise
<1>2. Inv /\ Inv' /\ [Next]_vars => [Store!StoreNext]_(Store!storeVars)
  BY NextPromise
<1>3. Inv /\ Inv' /\ [Next]_vars => [Done => BroughtBack]_vars
  BY BroughtBackStep
<1> QED BY <1>1, <1>2, <1>3, InvAlways, PTL DEF Spec, Restored, Store!StoreSpec

LEMMA ByteForByteStep ==
  ASSUME Given, Inv, Next, Done, NEW i \in 1..Len(file.writes)
  PROVE  disk'[file.writes[i].at] = file.writes[i].block
<1>1. PICK d : Restoring(d)
  BY DoneRestoring
<1>2. Source(d) /\ file = BackupOf(d)
  BY <1>1 DEF Restoring
<1>3. PICK A : A = TableBlocks(Read(d))
  OBVIOUS
<1>4. PICK w : w = file.writes
  OBVIOUS
<1>5. Copies(w, d, A)
  BY <1>2, <1>3, <1>4, SourceBlocks
<1>6. w[i].at \in A /\ w[i].block = d[w[i].at]
  BY <1>4, <1>5 DEF Copies
<1>7. \A b \in A : disk'[b] = d[b]
  BY <1>1, <1>3, RestoreDone
<1> QED BY <1>4, <1>6, <1>7

\* "Restored byte for byte" (README.md:31): when a restore ends, every block of
\* the backup is on the disk as the file has it. What is cleared of a GPT that
\* an MBR replaces is no block of the table that was brought back, because the
\* records of the chain lie in their extended partition.
THEOREM ByteForByteTheorem == ASSUME Given PROVE Spec /\ Signatures => ByteForByte
<1>1. Inv /\ [Next]_vars =>
        [Done => \A i \in 1..Len(file.writes) :
           disk'[file.writes[i].at] = file.writes[i].block]_vars
  BY ByteForByteStep
<1> QED BY <1>1, InvAlways, PTL DEF Spec, ByteForByte

LEMMA GptClearedStep ==
  ASSUME Given, Inv, Next, Done, cur.kind = "gpt", goal.kind = "mbr",
         NEW b \in {1, cur.blba} \cap Blocks, Signed(disk'[b])
  PROVE  InsidePartition(Seen(disk').parts, b)
<1>1. PICK d : Restoring(d)
  BY DoneRestoring
<1>2. PICK c : DiskOK(c) /\ cur = Read(c)
  BY <1>1 DEF Restoring
<1>3. Source(d) /\ goal = Seen(d)
  BY <1>1 DEF Restoring
<1>4. Read(d).kind = "mbr"
  BY <1>3 DEF Seen, View
<1>5. PICK x : x = disk'
  OBVIOUS
<1>6. /\ DiskOK(x) /\ \A y \in TableBlocks(Read(d)) : x[y] = d[y]
      /\ \A y \in ClearedBlocks(cur, Read(x).parts) : x[y] = Zero
  BY <1>1, <1>4, <1>5, RestoreDone
<1>7. ~Signed(Zero)
  BY DEF Signed, Zero
<1>8. b \in PrimaryBlocks(cur) \cup BackupBlocks(cur)
  BY <1>2, <1>3, <1>4, <1>6, ClearedApart
<1>9. b \in Blocks /\ b < NBlocks
  BY SomeBlocks
<1>10. b \notin ClearedBlocks(cur, Read(x).parts)
  BY <1>5, <1>6, <1>7
<1>11. InsidePartition(Read(x).parts, b)
  BY <1>8, <1>9, <1>10 DEF ClearedBlocks
<1>12. InsidePartition(Seen(x).parts, b)
  BY <1>6, <1>11, InsideSeen DEF Given
<1> QED BY <1>5, <1>12

\* When an MBR has been restored over a GPT, no header of that GPT is left
\* where another system would find it, except inside a partition that the disk
\* then shows.
THEOREM GptClearedTheorem == ASSUME Given PROVE Spec /\ Signatures => GptCleared
<1>1. Inv /\ [Next]_vars =>
        [Done /\ cur.kind = "gpt" /\ goal.kind = "mbr" =>
           \A b \in {1, cur.blba} \cap Blocks :
             Signed(disk'[b]) => InsidePartition(Seen(disk').parts, b)]_vars
  BY GptClearedStep
<1> QED BY <1>1, InvAlways, PTL DEF Spec, GptCleared

-----------------------------------------------------------------------------
(* What a restore leaves alone.                                            *)

Within(p, b) == p.start <= b /\ b <= Last(p)

\* No block of the table d shows lies in a partition, the extended one apart,
\* which has the records of its chain.
Apart(d) ==
  \A b \in TableBlocks(Read(d)) : \A p \in Read(d).parts : p.role # "extended" => ~Within(p, b)

\* Only such tables are backed up. (pt_backup saves, and pt_restore writes back,
\* also one whose array or records lie in a partition of its own.)
TablesApart == [][Backup => Apart(disk)]_vars

\* What a file holds of such a table.
FileApart ==
  file.tag = "backup" =>
    \A i \in 1..Len(file.writes) : \A p \in file.view.parts :
      p.role # "extended" => ~Within(p, file.writes[i].at)

LEMMA SeenParts ==
  ASSUME Given, NEW d, Source(d), NEW q \in Seen(d).parts
  PROVE  \E p \in Read(d).parts : p.role = q.role /\ \A b : Within(q, b) <=> Within(p, b)
<1>1. Read(d).parts \in SUBSET Part
  BY ReadTyped DEF Given, Source, DiskOK, TableRecords
<1>2. PICK p \in Read(d).parts : q = [p EXCEPT !.ebr = 0]
  BY DEF Seen, View
<1>3. p \in Part
  BY <1>1
<1>4. q.start = p.start /\ q.size = p.size /\ q.role = p.role
  BY <1>2, <1>3 DEF Part
<1> QED BY <1>4 DEF Within, Last

LEMMA FileApartStep ==
  ASSUME Given, Inv, FileApart, [Next]_vars, [GptSigned]_vars, [Backup => Apart(disk)]_vars
  PROVE  FileApart'
<1>1. CASE Backup
  <2>1. CASE UNCHANGED vars
    BY <2>1 DEF vars, FileApart
  <2>2. CASE GptSigned /\ Apart(disk)
    <3>1. PICK d : d = disk
      OBVIOUS
    <3>3. file' = BackupOf(d)
      BY <1>1, <3>1 DEF Backup, BackupOf
    <3>2. Source(d)
      BY <1>1, <2>2, <3>1, <3>3 DEF Backup, GptSigned, Inv, Source
    <3>4. PICK w, A : w = file'.writes /\ A = TableBlocks(Read(d))
      OBVIOUS
    <3>5. Copies(w, d, A)
      BY <3>2, <3>3, <3>4, SourceBlocks
    <3>6. ASSUME NEW i \in 1..Len(w), NEW q \in Seen(d).parts, q.role # "extended"
          PROVE  ~Within(q, w[i].at)
      <4>1. w[i].at \in A
        BY <3>5 DEF Copies
      <4>2. PICK p \in Read(d).parts : p.role = q.role /\ \A b : Within(q, b) <=> Within(p, b)
        BY <3>2, SeenParts
      <4>3. ~Within(p, w[i].at)
        BY <2>2, <3>1, <3>4, <3>6, <4>1, <4>2 DEF Apart
      <4> QED BY <4>2, <4>3
    <3>7. file'.view = Seen(d)
      BY <3>3 DEF BackupOf
    <3> QED BY <3>4, <3>6, <3>7 DEF FileApart
  <2> QED BY <1>1, <2>1, <2>2
<1>2. CASE BackupFails
  BY <1>2 DEF BackupFails, Damaged, FileApart
<1>3. CASE file' = file
  BY <1>3 DEF FileApart
<1> QED BY <1>1, <1>2, <1>3
        DEF Next, vars, Use, Begin, StepExtents, StepClearing, Fail, PowerCut

LEMMA FileApartAlways == ASSUME Given PROVE Spec /\ Signatures /\ TablesApart => []FileApart
<1>1. Init => FileApart
  BY DEF Init, NoFile, FileApart
<1>2. Inv /\ FileApart /\ [Next]_vars /\ [GptSigned]_vars /\ [Backup => Apart(disk)]_vars
        => FileApart'
  BY FileApartStep
<1> QED BY <1>1, <1>2, InvAlways, PTL DEF Spec, Signatures, TablesApart

LEMMA KeepsDataStep ==
  ASSUME Given, Inv, FileApart, Next, ~Idle, ~file.gap,
         NEW p \in goal.parts, p.role # "extended", NEW b \in (p.start..Last(p)) \cap Blocks
  PROVE  disk'[b] = disk[b]
<1>1. PICK d : Restoring(d) /\ DiskOK(disk)
  BY DEF Inv, Idle
<1>2. Source(d) /\ file = BackupOf(d) /\ goal = Seen(d)
  BY <1>1 DEF Restoring
<1>3. file.tag = "backup" /\ file.view = goal
  BY <1>2 DEF BackupOf
<1>4. /\ p.start \in Nat /\ p.size \in Nat /\ Last(p) = p.start + p.size - 1
  <2>1. goal \in TableViews
    BY DEF Inv
  <2>2. p \in Part
    BY <2>1 DEF TableViews
  <2> QED BY <2>2, PartBounds
<1>5. Within(p, b)
  BY <1>4 DEF Within
<1>6. CASE StepExtents
  <2>1. /\ Head(todo).at \in TableBlocks(Read(d))
        /\ \A x \in Blocks : x # Head(todo).at => disk'[x] = disk[x]
    BY <1>1, <1>6, ExtentsStep DEF StepExtents
  <2>2. b \notin TableBlocks(Read(d))
    <3>1. PICK w, A : w = file.writes /\ A = TableBlocks(Read(d))
      OBVIOUS
    <3>2. Copies(w, d, A)
      BY <1>2, <3>1, SourceBlocks
    <3>3. \A i \in 1..Len(w) : ~Within(p, w[i].at)
      BY <1>3, <3>1 DEF FileApart
    <3> QED BY <1>5, <3>1, <3>2, <3>3 DEF Copies
  <2> QED BY <2>1, <2>2
<1>7. CASE StepClearing
  <2>1. /\ Head(todo).at \in Cleared
        /\ \A x \in Blocks : x # Head(todo).at => disk'[x] = disk[x]
    BY <1>1, <1>7, ClearingStep DEF StepClearing
  <2>2. PICK x : x = disk
    OBVIOUS
  <2>3. DiskOK(x) /\ Read(d).kind = "mbr" /\ \A c \in TableBlocks(Read(d)) : x[c] = d[c]
    BY <1>1, <1>7, <2>2 DEF Restoring, StepClearing
  <2>4. "unnamed" \in Names /\ DiskOK(d) /\ ~Gap(d)
    BY <1>2 DEF Given, Source, BackupOf
  <2>5. Regained(d, x)
    BY ONLY <2>3, <2>4, RestoredMbr
  <2>6. goal.parts \subseteq Seen(x).parts
    BY <1>2, <2>3, <2>4, <2>5, RegainedSeen
  <2>7. InsidePartition(Seen(x).parts, b)
    BY <1>5, <2>6 DEF InsidePartition, Within
  <2>8. InsidePartition(Read(x).parts, b)
    BY ONLY <2>3, <2>4, <2>7, InsideSeen
  <2>9. b \notin Cleared
    BY <2>2, <2>8 DEF Cleared, ClearedBlocks
  <2> QED BY <2>1, <2>9
<1> QED BY <1>6, <1>7 DEF Next, Backup, BackupFails, Use, Begin, Fail, PowerCut

\* A restore of a file without a gap, whole or cut short, changes no block inside
\* a partition it brings back, even where the GPT it clears was: of tables whose
\* own blocks lie outside their partitions.
THEOREM RestoreKeepsDataTheorem ==
  ASSUME Given PROVE Spec /\ Signatures /\ TablesApart => RestoreKeepsData
<1>1. Inv /\ FileApart /\ [Next]_vars =>
        [~Idle /\ ~file.gap => \A p \in goal.parts : p.role # "extended" =>
           \A b \in (p.start..Last(p)) \cap Blocks : disk'[b] = disk[b]]_vars
  BY KeepsDataStep
<1> QED BY <1>1, InvAlways, FileApartAlways, PTL DEF Spec, RestoreKeepsData

\* The blocks of the disk are blocks, and what the file holds, and what is left
\* of a restore, belongs to a table that was on the disk: the invariant that the
\* theorems above rest on.
THEOREM BackupInvariant == ASSUME Given PROVE Spec /\ Signatures => []Inv
BY InvAlways

-----------------------------------------------------------------------------
(* What partmgr writes can be backed up.                                   *)

\* A table on x, if there is one, is such as the theorems above ask for.
Backed(x) ==
  /\ DiskOK(x)
  /\ Read(x).kind # "none" => Source(x) /\ Apart(x) /\ Whole(x) /\ ~Gap(x)

\* A backup has the header of a GPT when block 1, signed, is one of its blocks.
LEMMA HeldHeader ==
  ASSUME "unnamed" \in Names, NEW x, DiskOK(x)
  PROVE  HasGpt(BackupOf(x)) <=> 1 \in TableBlocks(Read(x)) /\ Signed(x[1])
<1>1. PICK w, A : w = BackupOf(x).writes /\ A = TableBlocks(Read(x))
  OBVIOUS
<1>2. x \in [Blocks -> Contents] /\ Read(x) \in TableRecords
  BY ReadTyped DEF DiskOK
<1>3. w = Extents(x, Read(x))
  BY <1>1 DEF BackupOf
<1>4. Copies(w, x, A)
  BY ONLY <1>1, <1>2, <1>3, ExtentsCopy
<1> QED BY <1>1, <1>4 DEF HasGpt, Copies

LEMMA WrittenDisk ==
  ASSUME NEW d, DiskOK(d), NEW w, IsOps(w), \A i \in 1..Len(w) : BlockOK(w[i].at, w[i].block),
         NEW x, x = AfterAll(d, w)
  PROVE  DiskOK(x)
<1>1. PICK n \in Nat : n = Len(w) /\ DOMAIN w = 1..n
  BY OpsSeq
<1>2. ASSUME NEW b \in Blocks PROVE BlockOK(b, x[b])
  <2>1. \/ x[b] = d[b]
        \/ \E i \in 1..n : w[i].at = b /\ x[b] = w[i].block
    BY <1>1, SomeWrite
  <2>2. BlockOK(b, d[b])
    BY DEF DiskOK
  <2> QED BY <1>1, <2>1, <2>2
<1>3. \A b \in Blocks : x[b] \in Contents
  BY <1>2 DEF BlockOK
<1>4. x = [b \in Blocks |-> x[b]]
  BY DEF AfterAll
<1> QED BY ONLY <1>2, <1>3, <1>4 DEF DiskOK

LEMMA GptWriteOK ==
  ASSUME NBlocks > 2 * ArrBlocks + 3, NEW t, NEW o, o.at \in Blocks, o.block \in Contents,
         GptBlock(o.block, t), o.at = 0 => o.block = ProtectiveSector,
         NEW j \in Nat, GptOp(o, j, t)
  PROVE  BlockOK(o.at, o.block)
<1>2. ASSUME o.at = 0, NEW e \in o.block.entries, NEW f \in o.block.entries PROVE e = f
  <2> DEFINE z == [num |-> 1, start |-> 1, size |-> NBlocks - 1, type |-> Protective, active |-> FALSE]
  <2>1. o.block = Sector({z})
    BY <1>2 DEF ProtectiveSector
  <2> HIDE DEF z
  <2>2. o.block.entries = {z}
    BY <2>1 DEF Sector
  <2> QED BY <2>2
<1>3. ASSUME o.at = 1 PROVE o.block.ents = 2 /\ o.block.alt > ArrBlocks
  <2>1. o.block = Header(1, NBlocks - 1, 2, t.first, NewLast, t.parts)
    BY <1>3, SomeBlocks DEF GptOp
  <2>2. o.block.ents = 2 /\ o.block.alt = NBlocks - 1
    BY <2>1 DEF Header
  <2> QED BY <2>2, SomeBlocks
<1> QED BY <1>2, <1>3 DEF BlockOK

LEMMA MbrWriteOK ==
  ASSUME NEW S, LaidOut(S), NEW o, MbrWrite(o, S)
  PROVE  BlockOK(o.at, o.block)
<1>1. PICK E \in Nat : \A e \in Extended(S) : e.start = E
  <2>1. \A e \in Extended(S) : e.start \in Nat
    BY PartBounds DEF LaidOut, Extended
  <2>2. \A e, f \in Extended(S) : e = f
    BY DEF LaidOut
  <2>3. CASE Extended(S) = {}
    BY <2>3
  <2>4. CASE Extended(S) # {}
    BY <2>1, <2>2, <2>4
  <2> QED BY <2>3, <2>4
<1>2. InOrder(o.at, o.block, E) /\ o.block \in Contents /\ o.block.tag # "gpt"
  BY <1>1 DEF MbrWrite, PutInOrder
<1> QED BY <1>2 DEF InOrder, BlockOK

\* The blocks of a GPT lie outside the area of its partitions, and it has no
\* chain.
LEMMA GptBacked ==
  ASSUME NBlocks > 2 * ArrBlocks + 3, NEW d, NEW t, FitsDisk(t), t.first \in Nat,
         t.parts \in SUBSET Part, t.hybrid => Announced(d),
         "unnamed" \in Names, NEW x, x = AfterAll(d, GptWrites(t)), DiskOK(x)
  PROVE  Source(x) /\ Apart(x) /\ Whole(x) /\ ~Gap(x)
<1>0. /\ NBlocks \in Nat /\ ArrBlocks \in Nat
      /\ 2 + ArrBlocks <= t.first /\ NewLast = NBlocks - 2 - ArrBlocks
  BY SomeBlocks DEF FitsDisk, NewLast
<1>1. /\ Read(x).kind = "gpt" /\ Read(x).parts = t.parts
      /\ Read(x).blba = NBlocks - 1 /\ Read(x).pent = 2 /\ Read(x).bent = NBlocks - 1 - ArrBlocks
  BY GptReadBack DEF Announced
<1>2. Signed(x[1])
  <2>1. x[1] = Header(1, NBlocks - 1, 2, t.first, NewLast, t.parts)
    BY GptBlocks
  <2> QED BY <2>1 DEF Header, Signed
<1>3. Source(x)
  <2>1. 1 \in TableBlocks(Read(x))
    BY <1>0, <1>1, SomeBlocks DEF TableBlocks, Stretch
  <2> QED BY <1>1, <1>2, <2>1, HeldHeader DEF Source
<1>4. ASSUME NEW b \in TableBlocks(Read(x)) PROVE b \in Nat /\ (b < 2 + ArrBlocks \/ NewLast < b)
  <2>1. \/ b = 0 \/ b \in Stretch(1, 1) \/ b \in Stretch(2, ArrBlocks)
        \/ b \in Stretch(NBlocks - 1, 1) \/ b \in Stretch(NBlocks - 1 - ArrBlocks, ArrBlocks)
    BY <1>1, <1>4 DEF TableBlocks
  <2>2. b = 0 \/ b \in Blocks
    BY <2>1 DEF Stretch
  <2>3. b \in Nat
    BY <2>2, SomeBlocks
  <2> QED BY <1>0, <2>1, <2>3 DEF Stretch
<1>5. ASSUME NEW b \in TableBlocks(Read(x)), NEW p \in t.parts, Within(p, b) PROVE FALSE
  <2>1. p.start \in Nat /\ Last(p) \in Nat /\ t.first <= p.start /\ Last(p) <= NewLast
    BY PartBounds DEF FitsDisk
  <2>2. p.start <= b /\ b <= Last(p)
    BY <1>5 DEF Within
  <2> QED BY <1>0, <1>4, <2>1, <2>2
<1>6. Whole(x) /\ ~Gap(x)
  BY <1>1 DEF Whole, Gap
<1> QED BY <1>1, <1>3, <1>5, <1>6 DEF Apart

\* The records of a chain lie in no partition but the extended one, and the
\* chain is whole.
LEMMA MbrBacked ==
  ASSUME "unnamed" \in Names, NEW d, DiskOK(d), NEW t, MbrTable(t.parts), Separate(t.parts),
         NEW x, x = AfterAll(d, MbrWrites(d, t)), DiskOK(x)
  PROVE  Source(x) /\ Apart(x) /\ Whole(x) /\ ~Gap(x)
<1> DEFINE S == t.parts
           R == Read(x).parts
<1>1. LaidOut(S) /\ ExtendedOnDisk(S) /\ S \in SUBSET Part /\ Separate(S)
  BY DEF MbrTable, LaidOut
<1>2. /\ Read(x).kind = "mbr" /\ Bare(R) = Bare(S)
      /\ \E c, n, T, U :
           /\ c = ChainWrites(S) /\ n = Len(c)
           /\ R = T \cup U /\ OneChain(x, c, n, T, U)
           /\ \A p \in T : p.role # "logical"
  BY LinkedDisk, MbrReadBack DEF DiskOK
<1>3. PICK c, n, T, U :
        /\ c = ChainWrites(S) /\ n = Len(c)
        /\ R = T \cup U /\ OneChain(x, c, n, T, U)
        /\ \A p \in T : p.role # "logical"
  BY <1>2
<1>4. \A i \in 1..n : RecordWrite(c[i], S)
  BY <1>1, <1>3, ChainContents
<1>5. R \in SUBSET Part
  BY ReadTyped DEF DiskOK, TableRecords
<1> HIDE DEF S, R
\* Where the records that are read are, and that reading looks at no other block.
<1>6. /\ \A e \in Extended(R) : \E i \in 1..n : c[i].at = e.start
      /\ \A l \in Logicals(R) : \E i \in 1..n : c[i].at = l.ebr
      /\ \A e \in Extended(R) : IsRecord(x, e.start) /\ LinksAmong(x, e)
  <2>1. CASE Extended(T) = {} /\ U = {}
    <3>1. Extended(R) = {} /\ Logicals(R) = {}
      BY <1>3, <2>1 DEF Extended, Logicals
    <3> QED BY <3>1
  <2>2. ASSUME NEW e, Extended(T) = {e}, U = Chain(x, e), ChainLies(x, c, n, e)
        PROVE  Extended(R) = {e} /\ Logicals(R) = Chain(x, e)
    <3>1. \A l \in U : l.role = "logical"
      BY <2>2 DEF ChainLies
    <3>2. Extended(R) = Extended(T) /\ Logicals(R) = U
      BY <1>3, <3>1 DEF Extended, Logicals
    <3> QED BY <2>2, <3>2
  <2>3. CASE ~(Extended(T) = {} /\ U = {})
    <3>1. PICK e : Extended(T) = {e} /\ U = Chain(x, e) /\ ChainLies(x, c, n, e)
      BY <1>3, <2>3 DEF OneChain
    <3>2. Extended(R) = {e} /\ Logicals(R) = Chain(x, e)
      BY <2>2, <3>1
    <3> QED BY <3>1, <3>2 DEF ChainLies
  <2> QED BY <2>1, <2>3
<1>7. MbrDisk(x) /\ R = Read(x).parts
  BY <1>2, SeenTyped DEF DiskOK, R
<1>9. ASSUME NEW e \in Extended(R)
      PROVE  LooksAtSaved(x, e) /\ ChainRecordBlocks(R) = SavedRecords(x, e)
             /\ FirstExtended(R) = {e} /\ \A b \in ChainRecordBlocks(R) : IsRecord(x, b)
  <2>1. /\ e.start \in Nat /\ e.size \in Nat /\ Linked(x) /\ FirstExtended(R) = {e}
        /\ ChainRecordBlocks(R) = SavedRecords(x, e)
    BY <1>7, MbrChain
  <2>2. IsRecord(x, e.start) /\ LinksAmong(x, e)
    BY <1>6
  <2>3. PICK B : B = {e.start} \cup RecordsIn(Chain(x, e))
    OBVIOUS
  <2>4. \A b \in ChainBlocks(x, e) : b \in B /\ Follow(x, e, b) \in B \cup {NBlocks}
    BY <2>2, <2>3 DEF LinksAmong, RecordsIn
  <2>5. NBlocks \notin Blocks
    BY SomeBlocks
  <2>6. SavedRecords(x, e) = B \cap Blocks
    BY <2>3 DEF SavedRecords
  <2>7. LooksAtSaved(x, e)
    BY <2>4, <2>5, <2>6 DEF LooksAtSaved
  <2>8. PICK f : Found(x, e, f)
    BY <2>1, ChainFrom
  <2>9. ASSUME NEW b \in ChainBlocks(x, e) PROVE IsRecord(x, b)
    BY <2>1, <2>8, FoundPlaces
  <2>10. \A b \in B : IsRecord(x, b)
    BY <2>2, <2>3, <2>9, ChainRecordsIn
  <2> QED BY <2>1, <2>6, <2>7, <2>10
<1>10. ChainRecordBlocks(R) # {} => Extended(R) # {}
  BY <1>7, NoChain
<1>11. Whole(x)
  <2>1. ASSUME NEW e \in FirstExtended(R)
        PROVE  \A b \in ChainBlocks(x, e) : {b, Follow(x, e, b)} \cap Blocks \subseteq ChainRecordBlocks(R)
    <3>1. e \in Extended(R)
      BY <2>1 DEF FirstExtended, Extended
    <3> QED BY <1>9, <3>1 DEF LooksAtSaved
  <2> QED BY <1>7, <2>1 DEF Whole
<1>12. ~Gap(x)
  <2>1. ASSUME NEW e \in FirstExtended(R), NEW b \in ChainBlocks(x, e)
        PROVE  b \in ChainRecordBlocks(R)
    <3>1. e \in Extended(R)
      BY <2>1 DEF FirstExtended, Extended
    <3>2. e.start \in Nat /\ e.size \in Nat /\ Linked(x)
      BY <1>7, <3>1, MbrChain
    <3>3. PICK f : Found(x, e, f)
      BY <3>2, ChainFrom
    <3>4. b \in Blocks
      BY <2>1, <3>2, <3>3, FoundPlaces
    <3> QED BY <1>9, <2>1, <3>1, <3>4 DEF LooksAtSaved
  <2> QED BY <1>7, <2>1 DEF Gap
<1>13. Source(x)
  <2>1. ASSUME 1 \in TableBlocks(Read(x)), Signed(x[1]) PROVE FALSE
    <3>0. TableBlocks(Read(x)) = {0} \cup ChainRecordBlocks(R)
      BY <1>2, <1>7 DEF TableBlocks
    <3>1. 1 \in ChainRecordBlocks(R)
      BY <2>1, <3>0
    <3>2. IsRecord(x, 1)
      BY <1>9, <1>10, <3>1
    <3> QED BY <2>1, <3>2 DEF IsRecord, Signed
  <2> QED BY <1>2, <2>1, HeldHeader DEF Source
<1>8. ASSUME NEW b \in TableBlocks(Read(x)), NEW p \in R, p.role # "extended", Within(p, b)
      PROVE  FALSE
  <2>1. PICK q \in S : p.role = q.role /\ p.start = q.start /\ Last(p) = Last(q)
    <3>1. PICK r \in Bare(R) : r.role = p.role /\ r.start = p.start /\ Last(r) = Last(p)
      BY <1>5, BareParts
    <3>2. PICK q \in S : r.role = q.role /\ r.start = q.start /\ Last(r) = Last(q)
      BY <1>1, <1>2, <3>1, BareParts
    <3> QED BY <3>1, <3>2
  <2>2. q.start <= b /\ b <= Last(q) /\ q.role # "extended"
    BY <1>8, <2>1 DEF Within
  <2>3. CASE b = 0
    <3>1. q.start \in Nat /\ 1 <= q.start
      BY <1>1, PartBounds DEF Separate
    <3> QED BY <2>2, <2>3, <3>1
  <2>4. CASE b \in ChainRecordBlocks(R)
    <3>1. PICK i \in 1..n : c[i].at = b
      BY <1>6, <2>4 DEF ChainRecordBlocks
    <3>2. MbrWrite(c[i], S)
      BY <1>1, <1>4, RecordSpares
    <3> QED BY <2>2, <3>1, <3>2 DEF MbrWrite
  <2> QED BY <1>2, <1>8, <2>3, <2>4 DEF TableBlocks, R
<1> QED BY <1>8, <1>11, <1>12, <1>13 DEF Apart, R

\* A table that partmgr has written is one the theorems above are about: its
\* backup is taken for what it is, has every block that reading the table looks
\* at, and holds no block of its partitions. That is so of every table a write may be given and of
\* whatever was on the disk before.
THEOREM WrittenBacked ==
  ASSUME NBlocks > 2 * ArrBlocks + 3, "unnamed" \in Names, NEW d, DiskOK(d),
         NEW t \in TableRecords, TableFits(t), Writable(t),
         t.hybrid => Announced(d) /\ t.kind = "gpt",
         NEW x, x = AfterAll(d, Writes(d, t))
  PROVE  Backed(x) /\ Read(x).kind = t.kind
<1>1. /\ t.kind \in {"none", "mbr", "gpt"} /\ t.hybrid \in BOOLEAN
      /\ t.first \in Nat /\ t.parts \in SUBSET Part
  BY DEF TableRecords
<1>2. NBlocks > 2 /\ d \in [Blocks -> Contents]
  BY SomeBlocks DEF DiskOK
<1>3. CASE t.kind = "gpt"
  <2>1. PICK w : w = GptWrites(t)
    OBVIOUS
  <2>2. x = AfterAll(d, w) /\ FitsDisk(t)
    BY <1>3, <2>1 DEF Writes, Writable
  <2>3. IsOps(w) /\ GptAround(w, t) /\ GptLeft(w, t)
    BY <1>1, <2>1, GptWork
  <2>4. ASSUME NEW i \in 1..Len(w) PROVE BlockOK(w[i].at, w[i].block)
    <3>1. w[i].at \in Blocks /\ w[i].block \in Contents /\ Len(w) - i \in Nat
      BY <2>3, OpsSeq
    <3>2. PICK j \in Nat : j = Len(w) - i
      BY <3>1
    <3>3. GptOp(w[i], j, t)
      BY <2>3, <3>2 DEF GptLeft
    <3>4. GptBlock(w[i].block, t) /\ (w[i].at = 0 => w[i].block = ProtectiveSector)
      BY <2>3 DEF GptAround
    <3> QED BY <3>1, <3>3, <3>4, GptWriteOK
  <2>5. DiskOK(x)
    BY <2>2, <2>3, <2>4, WrittenDisk
  <2>6. Source(x) /\ Apart(x) /\ Whole(x) /\ ~Gap(x)
    BY <1>1, <1>3, <2>1, <2>2, <2>5, GptBacked
  <2>7. Read(x).kind = "gpt"
    BY <1>1, <2>1, <2>2, GptReadBack DEF Announced
  <2> QED BY <1>3, <2>5, <2>6, <2>7 DEF Backed
<1>4. CASE t.kind = "mbr"
  <2>1. PICK w : w = MbrWrites(d, t)
    OBVIOUS
  <2>2. x = AfterAll(d, w) /\ MbrTable(t.parts) /\ Separate(t.parts) /\ LaidOut(t.parts)
    BY <1>4, <2>1 DEF Writes, TableFits, MbrTable
  <2>3. IsOps(w) /\ \A i \in 1..Len(w) : MbrWrite(w[i], t.parts)
    <3>1. NBlocks > 1
      BY <1>2, SomeBlocks
    <3> QED BY <2>1, <2>2, <3>1, MbrWork
  <2>4. DiskOK(x)
    BY <2>2, <2>3, MbrWriteOK, WrittenDisk
  <2>5. Source(x) /\ Apart(x) /\ Whole(x) /\ ~Gap(x)
    BY <2>1, <2>2, <2>4, MbrBacked
  <2>6. Read(x).kind = "mbr"
    BY <1>2, <2>1, <2>2, LinkedDisk, MbrReadBack
  <2> QED BY <1>4, <2>4, <2>5, <2>6 DEF Backed
<1>5. CASE t.kind = "none"
  <2>1. PICK w : w = EraseWrites
    OBVIOUS
  <2>2. x = AfterAll(d, w)
    BY <1>5, <2>1 DEF Writes
  <2>3. IsOps(w) /\ \A i \in 1..Len(w) : w[i].block = Zero
    BY <1>2, <2>1, EraseWork
  <2>4. DiskOK(x)
    BY <2>2, <2>3, ZeroOK, WrittenDisk
  <2>5. Read(x) = NoTable(FALSE)
    BY <1>2, <2>1, <2>2, EraseReadBack
  <2> QED BY <1>5, <2>4, <2>5 DEF Backed, NoTable
<1> QED BY <1>1, <1>3, <1>4, <1>5
=============================================================================

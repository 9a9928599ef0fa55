-------------------------- MODULE TableWriteProofs --------------------------
(***************************************************************************)
(* Proofs about Write, for every disk, every table the user makes of it,   *)
(* every place a write is cut and every geometry: what a write leaves, what *)
(* it never touches, and that a safe one shows the old table or the new.   *)
(***************************************************************************)
EXTENDS TableWrite, ImageProofs

-----------------------------------------------------------------------------
(* The copies of a GPT while another is written.                           *)

\* Before a safe write of a GPT has written the primary header, its backup is
\* that of the table on the disk; then the primary copy is the new one.
OldKept(d) ==
  /\ d[1].tag = "gpt" /\ d[1].alt = NBlocks - 1
  /\ GoodCopy(d, NBlocks - 1)
  /\ d[NBlocks - 1].parts = d[1].parts /\ d[NBlocks - 1].ents > 1 + ArrBlocks

NewFirst(d, G) ==
  /\ GoodCopy(d, 1)
  /\ d[1].alt = NBlocks - 1 /\ d[1].ents = 2 /\ d[1].parts = G

LEMMA HeldSeen ==
  ASSUME NEW d, NBlocks > 2, ~MbrDisk(d), NEW G, OldKept(d) \/ NewFirst(d, G)
  PROVE  Read(d).kind = "gpt" /\ Read(d).parts = d[1].parts
<1>1. d[1].tag = "gpt" /\ d[1].alt = NBlocks - 1
  BY DEF OldKept, NewFirst, GoodCopy
<1>2. PICK h : Read(d) = ReadGpt(d, h)
  <2>1. NBlocks > 1 /\ Signed(d[1])
    BY <1>1, SomeBlocks DEF Signed
  <2> QED BY <2>1, GptReading
<1>3. CASE GoodCopy(d, 1)
  BY <1>2, <1>3 DEF ReadGpt
<1>4. CASE ~GoodCopy(d, 1)
  <2>1. GoodCopy(d, NBlocks - 1) /\ d[NBlocks - 1].parts = d[1].parts
    BY <1>4 DEF OldKept, NewFirst
  <2> QED BY <1>2, <1>4, <2>1 DEF ReadGpt
<1> QED BY <1>3, <1>4

LEMMA TwofoldHeld ==
  ASSUME NEW d, NBlocks > 2, Twofold(d)
  PROVE  ~MbrDisk(d) /\ OldKept(d)
<1>1. /\ Read(d).kind = "gpt" /\ Read(d).pok /\ Read(d).bok /\ Read(d).blba = NBlocks - 1
      /\ d[NBlocks - 1].parts = d[1].parts /\ d[NBlocks - 1].ents > 1 + ArrBlocks
  BY DEF Twofold, Sound
<1>2. ~MbrDisk(d)
  BY <1>1, MbrReading
<1>3. PICK h : Read(d) = ReadGpt(d, h)
  BY <1>1, <1>2 DEF Read, MbrDisk, NoTable
<1>4. GoodCopy(d, 1) /\ d[1].alt = NBlocks - 1 /\ GoodCopy(d, NBlocks - 1)
  BY <1>1, <1>3 DEF ReadGpt, NoTable
<1> QED BY <1>1, <1>2, <1>4 DEF OldKept, GoodCopy

\* Block 0 announces the GPT.
LEMMA GptSectorStep ==
  ASSUME NBlocks > 2 * ArrBlocks + 3, NEW d \in [Blocks -> Contents], NEW G,
         OldKept(d) \/ NewFirst(d, G), NEW y \in Contents, y = ProtectiveSector,
         NEW x, x = Stored(d, 0, y)
  PROVE  /\ ~MbrDisk(x) /\ x[1] = d[1]
         /\ OldKept(d) => OldKept(x)
         /\ NewFirst(d, G) => NewFirst(x, G)
<1>0. NBlocks > 2 /\ 0 \in Blocks /\ 1 \in Blocks /\ NBlocks - 1 \in Blocks /\ NBlocks - 1 # 0
  BY SomeBlocks
<1>1. x[0] = y /\ x[1] = d[1] /\ x[NBlocks - 1] = d[NBlocks - 1]
  <2>1. x[0] = y /\ \A b \in Blocks : b # 0 => x[b] = d[b]
    BY ONLY <1>0, StoredAt, d \in [Blocks -> Contents], y \in Contents, x = Stored(d, 0, y)
  <2>2. 1 # 0
    OBVIOUS
  <2> QED BY ONLY <1>0, <2>1, <2>2, Zenon
<1>2. ~MbrDisk(x)
  <2> DEFINE e == [num |-> 1, start |-> 1, size |-> NBlocks - 1, type |-> Protective, active |-> FALSE]
  <2>1. y = Sector({e}) /\ e.type = Protective
    BY DEF ProtectiveSector
  <2> HIDE DEF e
  <2>2. y.entries = {e}
    BY <2>1 DEF Sector
  <2> QED BY <1>1, <2>1, <2>2 DEF MbrDisk
<1>3. ASSUME NEW b \in Blocks, b # 0 PROVE GoodCopy(x, b) <=> GoodCopy(d, b)
  <2>1. ASSUME d[b].tag = "gpt" PROVE 0 < d[b].ents
    <3>1. d[b] \in GptHeaders
      BY <2>1, Tags
    <3> QED BY <3>1 DEF GptHeaders
  <2> QED BY <1>0, <1>3, <2>1, CopyKept
<1>4. (GoodCopy(x, 1) <=> GoodCopy(d, 1)) /\ (GoodCopy(x, NBlocks - 1) <=> GoodCopy(d, NBlocks - 1))
  <2>1. 1 # 0
    OBVIOUS
  <2> QED BY ONLY <1>0, <1>3, <2>1, Zenon
<1> QED BY <1>1, <1>2, <1>4 DEF OldKept, NewFirst

LEMMA FarApart ==
  ASSUME NBlocks > 2 * ArrBlocks + 3
  PROVE  /\ NBlocks > 2 /\ 0 \in Blocks /\ 1 \in Blocks /\ NBlocks - 1 \in Blocks
         /\ 1 # 0 /\ NBlocks - 1 # 0 /\ NBlocks - 1 # 1 /\ NBlocks - 1 > 1 + ArrBlocks
BY SomeBlocks

\* A block of the primary array is written.
LEMMA GptArrayStep ==
  ASSUME NBlocks > 2 * ArrBlocks + 3, NEW d \in [Blocks -> Contents], ~MbrDisk(d), NEW G,
         NEW c \in Blocks, 2 <= c, c <= 1 + ArrBlocks, NEW y \in Contents, y = ArrayBlock(G, c - 2),
         NEW x, x = Stored(d, c, y)
  PROVE  /\ ~MbrDisk(x) /\ x[1] = d[1]
         /\ OldKept(d) => OldKept(x)
         /\ NewFirst(d, G) => NewFirst(x, G)
<1>0. /\ NBlocks > 2 /\ 0 \in Blocks /\ 1 \in Blocks /\ NBlocks - 1 \in Blocks
      /\ NBlocks - 1 # c /\ 0 # c /\ 1 # c
  BY FarApart, SomeBlocks
<1>1. /\ x \in [Blocks -> Contents] /\ x[c] = y
      /\ \A b \in Blocks : b # c => x[b] = d[b]
  BY StoredAt
<1>2. x[0] = d[0] /\ x[1] = d[1] /\ x[NBlocks - 1] = d[NBlocks - 1]
  BY ONLY <1>0, <1>1, Zenon
<1>3. ~MbrDisk(x)
  BY <1>2 DEF MbrDisk
<1>4. ASSUME OldKept(d) PROVE OldKept(x)
  <2>1. d[NBlocks - 1] \in GptHeaders
    <3>1. d[NBlocks - 1] \in Contents /\ d[NBlocks - 1].tag = "gpt"
      BY <1>0, <1>4 DEF OldKept, GoodCopy
    <3> QED BY <3>1, Tags
  <2>2. c < d[NBlocks - 1].ents
    <3>1. d[NBlocks - 1].ents \in Nat /\ d[NBlocks - 1].ents > 1 + ArrBlocks
      BY <1>4, <2>1 DEF OldKept, GptHeaders
    <3> QED BY <3>1, SomeBlocks
  <2>3. PICK z \in Blocks : z = NBlocks - 1 /\ z # c
    BY <1>0
  <2>4. GoodCopy(x, z) <=> GoodCopy(d, z)
    BY <2>2, <2>3, CopyKept
  <2> QED BY <1>2, <1>4, <2>3, <2>4 DEF OldKept
<1>5. ASSUME NewFirst(d, G) PROVE NewFirst(x, G)
  <2>1. d[1].tag = "gpt" /\ d[1].ents = 2 /\ d[1].parts = G
    BY <1>5 DEF NewFirst, GoodCopy
  <2>2. PICK i \in 0..(ArrBlocks - 1) : i = c - 2
    BY SomeBlocks
  <2>3. d[2 + i] = y /\ 2 + i = c
    BY <1>5, <2>1, <2>2, SomeBlocks DEF NewFirst, GoodCopy
  <2>4. x = d
    BY <2>3 DEF Stored
  <2> QED BY <1>5, <2>4
<1> QED BY <1>2, <1>3, <1>4, <1>5

\* The primary header is written, its array being there.
LEMMA GptHeaderStep ==
  ASSUME NBlocks > 2 * ArrBlocks + 3, NEW d \in [Blocks -> Contents], ~MbrDisk(d), NEW G,
         \A i \in 0..(ArrBlocks - 1) : d[2 + i] = ArrayBlock(G, i),
         NEW f \in Nat, f <= NewLast, NEW y \in Contents,
         y = Header(1, NBlocks - 1, 2, f, NewLast, G), NEW x, x = Stored(d, 1, y)
  PROVE  ~MbrDisk(x) /\ x[1] = y /\ NewFirst(x, G)
<1>0. NBlocks > 2 /\ 0 \in Blocks /\ 1 \in Blocks /\ 0 # 1
  BY FarApart
<1>1. x[1] = y /\ x[0] = d[0] /\ \A b \in Blocks : b # 1 => x[b] = d[b]
  <2>1. x[1] = y /\ \A b \in Blocks : b # 1 => x[b] = d[b]
    BY ONLY <1>0, StoredAt, d \in [Blocks -> Contents], y \in Contents, x = Stored(d, 1, y)
  <2> QED BY ONLY <1>0, <2>1, Zenon
<1>2. ~MbrDisk(x)
  BY <1>1 DEF MbrDisk
<1>3. ASSUME NEW i \in 0..(ArrBlocks - 1) PROVE x[2 + i] = ArrayBlock(G, i)
  <2>1. PICK a : a = 2 + i
    OBVIOUS
  <2>2. a \in Blocks /\ a # 1
    BY <2>1, SomeBlocks
  <2>3. x[a] = d[a]
    BY <1>1, <2>2
  <2> QED BY <2>1, <2>3
<1>4. /\ y.tag = "gpt" /\ y.my = 1 /\ y.alt = NBlocks - 1 /\ y.ents = 2 /\ y.first = f
      /\ y.last = NewLast /\ y.parts = G
  BY DEF Header
<1>5. NewLast < NBlocks /\ 2 + ArrBlocks <= NBlocks /\ 1 < NBlocks
  BY SomeBlocks DEF NewLast
<1>6. GoodCopy(x, 1)
  BY <1>1, <1>3, <1>4, <1>5 DEF GoodCopy
<1> QED BY <1>1, <1>2, <1>4, <1>6 DEF NewFirst

\* A block of the backup copy is written.
LEMMA GptBackupStep ==
  ASSUME NBlocks > 2 * ArrBlocks + 3, NEW d \in [Blocks -> Contents], ~MbrDisk(d), NEW G,
         NewFirst(d, G), NEW c \in Blocks, 1 + ArrBlocks < c, NEW y \in Contents,
         NEW x, x = Stored(d, c, y)
  PROVE  ~MbrDisk(x) /\ x[1] = d[1] /\ NewFirst(x, G)
<1>0. 0 \in Blocks /\ 1 \in Blocks /\ 0 # c /\ 1 # c
  BY FarApart, SomeBlocks
<1>1. \A b \in Blocks : b # c => x[b] = d[b]
  BY StoredAt
<1>2. x[0] = d[0] /\ x[1] = d[1]
  BY ONLY <1>0, <1>1, Zenon
<1>3. ~MbrDisk(x)
  BY <1>2 DEF MbrDisk
<1>4. d[1].ents = 2
  BY DEF NewFirst
<1>5. d[1].ents + ArrBlocks <= c
  BY <1>4, SomeBlocks
<1>6. PICK b \in Blocks : b = 1 /\ b # c
  BY <1>0
<1>7. GoodCopy(x, b) <=> GoodCopy(d, b)
  BY <1>5, <1>6, CopyKept
<1> QED BY <1>2, <1>3, <1>6, <1>7 DEF NewFirst

-----------------------------------------------------------------------------
(* A table is deleted.                                                     *)

LEMMA ZeroSectorStep ==
  ASSUME NBlocks > 2, NEW d \in [Blocks -> Contents], Read(d).kind = "gpt" \/ ~Signed(d[1]),
         NEW y \in Contents, y = Zero, NEW x, x = Stored(d, 0, y)
  PROVE  \/ Signed(d[1]) /\ x[1] = d[1] /\ Read(x).kind = "gpt" /\ Read(x).parts = Read(d).parts
         \/ ~Signed(x[1]) /\ Read(x) = NoTable(FALSE)
<1>0. 0 \in Blocks /\ 1 \in Blocks /\ 0 # 1 /\ NBlocks > 1
  BY SomeBlocks
<1>1. x[0] = y /\ \A b \in Blocks : b # 0 => x[b] = d[b]
  BY ONLY <1>0, StoredAt, d \in [Blocks -> Contents], y \in Contents, x = Stored(d, 0, y)
<1>2. x[1] = d[1] /\ x[0].tag = "zero"
  <2>1. 1 # 0
    OBVIOUS
  <2>2. x[1] = d[1]
    BY ONLY <1>0, <1>1, <2>1, Zenon
  <2> QED BY <1>1, <2>2 DEF Zero
<1>3. CASE ~Signed(d[1])
  BY <1>2, <1>3 DEF Read
<1>4. CASE Signed(d[1]) /\ Read(d).kind = "gpt"
  <2>1. Read(x) = ReadGpt(x, FALSE)
    BY <1>0, <1>2, <1>4 DEF Read
  <2>2. PICK h : Read(d) = ReadGpt(d, h)
    BY <1>4, MbrReading DEF Read, MbrDisk, NoTable
  <2>3. ASSUME NEW b \in Blocks, b # 0 PROVE x[b] = d[b] /\ (GoodCopy(x, b) <=> GoodCopy(d, b))
    <3>1. ASSUME d[b].tag = "gpt" PROVE 0 < d[b].ents
      <4>1. d[b] \in GptHeaders
        BY <3>1, Tags
      <4> QED BY <4>1 DEF GptHeaders
    <3> QED BY <1>0, <2>3, <3>1, CopyKept
  <2>4. GoodCopy(x, 1) <=> GoodCopy(d, 1)
    <3>1. PICK b \in Blocks : b = 1 /\ b # 0
      BY <1>0
    <3> QED BY <2>3, <3>1
  <2>5. PICK alt : alt = IF GoodCopy(d, 1) THEN d[1].alt ELSE NBlocks - 1
    OBVIOUS
  <2>6. alt \in Nat \ {0}
    <3>1. CASE GoodCopy(d, 1)
      <4>1. d[1] \in Contents /\ d[1].tag = "gpt"
        BY <1>0, <3>1 DEF GoodCopy
      <4>2. d[1] \in GptHeaders
        BY <4>1, Tags
      <4> QED BY <2>5, <3>1, <4>2 DEF GptHeaders
    <3>2. CASE ~GoodCopy(d, 1)
      BY <2>5, <3>2, SomeBlocks
    <3> QED BY <3>1, <3>2
  <2>7. GoodCopy(x, alt) <=> GoodCopy(d, alt)
    <3>1. CASE alt < NBlocks
      <4>1. alt \in Blocks /\ alt # 0
        BY <2>6, <3>1, SomeBlocks
      <4> QED BY <2>3, <4>1
    <3>2. CASE ~(alt < NBlocks)
      BY <3>2 DEF GoodCopy
    <3> QED BY <3>1, <3>2
  <2>8. ~GoodCopy(d, 1) => x[alt] = d[alt]
    <3>1. ~GoodCopy(d, 1) => alt \in Blocks /\ alt # 0
      BY <2>5, <2>6, SomeBlocks
    <3> QED BY <2>3, <3>1
  <2>9. GoodCopy(d, 1) \/ GoodCopy(d, alt)
    BY <1>4, <2>2, <2>5 DEF ReadGpt, NoTable
  <2>10. Read(d).parts = IF GoodCopy(d, 1) THEN d[1].parts ELSE d[alt].parts
    BY <2>2, <2>5, <2>9 DEF ReadGpt
  <2>11. Read(x).kind = "gpt" /\ Read(x).parts = IF GoodCopy(x, 1) THEN x[1].parts ELSE x[alt].parts
    <3>1. alt = IF GoodCopy(x, 1) THEN x[1].alt ELSE NBlocks - 1
      BY <1>2, <2>4, <2>5
    <3>2. GoodCopy(x, 1) \/ GoodCopy(x, alt)
      BY <2>4, <2>7, <2>9
    <3>3. CASE GoodCopy(x, 1)
      BY ONLY <2>1, <3>1, <3>3 DEF ReadGpt
    <3>4. CASE ~GoodCopy(x, 1)
      <4>1. alt = NBlocks - 1 /\ GoodCopy(x, NBlocks - 1)
        BY <3>1, <3>2, <3>4
      <4>2. Read(x).kind = "gpt" /\ Read(x).parts = x[NBlocks - 1].parts
        BY ONLY <2>1, <3>4, <4>1 DEF ReadGpt
      <4> QED BY <3>4, <4>1, <4>2
    <3> QED BY <3>3, <3>4
  <2>12. Read(x).parts = Read(d).parts
    BY <1>2, <2>4, <2>8, <2>10, <2>11
  <2> QED BY <1>2, <1>4, <2>11, <2>12
<1> QED BY <1>3, <1>4

-----------------------------------------------------------------------------
(* One of many blocks is written.                                          *)

\* The disk all the writes lead to stays the same while they are done.
LEMMA AfterStep ==
  ASSUME NEW d \in [Blocks -> Contents], NEW s, IsOps(s), s # <<>>,
         NEW x, x = Stored(d, s[1].at, s[1].block)
  PROVE  /\ AfterAll(x, Tail(s)) = AfterAll(d, s)
         /\ Len(s) = 1 => x = AfterAll(d, s)
<1>1. PICK n \in Nat \ {0} : n = Len(s) /\ DOMAIN s = 1..n
  BY OpsSeq
<1>2. /\ s[1].at \in Blocks /\ s[1].block \in Contents /\ IsOps(Tail(s))
      /\ Len(Tail(s)) = n - 1
      /\ \A i \in 1..(n - 1) : Tail(s)[i] = s[i + 1] /\ i + 1 \in 1..n
  BY <1>1, OpsTail
<1>3. PICK m \in Nat : m = n - 1
  BY <1>1
<1>4. PICK t : t = Tail(s)
  OBVIOUS
<1>5. DOMAIN t = 1..m /\ \A i \in 1..m : t[i] = s[i + 1] /\ i + 1 \in 1..n
  BY <1>2, <1>3, <1>4, OpsSeq
<1>6. x \in [Blocks -> Contents] /\ x[s[1].at] = s[1].block
      /\ \A b \in Blocks : b # s[1].at => x[b] = d[b]
  BY <1>2, StoredAt
<1>7. ASSUME NEW b \in Blocks PROVE AfterAll(x, t)[b] = AfterAll(d, s)[b]
  <2>1. CASE \E j \in 1..m : t[j].at = b
    <3>1. PICK i \in 1..m : t[i].at = b /\ \A j \in 1..m : t[j].at = b => j <= i
      BY <2>1, LastThere
    <3>2. AfterAll(x, t)[b] = t[i].block
      <4>0. t[i].at \in Blocks /\ \A j \in 1..m : t[j].at = t[i].at => j <= i
        BY <3>1
      <4>1. AfterAll(x, t)[t[i].at] = t[i].block
        BY <4>0, <1>5, LastWrite
      <4> QED BY <3>1, <4>1
    <3>3. PICK a \in 1..n : a = i + 1
      BY <1>5
    <3>4. s[a] = t[i]
      BY <1>5, <3>3
    <3>5. ASSUME NEW j \in 1..n, s[j].at = b PROVE j <= a
      <4>1. CASE j = 1
        BY <4>1, <3>3
      <4>2. CASE j # 1
        <5>1. PICK k \in 1..m : k = j - 1
          BY <1>3, <4>2
        <5>2. t[k] = s[j]
          BY <5>1, <1>5
        <5>3. k <= i
          BY <3>1, <3>5, <5>2
        <5> QED BY <3>3, <5>1, <5>3
      <4> QED BY <4>1, <4>2
    <3>6. AfterAll(d, s)[b] = s[a].block
      <4>1. s[a].at = b
        BY <3>1, <3>4
      <4>2. AfterAll(d, s)[s[a].at] = s[a].block
        BY <1>1, <3>5, <4>1, LastWrite
      <4> QED BY <4>1, <4>2
    <3> QED BY <3>2, <3>4, <3>6
  <2>2. CASE ~\E j \in 1..m : t[j].at = b
    <3>1. AfterAll(x, t)[b] = x[b]
      BY <1>5, <2>2, NotWritten
    <3>2. ASSUME NEW j \in 1..n, s[j].at = b PROVE j = 1
      <4> SUFFICES ASSUME j # 1 PROVE FALSE
        OBVIOUS
      <4>1. PICK k \in 1..m : k = j - 1
        BY <1>3
      <4>2. t[k] = s[j]
        BY <4>1, <1>5
      <4> QED BY <2>2, <3>2, <4>2
    <3>3. CASE s[1].at = b
      <4>1. PICK a \in 1..n : a = 1
        OBVIOUS
      <4>2. AfterAll(d, s)[s[a].at] = s[a].block
        BY <1>1, <3>2, <3>3, <4>1, LastWrite
      <4> QED BY <1>6, <3>1, <3>3, <4>1, <4>2
    <3>4. CASE s[1].at # b
      <4>1. \A j \in DOMAIN s : s[j].at # b
        BY <1>1, <3>2, <3>4
      <4>2. AfterAll(d, s)[b] = d[b]
        BY <4>1, NotWritten
      <4> QED BY <1>6, <3>1, <3>4, <4>2
    <3> QED BY <3>3, <3>4
  <2> QED BY <2>1, <2>2
<1>8. AfterAll(x, t) = AfterAll(d, s)
  <2>1. PICK f, g : f = AfterAll(x, t) /\ g = AfterAll(d, s)
    OBVIOUS
  <2>2. f = [b \in Blocks |-> f[b]] /\ g = [b \in Blocks |-> g[b]]
    BY <2>1 DEF AfterAll
  <2>3. \A b \in Blocks : f[b] = g[b]
    BY <1>7, <2>1
  <2> QED BY <2>1, <2>2, <2>3
<1>9. ASSUME n = 1 PROVE x = AfterAll(x, t)
  <2>1. DOMAIN t = {}
    BY <1>3, <1>5, <1>9
  <2>2. PICK f : f = AfterAll(x, t)
    OBVIOUS
  <2>3. f = [b \in Blocks |-> f[b]]
    BY <2>2 DEF AfterAll
  <2>4. \A b \in Blocks : f[b] = x[b]
    BY <2>1, <2>2, NotWritten
  <2>5. x = [b \in Blocks |-> x[b]]
    BY <1>6
  <2> QED BY <2>2, <2>3, <2>4, <2>5
<1> QED BY <1>1, <1>4, <1>8, <1>9

-----------------------------------------------------------------------------
(* A GPT is written over one with two copies.                              *)

\* The blocks of the array that are not left to write are there.
ArrayThere(s, d, t) ==
  \A i \in 0..(ArrBlocks - 1) : Len(s) <= 2 * ArrBlocks + 1 - i => d[2 + i] = ArrayBlock(t.parts, i)

GptPlan(s, d, t) ==
  GptLeft(s, t) /\ ArrayThere(s, d, t) /\ (Len(s) <= ArrBlocks + 1 => NewFirst(d, t.parts))

GptHeld(d, G) == ~MbrDisk(d) /\ (OldKept(d) \/ NewFirst(d, G))

LEMMA GptLeftTail ==
  ASSUME NEW s, IsOps(s), s # <<>>, NEW t, GptLeft(s, t)
  PROVE  GptOp(s[1], Len(s) - 1, t) /\ GptLeft(Tail(s), t)
<1>1. PICK n \in Nat \ {0} : n = Len(s)
  BY OpsSeq
<1>2. Len(Tail(s)) = n - 1 /\ \A i \in 1..(n - 1) : Tail(s)[i] = s[i + 1] /\ i + 1 \in 1..n
  BY <1>1, OpsTail
<1>3. ASSUME NEW i \in 1..(n - 1) PROVE GptOp(Tail(s)[i], (n - 1) - i, t)
  <2>1. PICK a \in 1..n : a = i + 1 /\ Tail(s)[i] = s[a]
    BY <1>2
  <2>2. GptOp(s[a], n - a, t)
    BY <1>1 DEF GptLeft
  <2>3. n - a = (n - 1) - i
    BY <2>1
  <2> QED BY <2>1, <2>2, <2>3
<1>4. GptOp(s[1], n - 1, t)
  <2>1. PICK a \in 1..n : a = 1
    OBVIOUS
  <2>2. GptOp(s[a], n - a, t)
    BY <1>1 DEF GptLeft
  <2> QED BY <2>1, <2>2
<1> QED BY <1>1, <1>2, <1>3, <1>4 DEF GptLeft

LEMMA GptPlanStep ==
  ASSUME NBlocks > 2 * ArrBlocks + 3, NEW d \in [Blocks -> Contents], NEW s, IsOps(s), s # <<>>,
         NEW t, t.first \in Nat, t.first <= NewLast, GptPlan(s, d, t), GptHeld(d, t.parts),
         NEW x, x = Stored(d, s[1].at, s[1].block)
  PROVE  /\ GptPlan(Tail(s), x, t) /\ GptHeld(x, t.parts)
         /\ x[1] = d[1] \/ x[1].parts = t.parts
<1> DEFINE G == t.parts
<1>1. PICK n \in Nat \ {0}, j \in Nat : n = Len(s) /\ j = n - 1
  BY OpsSeq
<1>2. PICK c, y : c = s[1].at /\ y = s[1].block
  OBVIOUS
<1>3. /\ c \in Blocks /\ y \in Contents /\ x = Stored(d, c, y)
      /\ Len(Tail(s)) = j
  BY <1>1, <1>2, OpsTail
<1>0. c \in Nat
  BY <1>3, SomeBlocks
<1>4. GptOp(s[1], j, t) /\ GptLeft(Tail(s), t)
  BY <1>1, GptLeftTail DEF GptPlan
<1>5. /\ j <= 2 * ArrBlocks + 2
      /\ j <= ArrBlocks => 1 + ArrBlocks < c
      /\ j = ArrBlocks + 1 => c = 1 /\ y = Header(1, NBlocks - 1, 2, t.first, NewLast, G)
      /\ ArrBlocks + 1 < j /\ j < 2 * ArrBlocks + 2 =>
           c = 2 * ArrBlocks + 3 - j /\ y = ArrayBlock(G, c - 2)
      /\ j = 2 * ArrBlocks + 2 => c = 0 /\ y = ProtectiveSector
  BY <1>2, <1>4 DEF GptOp
<1>6. ASSUME NEW i \in 0..(ArrBlocks - 1), n <= 2 * ArrBlocks + 1 - i PROVE d[2 + i] = ArrayBlock(G, i)
  BY <1>1, <1>6 DEF GptPlan, ArrayThere
<1>7. x[c] = y /\ \A b \in Blocks : b # c => x[b] = d[b]
  BY ONLY <1>3, StoredAt, d \in [Blocks -> Contents]
<1>8. ASSUME NEW i \in 0..(ArrBlocks - 1), j <= 2 * ArrBlocks + 1 - i PROVE x[2 + i] = ArrayBlock(G, i)
  <2>0. PICK a \in Blocks : a = 2 + i
    BY SomeBlocks
  <2>1. CASE c = a
    <3>1. ArrBlocks + 1 < j /\ j < 2 * ArrBlocks + 2
      BY <1>0, <1>1, <1>5, <1>8, <2>0, <2>1, SomeBlocks
    <3>2. y = ArrayBlock(G, c - 2) /\ c - 2 = i
      BY <1>5, <2>0, <2>1, <3>1
    <3> QED BY <1>7, <2>0, <2>1, <3>2
  <2>2. CASE c # a
    <3>1. x[a] = d[a]
      BY <1>7, <2>2
    <3>2. n <= 2 * ArrBlocks + 1 - i
      <4> SUFFICES ASSUME ~(n <= 2 * ArrBlocks + 1 - i) PROVE FALSE
        OBVIOUS
      <4>1. j = 2 * ArrBlocks + 1 - i
        BY <1>1, <1>8, SomeBlocks
      <4>2. ArrBlocks + 1 < j /\ j < 2 * ArrBlocks + 2
        BY <4>1, SomeBlocks
      <4>3. c = 2 * ArrBlocks + 3 - j
        BY <1>5, <4>2
      <4>4. c = 2 + i
        BY <4>1, <4>3, SomeBlocks
      <4> QED BY <2>0, <2>2, <4>4
    <3> QED BY <1>6, <2>0, <3>1, <3>2
  <2> QED BY <2>1, <2>2
<1>9. ArrayThere(Tail(s), x, t)
  BY <1>3, <1>8 DEF ArrayThere
<1>10. ~MbrDisk(d) /\ (OldKept(d) \/ NewFirst(d, G)) /\ (n <= ArrBlocks + 1 => NewFirst(d, G))
  BY <1>1 DEF GptHeld, GptPlan
<1>11. CASE j = 2 * ArrBlocks + 2
  <2>1. c = 0 /\ y = ProtectiveSector
    BY <1>5, <1>11
  <2>2. /\ ~MbrDisk(x) /\ x[1] = d[1]
        /\ OldKept(d) => OldKept(x)
        /\ NewFirst(d, G) => NewFirst(x, G)
    BY <1>3, <1>10, <2>1, GptSectorStep
  <2>3. ~(j <= ArrBlocks + 1)
    BY <1>11, SomeBlocks
  <2> QED BY <1>3, <1>4, <1>9, <1>10, <2>2, <2>3 DEF GptPlan, GptHeld
<1>12. CASE ArrBlocks + 1 < j /\ j < 2 * ArrBlocks + 2
  <2>1. 2 <= c /\ c <= 1 + ArrBlocks /\ y = ArrayBlock(G, c - 2)
    BY <1>0, <1>5, <1>12, SomeBlocks
  <2>2. /\ ~MbrDisk(x) /\ x[1] = d[1]
        /\ OldKept(d) => OldKept(x)
        /\ NewFirst(d, G) => NewFirst(x, G)
    BY ONLY <1>3, <1>10, <2>1, GptArrayStep, d \in [Blocks -> Contents], NBlocks > 2 * ArrBlocks + 3
  <2>3. ~(j <= ArrBlocks + 1)
    BY <1>12, SomeBlocks
  <2> QED BY <1>3, <1>4, <1>9, <1>10, <2>2, <2>3 DEF GptPlan, GptHeld
<1>13. CASE j = ArrBlocks + 1
  <2>1. c = 1 /\ y = Header(1, NBlocks - 1, 2, t.first, NewLast, G)
    BY <1>5, <1>13
  <2>2. \A i \in 0..(ArrBlocks - 1) : d[2 + i] = ArrayBlock(G, i)
    BY <1>1, <1>6, <1>13, SomeBlocks
  <2>3. PICK f \in Nat : f = t.first
    OBVIOUS
  <2>4. ~MbrDisk(x) /\ x[1] = y /\ NewFirst(x, G)
    BY <1>3, <1>10, <2>1, <2>2, <2>3, GptHeaderStep
  <2>5. y.parts = G
    BY <2>1 DEF Header
  <2> QED BY <1>4, <1>9, <2>4, <2>5 DEF GptPlan, GptHeld
<1>14. CASE j <= ArrBlocks
  <2>1. 1 + ArrBlocks < c /\ NewFirst(d, G)
    BY <1>1, <1>5, <1>10, <1>14, SomeBlocks
  <2>2. ~MbrDisk(x) /\ x[1] = d[1] /\ NewFirst(x, G)
    BY <1>3, <1>10, <2>1, GptBackupStep
  <2> QED BY <1>4, <1>9, <2>2 DEF GptPlan, GptHeld
<1>15. j = 2 * ArrBlocks + 2 \/ (ArrBlocks + 1 < j /\ j < 2 * ArrBlocks + 2) \/ j = ArrBlocks + 1
       \/ j <= ArrBlocks
  BY <1>5, SomeBlocks
<1> QED BY <1>11, <1>12, <1>13, <1>14, <1>15

LEMMA GptPlanStart ==
  ASSUME NBlocks > 2 * ArrBlocks + 3, NEW t, t.first \in Nat, t.parts \in SUBSET Part,
         t.hybrid \in BOOLEAN, NEW s, s = GptWrites(t)
  PROVE  /\ IsOps(s) /\ s # <<>> /\ GptAround(s, t)
         /\ \A d : GptPlan(s, d, t)
<1>1. IsOps(s) /\ s # <<>> /\ GptAround(s, t) /\ GptLeft(s, t) /\ Len(s) >= 2 * ArrBlocks + 2
  BY GptWork
<1>2. PICK n \in Nat : n = Len(s)
  BY <1>1, OpsSeq
<1>3. ~(n <= ArrBlocks + 1) /\ \A i \in 0..(ArrBlocks - 1) : ~(n <= 2 * ArrBlocks + 1 - i)
  BY ONLY <1>1, <1>2, ImageAssumption
<1> QED BY <1>1, <1>2, <1>3 DEF GptPlan, ArrayThere

-----------------------------------------------------------------------------
(* What holds while a table is on the screen and on its way to the disk.   *)

\* A write that is done: the disk shows the table v, of a GPT both copies are
\* good, of another table no GPT header is left outside its partitions.
Finished(d, v) ==
  /\ Seen(d) = v
  /\ v.kind = "gpt" => Sound(d)
  /\ v.kind # "gpt" => \A b \in {1, NBlocks - 1} : Signed(d[b]) => InsidePartition(v.parts, b)

\* No write goes into a partition; block 0 becomes the sector of an MBR.
Spares(s, v) ==
  \A i \in 1..Len(s) :
    /\ \A p \in v.parts : p.role # "extended" => ~(p.start <= s[i].at /\ s[i].at <= Last(p))
    /\ s[i].at = 0 /\ v.kind = "mbr" =>
         /\ s[i].block.tag = "mbr" /\ Tops(s[i].block.entries) = NonLogical(v.parts)
         /\ ~\E e \in s[i].block.entries : e.type = Protective

\* What is left of a safe write of an MBR without a chain: GPT headers to
\* clear, then block 0.
MbrPlan(s, d) ==
  \A i \in 1..(Len(s) - 1) : s[i].at # 0 /\ s[i].block = Zero /\ d[s[i].at].tag # "ebr"

\* What is left of a deletion.
NonePlan(s, d) ==
  /\ Len(s) <= 3
  /\ \A i \in 1..Len(s) : /\ s[i].block = Zero
                          /\ Len(s) - i = 2 => s[i].at = 0
                          /\ Len(s) - i = 1 => s[i].at = 1
  /\ Len(s) <= 2 => d[0] = Zero

Plan(s, d, t) ==
  /\ t.kind = "gpt" => GptPlan(s, d, t)
  /\ t.kind = "mbr" => MbrPlan(s, d)
  /\ t.kind = "none" => NonePlan(s, d)

\* A disk on which a safe write of v is cut short, or can begin.
Held(d, v) ==
  /\ v.kind = "gpt" => GptHeld(d, v.parts)
  /\ v.kind = "mbr" => MbrDisk(d) /\ Extended(v.parts) = {}
  /\ v.kind = "none" => Read(d).kind = "gpt" \/ ~Signed(d[1])

TableInv ==
  /\ table \in TableRecords /\ changed \in BOOLEAN
  /\ table.hybrid => Announced(disk) /\ (changed => table.kind = "gpt")
  /\ changed => TableFits(table)

IdleInv ==
  /\ disk \in [Blocks -> Contents]
  /\ goal \in TableViews /\ before \in TableViews /\ safe \in BOOLEAN
  /\ todo = <<>> /\ ~safe => goal = Seen(disk)
  /\ safe => Held(disk, goal)

WriteInv ==
  todo # <<>> =>
    /\ IsOps(todo) /\ changed /\ Writable(table) /\ goal = View(table)
    /\ Finished(AfterAll(disk, todo), goal) /\ Spares(todo, goal)
    /\ table.hybrid => \A i \in 1..Len(todo) : todo[i].at # 0
    /\ safe => Plan(todo, disk, table)
    /\ goal.kind = "mbr" /\ before.kind = "mbr" =>
         MbrDisk(disk) /\ \E v \in {before, goal} : Tops(disk[0].entries) = NonLogical(v.parts)

Inv == TableInv /\ IdleInv /\ WriteInv

-----------------------------------------------------------------------------
(* An MBR is written.                                                      *)

\* An MBR that is written is there, and no header of a GPT.
LEMMA MbrFinished ==
  ASSUME NBlocks > 2, NEW d \in [Blocks -> Contents], NEW t, t.kind = "mbr", MbrTable(t.parts),
         NEW D, D = AfterAll(d, MbrWrites(d, t))
  PROVE  Finished(D, View(t))
<1> DEFINE S == t.parts
<1>1. LaidOut(S) /\ ExtendedOnDisk(S) /\ S \in SUBSET Part
  BY DEF MbrTable, LaidOut
<1>2. Read(D).kind = "mbr" /\ Bare(Read(D).parts) = Bare(S)
  BY LinkedDisk, MbrReadBack
<1>3. Seen(D) = View(t)
  BY <1>2 DEF Seen, View, Bare
<1>4. View(t).kind = "mbr" /\ View(t).parts = Bare(S)
  BY DEF View, Bare
<1>5. PICK c, n : c = ChainWrites(S) /\ n = Len(c)
  OBVIOUS
<1>6. PICK m \in Nat : \E x : x = MbrWrites(d, t) /\ WipesThenTable(x, d, S, c, n, m)
  BY <1>1, <1>5, MbrOps
<1>7. PICK w : w = MbrWrites(d, t) /\ WipesThenTable(w, d, S, c, n, m)
  BY <1>6
<1>8. n \in Nat /\ \A i \in 1..n : c[i].block.tag = "ebr"
  BY <1>1, <1>5, MbrOps DEF Ascends
<1>9. PICK N \in Nat : N = m + 1 + n
  BY <1>8
<1>10. /\ DOMAIN w = 1..N
       /\ \A i \in 1..m : w[i].block = Zero
       /\ \A b \in {1, NBlocks - 1} :
            b < NBlocks /\ Signed(d[b]) /\ ~InsidePartition(S, b) => \E i \in 1..m : w[i].at = b
       /\ w[m + 1].at = 0
       /\ \A i \in 1..n : w[m + 1 + i] = c[i]
  BY <1>7, <1>9 DEF WipesThenTable, IsHeaderWipe
<1> HIDE DEF S
<1>11. ASSUME NEW b \in {1, NBlocks - 1}, Signed(D[b]) PROVE InsidePartition(S, b)
  <2>1. b \in Blocks /\ b < NBlocks /\ b # 0
    BY SomeBlocks
  <2>2. CASE D[b] = d[b] /\ \A i \in 1..N : w[i].at # b
    <3>1. ~\E i \in 1..m : w[i].at = b
      BY <1>8, <1>9, <2>2
    <3> QED BY <1>10, <1>11, <2>1, <2>2, <3>1
  <2>3. ASSUME NEW i \in 1..N, w[i].at = b, D[b] = w[i].block PROVE FALSE
    <3>1. CASE i <= m
      <4>1. w[i].block = Zero
        BY <1>10, <3>1
      <4> QED BY <1>11, <2>3, <4>1 DEF Signed, Zero
    <3>2. CASE i = m + 1
      BY <1>10, <2>1, <2>3, <3>2
    <3>3. CASE m + 1 < i
      <4>1. PICK j \in 1..n : i = m + 1 + j
        <5>1. i - (m + 1) \in 1..n /\ i = m + 1 + (i - (m + 1))
          BY <1>8, <1>9, <3>3
        <5> QED BY <5>1
      <4>2. w[i].block.tag = "ebr"
        BY <1>8, <1>10, <4>1
      <4> QED BY <1>11, <2>3, <4>2 DEF Signed
    <3> QED BY <3>1, <3>2, <3>3
  <2>4. D = AfterAll(d, w)
    BY <1>7
  <2>5. \/ D[b] = d[b] /\ \A i \in 1..N : w[i].at # b
        \/ \E i \in 1..N : w[i].at = b /\ D[b] = w[i].block
    BY <1>10, <2>1, <2>4, SomeWrite
  <2> QED BY <2>2, <2>3, <2>5
<1>12. \A b \in {1, NBlocks - 1} : Signed(D[b]) => InsidePartition(View(t).parts, b)
  BY <1>1, <1>4, <1>11, BareParts DEF S
<1> QED BY <1>3, <1>4, <1>12 DEF Finished

\* While headers are cleared, the old MBR is read.
LEMMA MbrPlanStep ==
  ASSUME "unnamed" \in Names, NEW d \in [Blocks -> Contents], NEW s, IsOps(s), s # <<>>, Len(s) # 1,
         MbrPlan(s, d), MbrDisk(d), NEW x, x = Stored(d, s[1].at, s[1].block)
  PROVE  MbrPlan(Tail(s), x) /\ MbrDisk(x) /\ Read(x) = Read(d)
<1>1. PICK n \in Nat \ {0} : n = Len(s)
  BY OpsSeq
<1>2. PICK c, y : c = s[1].at /\ y = s[1].block
  OBVIOUS
<1>3. /\ c \in Blocks /\ y \in Contents /\ x = Stored(d, c, y)
      /\ Len(Tail(s)) = n - 1
      /\ \A i \in 1..(n - 1) : Tail(s)[i] = s[i + 1] /\ i + 1 \in 1..n
  BY <1>1, <1>2, OpsTail
<1>4. 1 \in 1..(n - 1)
  BY <1>1
<1>5. c # 0 /\ y = Zero /\ d[c].tag # "ebr"
  BY <1>1, <1>2, <1>4 DEF MbrPlan
<1>6. x \in [Blocks -> Contents] /\ x[c] = y /\ \A b \in Blocks : b # c => x[b] = d[b]
  BY <1>3, StoredAt
<1>7. y.tag = "zero"
  BY <1>5 DEF Zero
<1>8. SameRecords(d, x)
  BY <1>5, <1>6, <1>7 DEF SameRecords
<1>9. x[0] = d[0]
  BY ONLY <1>5, <1>6, SomeBlocks, Zenon
<1>10. MbrDisk(x) /\ Read(x) = Read(d)
  BY <1>6, <1>8, <1>9, MbrUnchanged
<1>11. ASSUME NEW i \in 1..(n - 2)
       PROVE  Tail(s)[i].at # 0 /\ Tail(s)[i].block = Zero /\ x[Tail(s)[i].at].tag # "ebr"
  <2>1. PICK a \in 1..(n - 1) : a = i + 1
    BY <1>1
  <2>2. Tail(s)[i] = s[a] /\ a \in 1..n
    BY <1>1, <1>3, <2>1
  <2>3. s[a].at # 0 /\ s[a].block = Zero /\ d[s[a].at].tag # "ebr"
    BY <1>1 DEF MbrPlan
  <2>4. s[a].at \in Blocks
    BY <1>1, <2>2, OpsSeq
  <2>5. x[s[a].at].tag # "ebr"
    BY <1>6, <1>7, <2>3, <2>4
  <2> QED BY <2>2, <2>3, <2>5
<1>12. (n - 1) - 1 = n - 2
  BY <1>1
<1> QED BY <1>3, <1>10, <1>11, <1>12 DEF MbrPlan

-----------------------------------------------------------------------------
(* The writes that delete a table.                                         *)

LEMMA NoneWork ==
  ASSUME NBlocks > 2, NEW w, w = EraseWrites
  PROVE  IsOps(w) /\ w # <<>> /\ \A d : NonePlan(w, d)
<1>1. w[1].at = 0 /\ w[2].at = 1
  BY EraseOps
<1>2. IsOps(w) /\ w # <<>> /\ Len(w) = 3 /\ \A i \in 1..3 : w[i].block = Zero
  BY EraseWork
<1>3. PICK n \in Nat : n = 3
  OBVIOUS
<1>4. ASSUME NEW i \in 1..n
      PROVE  (n - i = 2 => w[i].at = 0) /\ (n - i = 1 => w[i].at = 1)
  BY <1>1, <1>3
<1>5. n <= 3 /\ ~(n <= 2)
  BY <1>3
<1> QED BY <1>2, <1>3, <1>4, <1>5 DEF NonePlan

LEMMA NoneFinished ==
  ASSUME NBlocks > 2, NEW d, NEW t, t.kind = "none", t.parts = {}, NEW D, D = AfterAll(d, EraseWrites)
  PROVE  Finished(D, View(t))
<1>1. D[1] = Zero /\ D[NBlocks - 1] = Zero /\ Read(D) = NoTable(FALSE)
  BY EraseReadBack
<1>2. View(t) = [kind |-> "none", parts |-> {}]
  BY DEF View
<1>3. Seen(D) = [kind |-> "none", parts |-> {}]
  BY <1>1 DEF Seen, View, NoTable
<1>4. \A b \in {1, NBlocks - 1} : ~Signed(D[b])
  BY <1>1 DEF Signed, Zero
<1> QED BY <1>2, <1>3, <1>4 DEF Finished

LEMMA NonePlanStep ==
  ASSUME NBlocks > 2, NEW d \in [Blocks -> Contents], NEW s, IsOps(s), s # <<>>, Len(s) # 1,
         NonePlan(s, d), Read(d).kind = "gpt" \/ ~Signed(d[1]),
         NEW x, x = Stored(d, s[1].at, s[1].block)
  PROVE  /\ NonePlan(Tail(s), x)
         /\ \/ Read(d).kind = "gpt" /\ Read(x).kind = "gpt" /\ Read(x).parts = Read(d).parts
            \/ ~Signed(x[1]) /\ Read(x) = NoTable(FALSE)
<1>1. PICK n \in Nat \ {0} : n = Len(s)
  BY OpsSeq
<1>2. PICK c, y : c = s[1].at /\ y = s[1].block
  OBVIOUS
<1>3. /\ c \in Blocks /\ y \in Contents /\ x = Stored(d, c, y)
      /\ Len(Tail(s)) = n - 1
      /\ \A i \in 1..(n - 1) : Tail(s)[i] = s[i + 1] /\ i + 1 \in 1..n
  BY <1>1, <1>2, OpsTail
<1>4. /\ n <= 3
      /\ \A i \in 1..n : /\ s[i].block = Zero
                         /\ n - i = 2 => s[i].at = 0
                         /\ n - i = 1 => s[i].at = 1
      /\ n <= 2 => d[0] = Zero
  BY <1>1 DEF NonePlan
<1>5. n = 2 \/ n = 3
  BY <1>1, <1>4
<1>6. /\ y = Zero
      /\ n - 1 = 2 => c = 0
      /\ n - 1 = 1 => c = 1
  <2>1. PICK a \in 1..n : a = 1
    OBVIOUS
  <2> QED BY <1>2, <1>4, <2>1
<1>7. x[c] = y /\ \A b \in Blocks : b # c => x[b] = d[b]
  BY <1>3, StoredAt
<1>8. 0 \in Blocks /\ 1 \in Blocks /\ 0 # 1
  BY SomeBlocks
<1>9. x[0] = Zero
  <2>1. CASE n = 3
    BY <1>6, <1>7, <2>1
  <2>2. CASE n = 2
    <3>1. c = 1 /\ d[0] = Zero
      BY <1>4, <1>6, <2>2
    <3>2. 0 # c
      BY <3>1
    <3> QED BY ONLY <1>7, <1>8, <3>1, <3>2, Zenon
  <2> QED BY <1>5, <2>1, <2>2
<1>10. ASSUME NEW i \in 1..(n - 1)
       PROVE  /\ Tail(s)[i].block = Zero
              /\ (n - 1) - i = 2 => Tail(s)[i].at = 0
              /\ (n - 1) - i = 1 => Tail(s)[i].at = 1
  <2>1. PICK a \in 1..n : a = i + 1 /\ Tail(s)[i] = s[a]
    BY <1>3
  <2>2. n - a = (n - 1) - i
    BY <2>1, <1>1
  <2> QED BY <1>4, <2>1, <2>2
<1>11. NonePlan(Tail(s), x)
  <2>1. n - 1 <= 3
    BY <1>5
  <2> QED BY <1>3, <1>9, <1>10, <2>1 DEF NonePlan
<1>12. CASE n = 3
  <2>1. c = 0
    BY <1>6, <1>12
  <2>2. x = Stored(d, 0, y)
    BY <1>3, <2>1
  <2>3. \/ Signed(d[1]) /\ x[1] = d[1] /\ Read(x).kind = "gpt" /\ Read(x).parts = Read(d).parts
        \/ ~Signed(x[1]) /\ Read(x) = NoTable(FALSE)
    BY <1>3, <1>6, <2>2, ZeroSectorStep
  <2> QED BY <1>11, <2>3
<1>13. CASE n = 2
  <2>1. x[1] = Zero
    BY <1>6, <1>7, <1>13
  <2>2. ~Signed(x[1]) /\ x[0].tag # "mbr"
    BY <1>9, <2>1 DEF Signed, Zero
  <2>3. Read(x) = NoTable(FALSE)
    BY <2>2 DEF Read
  <2> QED BY <1>11, <2>2, <2>3
<1> QED BY <1>5, <1>12, <1>13

-----------------------------------------------------------------------------
(* A write of any table.                                                   *)

LEMMA GptFinished ==
  ASSUME NEW d, NEW t, t.kind = "gpt", t.first \in Nat, FitsDisk(t), t.hybrid => Announced(d),
         NEW D, D = AfterAll(d, GptWrites(t))
  PROVE  Finished(D, View(t))
<1>1. /\ Read(D).kind = "gpt" /\ Read(D).parts = t.parts
      /\ Read(D).pok /\ Read(D).bok /\ Read(D).blba = NBlocks - 1
  BY GptReadBack DEF Announced
<1>2. Seen(D) = View(t) /\ View(t).kind = "gpt"
  BY <1>1 DEF Seen, View
<1>3. Sound(D)
  BY <1>1 DEF Sound
<1> QED BY <1>2, <1>3 DEF Finished

\* The partitions of a GPT are inside its usable area, its blocks outside.
LEMMA GptSpares ==
  ASSUME NEW t, t.kind = "gpt", t.first \in Nat, t.parts \in SUBSET Part, FitsDisk(t),
         NEW s, IsOps(s), GptAround(s, t)
  PROVE  Spares(s, View(t))
<1>1. View(t).kind = "gpt" /\ View(t).parts = Bare(t.parts)
  BY DEF View, Bare
<1>2. ASSUME NEW i \in 1..Len(s), NEW p \in Bare(t.parts)
      PROVE  ~(p.start <= s[i].at /\ s[i].at <= Last(p))
  <2>1. PICK q \in t.parts : p.start = q.start /\ Last(p) = Last(q)
    BY BareParts
  <2>2. q.start \in Nat /\ Last(q) \in Nat
    BY PartBounds
  <2>3. t.first <= q.start /\ Last(q) <= NewLast /\ 2 + ArrBlocks <= t.first
    BY DEF FitsDisk
  <2>4. s[i].at \in Nat
    BY OpsSeq, SomeBlocks
  <2>5. s[i].at < 2 + ArrBlocks \/ NewLast < s[i].at
    BY DEF GptAround
  <2>6. NewLast \in Int /\ ArrBlocks \in Nat
    BY ImageAssumption DEF NewLast
  <2> QED BY <2>1, <2>2, <2>3, <2>4, <2>5, <2>6
<1> QED BY <1>1, <1>2 DEF Spares

LEMMA MbrSpares ==
  ASSUME NEW t, t.kind = "mbr", MbrTable(t.parts), NEW s,
         \A i \in 1..Len(s) : MbrWrite(s[i], t.parts)
  PROVE  Spares(s, View(t))
<1>1. View(t).kind = "mbr" /\ View(t).parts = Bare(t.parts) /\ t.parts \in SUBSET Part
  BY DEF View, Bare, MbrTable, LaidOut
<1>2. ASSUME NEW i \in 1..Len(s), NEW p \in Bare(t.parts), p.role # "extended"
      PROVE  ~(p.start <= s[i].at /\ s[i].at <= Last(p))
  <2>1. PICK q \in t.parts : p.role = q.role /\ p.start = q.start /\ Last(p) = Last(q)
    BY <1>1, BareParts
  <2> QED BY <1>2, <2>1 DEF MbrWrite
<1>3. ASSUME NEW i \in 1..Len(s), s[i].at = 0
      PROVE  /\ s[i].block.tag = "mbr" /\ Tops(s[i].block.entries) = NonLogical(Bare(t.parts))
             /\ ~\E e \in s[i].block.entries : e.type = Protective
  <2>1. s[i].block = Sector({Entry(p) : p \in NonLogical(t.parts)})
    BY <1>3 DEF MbrWrite
  <2> QED BY <2>1, SectorTops
<1> QED BY <1>1, <1>2, <1>3 DEF Spares

\* What a write begins with.
Begun(s, d, t) ==
  /\ IsOps(s) /\ s # <<>>
  /\ Finished(AfterAll(d, s), View(t)) /\ Spares(s, View(t))
  /\ t.hybrid => \A i \in 1..Len(s) : s[i].at # 0
  /\ Held(d, View(t)) => Plan(s, d, t)

LEMMA WriteBegun ==
  ASSUME NBlocks > 2 * ArrBlocks + 3, NEW d \in [Blocks -> Contents],
         NEW t \in TableRecords, TableFits(t), Writable(t),
         t.hybrid => Announced(d) /\ t.kind = "gpt", NEW s, s = Writes(d, t)
  PROVE  Begun(s, d, t)
<1>1. /\ t.kind \in {"none", "mbr", "gpt"} /\ t.hybrid \in BOOLEAN
      /\ t.first \in Nat /\ t.parts \in SUBSET Part
  BY DEF TableRecords
<1>2. NBlocks > 2
  BY FarApart
<1>3. View(t).kind = t.kind /\ View(t).parts = Bare(t.parts)
  BY DEF View, Bare
<1>4. CASE t.kind = "gpt"
  <2>1. s = GptWrites(t) /\ FitsDisk(t)
    BY <1>4 DEF Writes, Writable
  <2>2. /\ IsOps(s) /\ s # <<>> /\ GptAround(s, t)
        /\ \A x : GptPlan(s, x, t)
    BY <1>1, <2>1, GptPlanStart
  <2>3. Finished(AfterAll(d, s), View(t))
    BY <1>1, <1>4, <2>1, GptFinished
  <2>4. Spares(s, View(t))
    BY <1>1, <1>4, <2>1, <2>2, GptSpares
  <2>5. t.hybrid => \A i \in 1..Len(s) : s[i].at # 0
    BY <2>2 DEF GptAround
  <2>6. Plan(s, d, t)
    BY <1>4, <2>2 DEF Plan
  <2> QED BY <2>2, <2>3, <2>4, <2>5, <2>6 DEF Begun
<1>5. CASE t.kind = "mbr"
  <2>1. s = MbrWrites(d, t) /\ ~t.hybrid
    BY <1>5 DEF Writes
  <2>2. MbrTable(t.parts) /\ Separate(t.parts)
    BY <1>5 DEF TableFits
  <2>3. /\ IsOps(s) /\ s # <<>>
        /\ \A i \in 1..Len(s) : MbrWrite(s[i], t.parts)
        /\ Extended(t.parts) = {} =>
             \A i \in 1..(Len(s) - 1) : s[i].at # 0 /\ s[i].block = Zero /\ Signed(d[s[i].at])
    <3>1. NBlocks > 1
      BY <1>2, SomeBlocks
    <3> QED BY <2>1, <2>2, <3>1, MbrWork
  <2>4. Finished(AfterAll(d, s), View(t))
    BY <1>2, <1>5, <2>1, <2>2, MbrFinished
  <2>5. Spares(s, View(t))
    BY <1>5, <2>2, <2>3, MbrSpares
  <2>6. ASSUME Held(d, View(t)) PROVE Plan(s, d, t)
    <3>1. Extended(t.parts) = {}
      <4>1. Extended(Bare(t.parts)) = {}
        BY <1>3, <1>5, <2>6 DEF Held
      <4> QED BY <1>1, <4>1, BareParts
    <3>2. MbrPlan(s, d)
      BY <2>3, <3>1 DEF MbrPlan, Signed
    <3> QED BY <1>5, <3>2 DEF Plan
  <2> QED BY <2>1, <2>3, <2>4, <2>5, <2>6 DEF Begun
<1>6. CASE t.kind = "none"
  <2>1. s = EraseWrites /\ ~t.hybrid /\ t.parts = {}
    BY <1>6 DEF Writes, TableFits
  <2>2. IsOps(s) /\ s # <<>> /\ \A x : NonePlan(s, x)
    BY <1>2, <2>1, NoneWork
  <2>3. Finished(AfterAll(d, s), View(t))
    BY <1>2, <1>6, <2>1, NoneFinished
  <2>4. Spares(s, View(t))
    <3>1. View(t).parts = {}
      BY <2>1 DEF View
    <3> QED BY <1>3, <1>6, <3>1 DEF Spares
  <2>5. Plan(s, d, t)
    BY <1>6, <2>2 DEF Plan
  <2> QED BY <2>1, <2>2, <2>3, <2>4, <2>5 DEF Begun
<1> QED BY <1>1, <1>4, <1>5, <1>6

\* A safe write can begin: the disk is one on which it may be cut short.
LEMMA SafeBegun ==
  ASSUME NBlocks > 2 * ArrBlocks + 3, "unnamed" \in Names, NEW d \in [Blocks -> Contents],
         NEW t \in TableRecords, SafeWrite(d, t)
  PROVE  Held(d, View(t))
<1>1. t.kind \in {"none", "mbr", "gpt"} /\ t.parts \in SUBSET Part
  BY DEF TableRecords
<1>2. View(t).kind = t.kind /\ View(t).parts = Bare(t.parts)
  BY DEF View, Bare
<1>3. CASE t.kind = "gpt"
  <2>1. Twofold(d)
    BY <1>3 DEF SafeWrite
  <2>2. ~MbrDisk(d) /\ OldKept(d)
    BY <2>1, FarApart, TwofoldHeld
  <2> QED BY <1>2, <1>3, <2>2 DEF Held, GptHeld
<1>4. CASE t.kind = "mbr"
  <2>1. Read(d).kind = "mbr" /\ Extended(t.parts) = {}
    BY <1>4 DEF SafeWrite
  <2>2. MbrDisk(d)
    BY <2>1, SeenTyped
  <2>3. Extended(Bare(t.parts)) = {}
    BY <1>1, <2>1, BareParts
  <2> QED BY <1>2, <1>4, <2>2, <2>3 DEF Held
<1>5. CASE t.kind = "none"
  <2>1. Read(d).kind # "gpt" => ~Signed(d[1])
    BY <1>5 DEF SafeWrite
  <2> QED BY <1>2, <1>5, <2>1 DEF Held
<1> QED BY <1>1, <1>3, <1>4, <1>5

\* A block of a safe write: the old table is seen, or the new one.
LEMMA SafeStep ==
  ASSUME NBlocks > 2 * ArrBlocks + 3, "unnamed" \in Names, NEW d \in [Blocks -> Contents],
         NEW t \in TableRecords, TableFits(t), Writable(t), NEW s, IsOps(s), s # <<>>, Len(s) # 1,
         Held(d, View(t)), Plan(s, d, t), NEW x, x = Stored(d, s[1].at, s[1].block)
  PROVE  /\ Held(x, View(t)) /\ Plan(Tail(s), x, t)
         /\ Seen(x) = Seen(d) \/ Seen(x) = View(t)
<1>1. t.kind \in {"none", "mbr", "gpt"} /\ t.first \in Nat /\ t.parts \in SUBSET Part
  BY DEF TableRecords
<1>2. NBlocks > 2
  BY FarApart
<1>3. View(t).kind = t.kind /\ View(t).parts = Bare(t.parts)
  BY DEF View, Bare
<1>4. CASE t.kind = "gpt"
  <2>1. Bare(t.parts) = t.parts
    <3>1. ASSUME NEW p \in t.parts PROVE [p EXCEPT !.ebr = 0] = p
      <4>1. p.ebr = 0 /\ p \in Part
        BY <1>1, <1>4 DEF TableFits
      <4> QED BY <4>1 DEF Part
    <3> QED BY <3>1 DEF Bare
  <2>2. GptHeld(d, t.parts) /\ GptPlan(s, d, t)
    BY <1>3, <1>4, <2>1 DEF Held, Plan
  <2>3. t.first <= NewLast
    BY <1>4 DEF Writable, FitsDisk
  <2>4. /\ GptPlan(Tail(s), x, t) /\ GptHeld(x, t.parts)
        /\ x[1] = d[1] \/ x[1].parts = t.parts
    BY <1>1, <2>2, <2>3, GptPlanStep
  <2>5. Read(d).kind = "gpt" /\ Read(d).parts = d[1].parts
    BY <1>2, <2>2, HeldSeen DEF GptHeld
  <2>6. Read(x).kind = "gpt" /\ Read(x).parts = x[1].parts
    BY <1>2, <2>4, HeldSeen DEF GptHeld
  <2>7. Seen(x) = Seen(d) \/ Seen(x) = View(t)
    BY <1>4, <2>4, <2>5, <2>6 DEF Seen, View
  <2>8. Held(x, View(t)) /\ Plan(Tail(s), x, t)
    BY <1>3, <1>4, <2>1, <2>4 DEF Held, Plan
  <2> QED BY <2>7, <2>8
<1>5. CASE t.kind = "mbr"
  <2>1. MbrDisk(d) /\ Extended(View(t).parts) = {} /\ MbrPlan(s, d)
    BY <1>3, <1>5 DEF Held, Plan
  <2>2. MbrPlan(Tail(s), x) /\ MbrDisk(x) /\ Read(x) = Read(d)
    BY <2>1, MbrPlanStep
  <2>3. Seen(x) = Seen(d)
    BY <2>2 DEF Seen
  <2> QED BY <1>3, <1>5, <2>1, <2>2, <2>3 DEF Held, Plan
<1>6. CASE t.kind = "none"
  <2>1. (Read(d).kind = "gpt" \/ ~Signed(d[1])) /\ NonePlan(s, d)
    BY <1>3, <1>6 DEF Held, Plan
  <2>2. /\ NonePlan(Tail(s), x)
        /\ \/ Read(d).kind = "gpt" /\ Read(x).kind = "gpt" /\ Read(x).parts = Read(d).parts
           \/ ~Signed(x[1]) /\ Read(x) = NoTable(FALSE)
    BY <1>2, <2>1, NonePlanStep
  <2>3. Held(x, View(t)) /\ Plan(Tail(s), x, t)
    BY <1>3, <1>6, <2>2 DEF Held, Plan
  <2>4. Seen(x) = Seen(d) \/ Seen(x) = View(t)
    <3>1. CASE Read(x).kind = Read(d).kind /\ Read(x).parts = Read(d).parts
      BY <3>1 DEF Seen, View
    <3>2. CASE Read(x) = NoTable(FALSE)
      <4>1. t.parts = {}
        BY <1>6 DEF TableFits
      <4>2. Seen(x) = [kind |-> "none", parts |-> {}]
        BY ONLY <3>2 DEF Seen, View, NoTable
      <4> QED BY <1>6, <4>1, <4>2 DEF View
    <3> QED BY <2>2, <3>1, <3>2
  <2> QED BY <2>3, <2>4
<1> QED BY <1>1, <1>4, <1>5, <1>6

-----------------------------------------------------------------------------
(* The invariant.                                                          *)

\* The disks and tables a write is about: room for the two copies of a GPT,
\* disks of blocks, and tables the user can make.
Given ==
  /\ NBlocks > 2 * ArrBlocks + 3 /\ "unnamed" \in Names
  /\ \A d \in Disks : d \in [Blocks -> Contents]
  /\ \A t \in Tables : TableFits(t)

LEMMA InitInv == Given /\ Init => Inv
<1> SUFFICES ASSUME Given, Init PROVE Inv
  OBVIOUS
<1>1. /\ disk \in [Blocks -> Contents] /\ table = Read(disk) /\ changed = FALSE /\ todo = <<>>
      /\ safe = FALSE /\ before = Seen(disk) /\ goal = Seen(disk) /\ "unnamed" \in Names
  BY DEF Init, Given
<1>2. /\ Read(disk) \in TableRecords /\ Seen(disk) \in TableViews
      /\ Read(disk).hybrid => Announced(disk)
  BY <1>1, ReadTyped, SeenTyped
<1>3. TableInv
  BY <1>1, <1>2 DEF TableInv
<1>4. IdleInv /\ WriteInv
  BY <1>1, <1>2 DEF IdleInv, WriteInv
<1> QED BY <1>3, <1>4 DEF Inv

LEMMA ChangeInv ==
  ASSUME Given, Inv, NEW t \in Tables, Change(t)
  PROVE  Inv'
<1>1. PICK h \in BOOLEAN :
        /\ h => table.hybrid /\ t.kind = "gpt"
        /\ table' = [table EXCEPT !.kind = t.kind, !.parts = t.parts, !.first = t.first,
                                  !.last = t.last, !.hybrid = h]
  BY DEF Change, Inv, TableInv, TableRecords
<1>2. TableFits(t)
  BY DEF Given
<1>3. table \in TableRecords
  BY DEF Inv, TableInv
<1>4. /\ table' \in TableRecords
      /\ table'.kind = t.kind /\ table'.parts = t.parts /\ table'.first = t.first
      /\ table'.last = t.last /\ table'.hybrid = h
  BY <1>1, <1>2, <1>3 DEF TableRecords, TableFits
<1>5. TableFits(table')
  BY <1>2, <1>4 DEF TableFits
<1>6. changed' = TRUE /\ todo = <<>> /\ UNCHANGED <<disk, todo, safe, before, goal>>
  BY DEF Change, Idle
<1>7. TableInv'
  BY <1>1, <1>4, <1>5, <1>6 DEF Inv, TableInv
<1>8. IdleInv' /\ WriteInv'
  BY <1>6 DEF Inv, IdleInv, WriteInv
<1> QED BY <1>7, <1>8 DEF Inv

LEMMA BeginInv == ASSUME Given, Inv, Begin PROVE Inv'
<1>1. /\ todo = <<>> /\ changed /\ Writable(table) /\ todo' = Writes(disk, table)
      /\ safe' = (SafeWrite(disk, table) \/ (safe /\ goal = View(table)))
      /\ before' = Seen(disk) /\ goal' = View(table)
      /\ UNCHANGED <<disk, table, changed>>
  BY DEF Begin, Idle
<1>2. /\ disk \in [Blocks -> Contents] /\ table \in TableRecords /\ TableFits(table)
      /\ table.hybrid => Announced(disk) /\ table.kind = "gpt"
      /\ safe \in BOOLEAN /\ (safe => Held(disk, goal))
  BY <1>1 DEF Inv, TableInv, IdleInv
<1>3. NBlocks > 2 * ArrBlocks + 3 /\ "unnamed" \in Names
  BY DEF Given
<1>4. PICK s : s = Writes(disk, table)
  OBVIOUS
<1>5. Begun(s, disk, table)
  BY <1>1, <1>2, <1>3, <1>4, WriteBegun
<1>6. safe' => Held(disk, View(table))
  BY <1>1, <1>2, <1>3, SafeBegun
<1>7. View(table) \in TableViews /\ Seen(disk) \in TableViews
  BY <1>2, <1>3, ViewTyped, SeenTyped
<1>8. safe' \in BOOLEAN
  BY <1>1 DEF SafeWrite, Twofold, Sound
<1>9. TableInv'
  BY <1>1 DEF Inv, TableInv
<1>10. todo' # <<>>
  BY <1>1, <1>4, <1>5 DEF Begun
<1>11. IdleInv'
  BY <1>1, <1>2, <1>6, <1>7, <1>8, <1>10 DEF IdleInv
<1>12. View(table).kind = "mbr" /\ Seen(disk).kind = "mbr" =>
         MbrDisk(disk) /\ Tops(disk[0].entries) = NonLogical(Seen(disk).parts)
  <2>1. Seen(disk).kind = "mbr" => MbrDisk(disk)
    BY <1>2, <1>3, SeenTyped DEF Seen, View
  <2> QED BY <1>2, <1>3, <2>1, TopsSeen
<1>13. WriteInv'
  BY <1>1, <1>4, <1>5, <1>6, <1>12 DEF WriteInv, Begun
<1> QED BY <1>9, <1>11, <1>13 DEF Inv

\* What is left to write after a block, the last one apart.
LEMMA StepLeft ==
  ASSUME Given, Inv, todo # <<>>, Len(todo) # 1,
         NEW x, x = Stored(disk, todo[1].at, todo[1].block)
  PROVE  /\ IsOps(Tail(todo)) /\ AfterAll(x, Tail(todo)) = AfterAll(disk, todo)
         /\ Spares(Tail(todo), goal)
         /\ table.hybrid => \A i \in 1..Len(Tail(todo)) : Tail(todo)[i].at # 0
         /\ safe => Held(x, goal) /\ Plan(Tail(todo), x, table)
<1>1. /\ IsOps(todo) /\ changed /\ Writable(table) /\ goal = View(table)
      /\ Spares(todo, goal)
      /\ table.hybrid => \A i \in 1..Len(todo) : todo[i].at # 0
      /\ safe => Plan(todo, disk, table)
  BY DEF Inv, WriteInv
<1>2. /\ disk \in [Blocks -> Contents] /\ table \in TableRecords /\ TableFits(table)
      /\ safe => Held(disk, goal)
  BY <1>1 DEF Inv, TableInv, IdleInv
<1>3. NBlocks > 2 * ArrBlocks + 3 /\ "unnamed" \in Names
  BY DEF Given
<1>4. PICK s : s = todo
  OBVIOUS
<1>5. /\ IsOps(Tail(s))
      /\ \A i \in 1..Len(Tail(s)) : Tail(s)[i] = s[i + 1] /\ i + 1 \in 1..Len(s)
  BY <1>1, <1>4, OpsTail
<1>6. AfterAll(x, Tail(s)) = AfterAll(disk, s)
  BY <1>1, <1>2, <1>4, AfterStep
<1>7. Spares(Tail(s), goal)
  <2>1. ASSUME NEW i \in 1..Len(Tail(s)) PROVE \E a \in 1..Len(s) : Tail(s)[i] = s[a]
    BY <1>5
  <2> QED BY <1>1, <1>4, <2>1 DEF Spares
<1>8. table.hybrid => \A i \in 1..Len(Tail(s)) : Tail(s)[i].at # 0
  BY <1>1, <1>4, <1>5
<1>9. ASSUME safe PROVE Held(x, goal) /\ Plan(Tail(s), x, table)
  BY <1>1, <1>2, <1>3, <1>4, <1>9, SafeStep
<1> QED BY <1>4, <1>5, <1>6, <1>7, <1>8, <1>9

\* Block 0 is written at once, with the primary partitions of the new table.
LEMMA StepSector ==
  ASSUME Given, Inv, todo # <<>>, NEW x, x = Stored(disk, todo[1].at, todo[1].block)
  PROVE  /\ table.hybrid => Announced(x)
         /\ goal.kind = "mbr" /\ before.kind = "mbr" =>
              MbrDisk(x) /\ \E v \in {before, goal} : Tops(x[0].entries) = NonLogical(v.parts)
<1>1. /\ IsOps(todo) /\ Spares(todo, goal)
      /\ table.hybrid => \A i \in 1..Len(todo) : todo[i].at # 0
      /\ goal.kind = "mbr" /\ before.kind = "mbr" =>
           MbrDisk(disk) /\ \E v \in {before, goal} : Tops(disk[0].entries) = NonLogical(v.parts)
  BY DEF Inv, WriteInv
<1>2. disk \in [Blocks -> Contents] /\ (table.hybrid => Announced(disk))
  BY DEF Inv, TableInv, IdleInv
<1>3. PICK s, c, y : s = todo /\ c = s[1].at /\ y = s[1].block
  OBVIOUS
<1>4. c \in Blocks /\ y \in Contents /\ 1 \in 1..Len(s)
  BY <1>1, <1>3, OpsTail, OpsSeq
<1>5. x[c] = y /\ \A b \in Blocks : b # c => x[b] = disk[b]
  BY <1>2, <1>3, <1>4, StoredAt
<1>6. 0 \in Blocks
  BY SomeBlocks
<1>7. CASE c # 0
  <2>1. x[0] = disk[0]
    BY <1>5, <1>6, <1>7
  <2> QED BY <1>1, <1>2, <2>1 DEF Announced, MbrDisk
<1>8. CASE c = 0
  <2>1. ~table.hybrid
    BY <1>1, <1>3, <1>4, <1>8
  <2>2. goal.kind = "mbr" =>
          /\ y.tag = "mbr" /\ Tops(y.entries) = NonLogical(goal.parts)
          /\ ~\E e \in y.entries : e.type = Protective
    BY <1>1, <1>3, <1>4, <1>8 DEF Spares
  <2>3. x[0] = y
    BY <1>5, <1>8
  <2> QED BY <2>1, <2>2, <2>3 DEF MbrDisk
<1> QED BY <1>7, <1>8

\* The next block on the disk, and the last one.
LEMMA StepDisk ==
  ASSUME Inv, Step
  PROVE  /\ todo # <<>> /\ disk' = Stored(disk, todo[1].at, todo[1].block)
         /\ disk' \in [Blocks -> Contents]
         /\ Len(todo) = 1 => /\ todo' = <<>> /\ disk' = AfterAll(disk, todo)
                             /\ Finished(disk', goal)
<1>1. /\ todo # <<>> /\ disk' = [disk EXCEPT ![Head(todo).at] = Head(todo).block]
      /\ todo' = Tail(todo)
  BY DEF Step, Idle
<1>2. IsOps(todo) /\ Finished(AfterAll(disk, todo), goal) /\ disk \in [Blocks -> Contents]
  BY <1>1 DEF Inv, WriteInv, IdleInv
<1>3. /\ Head(todo) = todo[1] /\ todo[1].at \in Blocks /\ todo[1].block \in Contents
      /\ IsOps(Tail(todo)) /\ Len(Tail(todo)) = Len(todo) - 1
  BY <1>1, <1>2, OpsTail
<1>4. disk' = Stored(disk, todo[1].at, todo[1].block)
  BY <1>1, <1>3 DEF Stored
<1>5. disk' \in [Blocks -> Contents]
  BY <1>2, <1>3, <1>4, StoredAt
<1>6. ASSUME Len(todo) = 1
      PROVE  todo' = <<>> /\ disk' = AfterAll(disk, todo)
  <2>1. Len(Tail(todo)) = 0
    BY <1>3, <1>6
  <2>2. Tail(todo) = <<>>
    BY <1>3, <2>1, OpsSeq
  <2>3. disk' = AfterAll(disk, todo)
    BY <1>1, <1>2, <1>4, <1>6, AfterStep
  <2> QED BY <1>1, <2>2, <2>3
<1> QED BY <1>1, <1>2, <1>4, <1>5, <1>6

LEMMA StepInv == ASSUME Given, Inv, Step PROVE Inv'
<1>1. /\ todo # <<>> /\ disk' = Stored(disk, todo[1].at, todo[1].block)
      /\ disk' \in [Blocks -> Contents]
  BY StepDisk
<1>2. "unnamed" \in Names
  BY DEF Given
<1>3. CASE Len(todo) = 1
  <2>1. todo' = <<>>
    BY <1>3, StepDisk
  <2>2. table' = Read(disk') /\ changed' = FALSE /\ safe' = FALSE /\ before' = Seen(disk')
        /\ goal' = Seen(disk')
    BY <1>3 DEF Step, Reload, Ended
  <2>3. PICK x : x = disk'
    OBVIOUS
  <2>4. /\ Read(x) \in TableRecords /\ Seen(x) \in TableViews /\ x \in [Blocks -> Contents]
        /\ Read(x).hybrid => Announced(x)
    BY <1>1, <1>2, <2>3, ReadTyped, SeenTyped
  <2>5. TableInv'
    BY <2>2, <2>3, <2>4 DEF TableInv
  <2>6. IdleInv' /\ WriteInv'
    BY <2>1, <2>2, <2>3, <2>4 DEF IdleInv, WriteInv
  <2> QED BY <2>5, <2>6 DEF Inv
<1>4. CASE Len(todo) # 1
  <2>1. todo' = Tail(todo) /\ UNCHANGED <<table, changed, said, safe, before, goal>>
    BY <1>4 DEF Step
  <2>2. PICK x : x = disk'
    OBVIOUS
  <2>3. /\ IsOps(Tail(todo)) /\ AfterAll(x, Tail(todo)) = AfterAll(disk, todo)
        /\ Spares(Tail(todo), goal)
        /\ table.hybrid => \A i \in 1..Len(Tail(todo)) : Tail(todo)[i].at # 0
        /\ safe => Held(x, goal) /\ Plan(Tail(todo), x, table)
    BY <1>1, <1>4, <2>2, StepLeft
  <2>4. /\ table.hybrid => Announced(x)
        /\ goal.kind = "mbr" /\ before.kind = "mbr" =>
             MbrDisk(x) /\ \E v \in {before, goal} : Tops(x[0].entries) = NonLogical(v.parts)
    BY <1>1, <2>2, StepSector
  <2>5. TableInv'
    BY <2>1, <2>2, <2>4 DEF Inv, TableInv
  <2>6. PICK s, n : s = todo /\ n = Len(s)
    OBVIOUS
  <2>7. IsOps(s) /\ n \in Nat /\ n # 0 /\ n # 1
    BY <1>1, <1>4, <2>6, OpsSeq DEF Inv, WriteInv
  <2>8. Tail(s) # <<>>
    <3>1. Len(Tail(s)) = n - 1 /\ IsOps(Tail(s))
      BY <1>1, <2>6, <2>7, OpsTail
    <3>2. n - 1 # 0
      BY <2>7
    <3> QED BY <3>1, <3>2, OpsSeq
  <2>9. todo' # <<>>
    BY <2>1, <2>6, <2>8
  <2>10. IdleInv'
    BY <1>1, <2>1, <2>2, <2>3, <2>9 DEF Inv, IdleInv
  <2>11. WriteInv'
    BY <1>1, <2>1, <2>2, <2>3, <2>4 DEF Inv, WriteInv
  <2> QED BY <2>5, <2>10, <2>11 DEF Inv
<1> QED BY <1>3, <1>4

LEMMA FailInv == ASSUME Given, Inv, Fail PROVE Inv'
<1>1. /\ todo' = <<>> /\ safe' = safe /\ before' = Seen(disk)
      /\ goal' = IF safe THEN goal ELSE Seen(disk)
      /\ UNCHANGED <<disk, table, changed>>
  BY DEF Fail, Ended
<1>2. Seen(disk) \in TableViews
  BY SeenTyped DEF Given, Inv, IdleInv
<1>3. TableInv'
  BY <1>1 DEF Inv, TableInv
<1>4. IdleInv' /\ WriteInv'
  BY <1>1, <1>2 DEF Inv, IdleInv, WriteInv
<1> QED BY <1>3, <1>4 DEF Inv

LEMMA RestartInv == ASSUME Given, Inv, Restart PROVE Inv'
<1>1. /\ todo' = <<>> /\ safe' = safe /\ before' = Seen(disk)
      /\ goal' = IF safe THEN goal ELSE Seen(disk)
      /\ table' = Read(disk) /\ changed' = FALSE /\ disk' = disk
  BY DEF Restart, Reload, Ended
<1>2. /\ Seen(disk) \in TableViews /\ Read(disk) \in TableRecords
      /\ Read(disk).hybrid => Announced(disk)
  BY SeenTyped, ReadTyped DEF Given, Inv, IdleInv
<1>3. TableInv'
  BY <1>1, <1>2 DEF TableInv
<1>4. IdleInv' /\ WriteInv'
  BY <1>1, <1>2 DEF Inv, IdleInv, WriteInv
<1> QED BY <1>3, <1>4 DEF Inv

LEMMA NextInv == Given /\ Inv /\ [Next]_vars => Inv'
<1> SUFFICES ASSUME Given, Inv, [Next]_vars PROVE Inv'
  OBVIOUS
<1>1. CASE UNCHANGED vars
  BY <1>1 DEF vars, Inv, TableInv, IdleInv, WriteInv
<1>2. CASE Next
  BY <1>2, ChangeInv, BeginInv, StepInv, FailInv, RestartInv DEF Next
<1> QED BY <1>1, <1>2

LEMMA InvAlways == ASSUME Given PROVE Spec => []Inv
<1>1. Init => Inv
  BY InitInv
<1>2. Inv /\ [Next]_vars => Inv'
  BY NextInv
<1> QED BY <1>1, <1>2, PTL DEF Spec

-----------------------------------------------------------------------------
(* Theorems.                                                               *)

\* Whatever the table and wherever the write is cut: while an MBR is written
\* over an MBR, its primary and extended partitions are all old or all new.
THEOREM PrimariesAlways == ASSUME Given PROVE Spec => []PrimariesAtOnce
<1>1. ASSUME Inv PROVE PrimariesAtOnce
  <2>1. SUFFICES ASSUME todo # <<>>, goal.kind = "mbr", before.kind = "mbr"
                 PROVE  \E v \in {before, goal} : /\ Seen(disk).kind = "mbr"
                                                 /\ NonLogical(Seen(disk).parts) = NonLogical(v.parts)
    BY DEF PrimariesAtOnce
  <2>2. MbrDisk(disk) /\ \E v \in {before, goal} : Tops(disk[0].entries) = NonLogical(v.parts)
    BY <1>1, <2>1 DEF Inv, WriteInv
  <2>3. disk \in [Blocks -> Contents] /\ "unnamed" \in Names
    BY <1>1 DEF Inv, IdleInv, Given
  <2>4. Seen(disk).kind = "mbr" /\ NonLogical(Seen(disk).parts) = Tops(disk[0].entries)
    BY <2>2, <2>3, TopsSeen
  <2> QED BY <2>2, <2>4
<1>2. Inv => PrimariesAtOnce
  BY <1>1
<1> QED BY <1>2, InvAlways, PTL

\* A completed write of a GPT leaves two good copies, whatever was damaged or
\* moved before (write_gpt, ptwrite.c).
THEOREM RepairedAlways == ASSUME Given PROVE Spec => Repaired
<1>1. Inv /\ [Next]_vars => [Done /\ goal.kind = "gpt" => Sound(disk')]_vars
  <2>1. ASSUME Inv, Done, goal.kind = "gpt" PROVE Sound(disk')
    <3>1. Finished(disk', goal)
      BY <2>1, StepDisk DEF Done
    <3> QED BY <2>1, <3>1 DEF Finished
  <2> QED BY <2>1
<1> QED BY <1>1, InvAlways, PTL DEF Spec, Repaired

\* A completed write of anything else leaves no header of a GPT, except inside
\* a partition (wipe_gpt_header, ptwrite.c).
THEOREM NoOldGptAlways == ASSUME Given PROVE Spec => NoOldGpt
<1>1. Inv /\ [Next]_vars =>
        [Done /\ goal.kind # "gpt" => \A b \in {1, NBlocks - 1} :
           Signed(disk'[b]) => InsidePartition(goal.parts, b)]_vars
  <2>1. ASSUME Inv, Done, goal.kind # "gpt", NEW b \in {1, NBlocks - 1}, Signed(disk'[b])
        PROVE  InsidePartition(goal.parts, b)
    <3>1. Finished(disk', goal)
      BY <2>1, StepDisk DEF Done
    <3> QED BY <2>1, <3>1 DEF Finished
  <2> QED BY <2>1
<1> QED BY <1>1, InvAlways, PTL DEF Spec, NoOldGpt

LEMMA GoalOnDisk ==
  ASSUME Given, Inv, todo # <<>>, NEW p \in goal.parts
  PROVE  p.start..Last(p) \subseteq Blocks
<1>1. changed /\ Writable(table) /\ goal = View(table) /\ TableFits(table)
  BY DEF Inv, TableInv, WriteInv
<1>2. table.kind \in {"none", "mbr", "gpt"} /\ table.parts \in SUBSET Part
  BY <1>1 DEF TableFits
<1>3. goal.parts = Bare(table.parts)
  BY <1>1 DEF View, Bare
<1>4. PICK q \in table.parts : p.start = q.start /\ Last(p) = Last(q)
  BY <1>2, <1>3, BareParts
<1>5. q.start \in Nat /\ Last(q) \in Nat
  BY <1>2, PartBounds
<1>6. Last(q) < NBlocks
  <2>1. CASE table.kind = "gpt"
    <3>1. Last(q) <= NewLast
      BY <1>1, <2>1 DEF Writable, FitsDisk
    <3> QED BY <1>5, <3>1, ImageAssumption DEF NewLast
  <2>2. CASE table.kind = "mbr"
    BY <1>1, <2>2 DEF TableFits, Separate
  <2>3. CASE table.kind = "none"
    BY <1>1, <2>3 DEF TableFits
  <2> QED BY <1>2, <2>1, <2>2, <2>3
<1> QED BY <1>4, <1>5, <1>6, ImageAssumption DEF Blocks

\* No write, whole or cut short, changes a block inside a partition of the
\* table it writes (inside_partition, ptwrite.c).
THEOREM DataAlwaysKept == ASSUME Given PROVE Spec => DataKept
<1> DEFINE Kept1 == \A p \in goal.parts : p.role # "extended" =>
                      \A b \in p.start..Last(p) : disk'[b] = disk[b]
<1>1. ASSUME Inv, [Next]_vars, todo # <<>> PROVE Kept1
  <2>1. CASE UNCHANGED disk
    BY <2>1
  <2>2. CASE Step
    <3>1. SUFFICES ASSUME NEW p \in goal.parts, p.role # "extended", NEW b \in p.start..Last(p)
                   PROVE  disk'[b] = disk[b]
      OBVIOUS
    <3>2. PICK s, c : s = todo /\ c = s[1].at
      OBVIOUS
    <3>3. /\ IsOps(s) /\ Spares(s, goal) /\ disk \in [Blocks -> Contents]
      BY <1>1, <3>2 DEF Inv, WriteInv, IdleInv
    <3>4. 1 \in 1..Len(s) /\ c \in Blocks /\ s[1].block \in Contents
      BY <1>1, <3>2, <3>3, OpsTail, OpsSeq
    <3>5. ~(p.start <= c /\ c <= Last(p))
      BY <3>1, <3>2, <3>3, <3>4 DEF Spares
    <3>6. b \in Blocks /\ b # c
      BY <1>1, <3>1, <3>5, GoalOnDisk
    <3>7. disk' = Stored(disk, c, s[1].block)
      BY <1>1, <2>2, <3>2, StepDisk
    <3> QED BY <3>3, <3>4, <3>6, <3>7, StoredAt
  <2>3. UNCHANGED disk \/ Step
    BY <1>1 DEF Next, vars, Change, Begin, Fail, Restart
  <2> QED BY <2>1, <2>2, <2>3
<1>2. Inv /\ [Next]_vars => [todo # <<>> => Kept1]_vars
  BY <1>1
<1> QED BY <1>2, InvAlways, PTL DEF Spec, DataKept

\* Every step is one the promise allows, or changes nothing it speaks of.
LEMMA InitPromise == ASSUME Given, Init PROVE Store!StoreInit
<1>1. disk \in [Blocks -> Contents] /\ "unnamed" \in Names
  BY DEF Init, Given
<1>2. Seen(disk) \in TableViews
  BY <1>1, SeenTyped
<1>3. goal = Seen(disk) /\ todo = <<>> /\ safe = FALSE /\ said = "nothing"
  BY DEF Init
<1> QED BY <1>2, <1>3 DEF Store!StoreInit, TableViews

LEMMA ViewsSeen ==
  ASSUME Given, Inv
  PROVE  Seen(disk) \in TableViews /\ goal \in TableViews /\ safe \in BOOLEAN
BY SeenTyped DEF Given, Inv, IdleInv

LEMMA StepPromise == ASSUME Given, Inv, Inv', Step PROVE [Store!StoreNext]_(Store!storeVars)
<1>1. todo # <<>> /\ disk' = Stored(disk, todo[1].at, todo[1].block) /\ disk' \in [Blocks -> Contents]
  BY StepDisk
<1>2. Seen(disk') \in TableViews
  BY <1>1, SeenTyped DEF Given
<1>3. CASE Len(todo) = 1
  <2>1. todo' = <<>> /\ Finished(disk', goal)
    BY <1>3, StepDisk
  <2>2. said' = "written" /\ safe' = FALSE /\ goal' = Seen(disk')
    BY <1>3 DEF Step, Ended
  <2>3. Seen(disk') = goal
    BY <2>1 DEF Finished
  <2>4. Store!Finish
    BY <1>1, <1>2, <2>1, <2>2, <2>3 DEF Store!Finish, Store!Stop, TableViews
  <2> QED BY <2>4 DEF Store!StoreNext
<1>4. CASE Len(todo) # 1
  <2>1. UNCHANGED <<table, changed, said, safe, before, goal>> /\ todo' = Tail(todo)
    BY <1>4 DEF Step
  <2>2. PICK s, n : s = todo /\ n = Len(s)
    OBVIOUS
  <2>3. IsOps(s) /\ n \in Nat /\ n # 0 /\ n # 1
    BY <1>1, <1>4, <2>2, OpsSeq DEF Inv, WriteInv
  <2>4. Tail(s) # <<>>
    <3>1. Len(Tail(s)) = n - 1 /\ IsOps(Tail(s))
      BY <1>1, <2>2, <2>3, OpsTail
    <3>2. n - 1 # 0
      BY <2>3
    <3> QED BY <3>1, <3>2, OpsSeq
  <2>5. (todo' # <<>>) = (todo # <<>>)
    BY <1>1, <2>1, <2>2, <2>4
  <2>6. PICK x : x = disk' /\ x = Stored(disk, s[1].at, s[1].block)
    BY <1>1, <2>2
  <2>7. ASSUME safe PROVE Seen(x) = Seen(disk) \/ Seen(x) = goal
    <3>1. /\ disk \in [Blocks -> Contents] /\ table \in TableRecords /\ TableFits(table)
          /\ Writable(table) /\ goal = View(table) /\ Held(disk, goal) /\ Plan(s, disk, table)
      BY <1>1, <2>2, <2>7 DEF Inv, TableInv, IdleInv, WriteInv
    <3>2. NBlocks > 2 * ArrBlocks + 3 /\ "unnamed" \in Names
      BY DEF Given
    <3>3. PICK d, t : d = disk /\ t = table
      OBVIOUS
    <3>4. IsOps(s) /\ s # <<>> /\ Len(s) # 1 /\ Held(d, View(t)) /\ Plan(s, d, t)
          /\ x = Stored(d, s[1].at, s[1].block)
      BY <1>1, <1>4, <2>2, <2>3, <2>6, <3>1, <3>3
    <3>5. Seen(x) = Seen(d) \/ Seen(x) = View(t)
      BY ONLY <3>1, <3>2, <3>3, <3>4, SafeStep
    <3> QED BY <3>1, <3>3, <3>5
  <2>8. CASE safe /\ Seen(disk') = Seen(disk)
    BY <2>1, <2>5, <2>8 DEF Store!storeVars
  <2>9. CASE ~safe \/ Seen(disk') = goal
    <3>1. Store!Change
      BY <1>1, <1>2, <2>1, <2>5, <2>9 DEF Store!Change, TableViews
    <3> QED BY <3>1 DEF Store!StoreNext
  <2> QED BY <2>6, <2>7, <2>8, <2>9
<1> QED BY <1>3, <1>4

LEMMA NextPromise ==
  ASSUME Given, Inv, Inv', [Next]_vars
  PROVE  [Store!StoreNext]_(Store!storeVars)
<1>1. Seen(disk) \in TableViews /\ goal \in TableViews /\ safe \in BOOLEAN
  BY ViewsSeen
<1>2. goal' \in TableViews /\ safe' \in BOOLEAN
  BY DEF Inv, IdleInv
<1>3. CASE UNCHANGED vars
  BY <1>3 DEF vars, Store!storeVars
<1>4. ASSUME NEW t \in Tables, Change(t) PROVE Store!Forget
  BY <1>4 DEF Change, Idle, Store!Forget
<1>5. CASE Begin
  <2>1. todo' # <<>>
    <3>1. table \in TableRecords /\ TableFits(table) /\ disk \in [Blocks -> Contents]
          /\ Writable(table) /\ (table.hybrid => Announced(disk) /\ table.kind = "gpt")
      BY <1>5 DEF Begin, Inv, TableInv, IdleInv
    <3>2. PICK s : s = Writes(disk, table)
      OBVIOUS
    <3>3. Begun(s, disk, table)
      BY <3>1, <3>2, WriteBegun DEF Given
    <3> QED BY <1>5, <3>2, <3>3 DEF Begin, Begun
  <2>2. todo = <<>> /\ said' = "nothing" /\ UNCHANGED disk
    BY <1>5 DEF Begin, Idle
  <2>3. Store!Start
    BY <1>2, <2>1, <2>2 DEF Store!Start, TableViews
  <2> QED BY <2>3 DEF Store!StoreNext
<1>6. CASE Step
  BY <1>6, StepPromise
<1>7. CASE Fail
  <2>1. Store!GiveUp
    BY <1>2, <1>7 DEF Fail, Idle, Store!GiveUp, Store!Stop, TableViews
  <2> QED BY <2>1 DEF Store!StoreNext
<1>8. CASE Restart
  <2>1. todo' = <<>> /\ said' = "nothing" /\ safe' = safe /\ UNCHANGED disk
        /\ goal' = IF safe THEN goal ELSE Seen(disk)
    BY <1>8 DEF Restart, Ended
  <2>2. CASE todo # <<>>
    <3>1. Store!GiveUp
      BY <1>2, <2>1, <2>2 DEF Store!GiveUp, Store!Stop, TableViews
    <3> QED BY <3>1 DEF Store!StoreNext
  <2>3. CASE todo = <<>>
    <3>1. goal' = goal
      BY <2>1, <2>3 DEF Inv, IdleInv
    <3>2. Store!Forget
      BY <2>1, <2>3, <3>1 DEF Store!Forget
    <3> QED BY <3>2 DEF Store!StoreNext
  <2> QED BY <2>2, <2>3
<1>9. CASE Next
  BY <1>4, <1>5, <1>6, <1>7, <1>8, <1>9 DEF Next, Store!StoreNext
<1> QED BY <1>3, <1>9

\* Writing keeps the promise of TableStore: "Written." means that the table of
\* the screen is on the disk, and a safe write, wherever it is cut and however
\* often it is repeated, leaves the old table or the new one.
THEOREM OldOrNewHolds == ASSUME Given PROVE Spec => OldOrNew
<1>1. Init => Store!StoreInit
  BY InitPromise
<1>2. Inv /\ Inv' /\ [Next]_vars => [Store!StoreNext]_(Store!storeVars)
  BY NextPromise
<1> QED BY <1>1, <1>2, InvAlways, PTL DEF Spec, OldOrNew, Store!StoreSpec

-----------------------------------------------------------------------------
(* Logical partitions lie apart, whichever tables their records are from.  *)

\* Every block is in order, so are the partitions of the chain.
LEMMA ChainApart ==
  ASSUME NEW d \in [Blocks -> Contents], NEW E \in Nat, \A b \in Blocks : InOrder(b, d[b], E),
         NEW e, e.start = E, NEW p \in Bare(Chain(d, e)), NEW q \in Bare(Chain(d, e)), p # q
  PROVE  ~Overlaps(p.start, Last(p), q.start, Last(q))
<1>0. NBlocks \in Nat
  BY ImageAssumption
<1>1. Linked(d) /\ e.start \in Nat
  BY LinkedDisk
<1>2. ChainBlocks(d, e) \subseteq {c \in Blocks : d[c].tag = "ebr"}
  BY <1>1, ChainRecords
<1> DEFINE C == ChainBlocks(d, e)
           R == {b \in C : d[b].part # {}}
           Described(b, r) == RecordPart(e, b, r, 5 + Cardinality({c \in R : c < b}))
           From(x, b) == \E r \in d[b].part :
                           /\ x.start = b + r.off /\ Last(x) = b + r.off + r.size - 1
                           /\ x = [Described(b, r) EXCEPT !.ebr = 0]
<1>3. ASSUME NEW x \in Bare(Chain(d, e)) PROVE \E b \in C : From(x, b)
  <2>1. PICK y \in Chain(d, e) : x = [y EXCEPT !.ebr = 0]
    BY DEF Bare
  <2>2. PICK b \in R : \E r \in d[b].part : y = Described(b, r)
    BY DEF Chain, Numbered
  <2>3. PICK r \in d[b].part : y = Described(b, r)
    BY <2>2
  <2>4. x.start = b + r.off /\ x.size = r.size
    BY <2>1, <2>3 DEF RecordPart, AsPart
  <2> QED BY <2>1, <2>2, <2>3, <2>4 DEF Last
<1> HIDE DEF From, R, C, Described
<1>4. PICK b \in C : From(p, b)
  BY <1>3
<1>5. PICK c \in C : From(q, c)
  BY <1>3
<1>6. PICK r \in d[b].part : /\ p.start = b + r.off /\ Last(p) = b + r.off + r.size - 1
                             /\ p = [Described(b, r) EXCEPT !.ebr = 0]
  BY <1>4 DEF From
<1>7. PICK s \in d[c].part : /\ q.start = c + s.off /\ Last(q) = c + s.off + s.size - 1
                             /\ q = [Described(c, s) EXCEPT !.ebr = 0]
  BY <1>5 DEF From
<1>8. ASSUME NEW a \in C, NEW z \in d[a].part
      PROVE  /\ a \in Nat /\ z.off \in Nat /\ z.size \in Nat /\ z.size # 0 /\ 0 < z.off
             /\ \A x \in d[a].part : x = z
             /\ \A g \in C : a < g => a + z.off + z.size - 1 < g
  <2>1. a \in Blocks /\ d[a].tag = "ebr" /\ a \in Nat /\ a < NBlocks
    BY <1>2, SomeBlocks DEF C
  <2>2. d[a] \in BootRecords
    BY <2>1, Tags
  <2>3. z \in RecordEntries /\ d[a].next \in Nat
    BY <2>2 DEF BootRecords
  <2>4. z.off \in Nat /\ z.size \in Nat /\ z.size # 0
    BY <2>3 DEF RecordEntries
  <2>5. /\ \A x, y \in d[a].part : x = y
        /\ 0 < z.off /\ (d[a].next # 0 => a + z.off + z.size - 1 < E + d[a].next)
    BY <2>1 DEF InOrder
  <2>6. ASSUME NEW g \in C, a < g PROVE a + z.off + z.size - 1 < g
    <3>1. Follow(d, e, a) <= g
      BY <1>1, <2>6, ChainForward DEF C
    <3>2. g \in Nat /\ g < NBlocks
      BY <1>2, SomeBlocks DEF C
    <3>3. d[a].next # 0 /\ Follow(d, e, a) = E + d[a].next
      BY <1>0, <3>1, <3>2 DEF Follow
    <3> QED BY <2>1, <2>3, <2>4, <2>5, <3>1, <3>2, <3>3
  <2> QED BY <2>1, <2>4, <2>5, <2>6
<1>9. b # c
  <2>1. b = c => r = s
    BY <1>6, <1>8, <1>7
  <2> QED BY <1>6, <1>7, <2>1
<1>10. /\ b \in Nat /\ c \in Nat /\ r.off \in Nat /\ r.size \in Nat /\ s.off \in Nat /\ s.size \in Nat
       /\ 0 < r.off /\ 0 < s.off
       /\ b < c => b + r.off + r.size - 1 < c
       /\ c < b => c + s.off + s.size - 1 < b
  BY <1>6, <1>8, <1>7
<1> QED BY <1>6, <1>9, <1>10, <1>7 DEF Overlaps

LEMMA OrderApart ==
  ASSUME "unnamed" \in Names, NEW d \in [Blocks -> Contents], NEW E \in Nat,
         \A b \in Blocks : InOrder(b, d[b], E)
  PROVE  \A p, q \in Logicals(Seen(d).parts) : p # q => ~Overlaps(p.start, Last(p), q.start, Last(q))
<1>1. SUFFICES ASSUME NEW p \in Logicals(Seen(d).parts), NEW q \in Logicals(Seen(d).parts), p # q
               PROVE  ~Overlaps(p.start, Last(p), q.start, Last(q))
  OBVIOUS
<1>2. CASE MbrDisk(d)
  <2> DEFINE T == Tops(d[0].entries)
  <2>1. T \in SUBSET Part /\ \A x \in T : x.role # "logical" /\ [x EXCEPT !.ebr = 0] = x
    BY <1>2, ChainedTyped, TopsTyped
  <2>2. Seen(d).parts = {[x EXCEPT !.ebr = 0] : x \in T \cup Chained(d)}
    BY <1>2, MbrReading DEF Seen, View
  <2>3. \A e \in FirstExtended(T) : e.start = E /\ \A f \in FirstExtended(T) : e = f
    <3>1. ASSUME NEW e \in FirstExtended(T)
          PROVE  \E x \in d[0].entries :
                   x.type \in ExtTypes /\ e.start = x.start /\ e = AsPart(x, RoleOf(x), 0)
      <4>1. e \in T /\ e.role = "extended"
        BY DEF FirstExtended, Extended
      <4>2. PICK x \in d[0].entries : e = AsPart(x, RoleOf(x), 0)
        BY <4>1 DEF Tops
      <4>3. e.start = x.start /\ RoleOf(x) = "extended"
        BY <4>1, <4>2 DEF AsPart
      <4> QED BY <4>2, <4>3 DEF RoleOf
    <3>2. 0 \in Blocks /\ d[0].tag = "mbr"
      BY <1>2, SomeBlocks DEF MbrDisk
    <3>3. \A x, y \in d[0].entries :
            x.type \in ExtTypes /\ y.type \in ExtTypes => x = y /\ x.start = E
      BY <3>2 DEF InOrder
    <3> QED BY <3>1, <3>3
  <2>4. ASSUME NEW x \in Logicals(Seen(d).parts)
        PROVE  \E e \in FirstExtended(T) : x \in Bare(Chain(d, e))
    <3>1. PICK y \in T \cup Chained(d) : x = [y EXCEPT !.ebr = 0] /\ x.role = "logical"
      BY <2>2 DEF Logicals
    <3>2. y \in Chained(d)
      BY <2>1, <3>1
    <3> QED BY <3>1, <3>2 DEF Chained, Bare
  <2> HIDE DEF T
  <2>5. PICK e \in FirstExtended(T) : p \in Bare(Chain(d, e))
    BY <2>4
  <2>6. q \in Bare(Chain(d, e)) /\ e.start = E
    BY <2>3, <2>4
  <2> QED BY <1>1, <2>5, <2>6, ChainApart
<1>3. CASE ~MbrDisk(d)
  <2>1. ASSUME NEW b \in Nat, GoodCopy(d, b) PROVE Logicals(Bare(d[b].parts)) = {}
    <3>1. b \in Blocks /\ d[b].tag = "gpt" /\ d[b].parts \in SUBSET Part
      BY <2>1, SomeBlocks, HeaderTyped DEF GoodCopy
    <3>2. Logicals(d[b].parts) = {}
      BY <3>1 DEF InOrder
    <3>3. \A x \in Bare(d[b].parts) : \E y \in d[b].parts : x.role = y.role
      BY <3>1, BareParts
    <3> QED BY <3>2, <3>3 DEF Logicals
  <2>2. NBlocks - 1 \in Nat /\ 1 \in Nat /\ (GoodCopy(d, 1) => d[1].alt \in Nat)
    BY SomeBlocks, HeaderTyped
  <2>3. PICK alt \in Nat : alt = IF GoodCopy(d, 1) THEN d[1].alt ELSE NBlocks - 1
    BY <2>2
  <2>4. ASSUME NEW h PROVE Logicals(Bare(ReadGpt(d, h).parts)) = {}
    <3>1. \/ ReadGpt(d, h) = NoTable(h)
          \/ \E b \in Nat : GoodCopy(d, b) /\ ReadGpt(d, h).parts = d[b].parts
      <4>1. CASE GoodCopy(d, 1)
        <5>1. ReadGpt(d, h).parts = d[1].parts
          BY <4>1 DEF ReadGpt
        <5> QED BY <4>1, <5>1
      <4>2. CASE ~GoodCopy(d, 1) /\ GoodCopy(d, alt)
        <5>1. ReadGpt(d, h).parts = d[alt].parts
          BY <2>3, <4>2 DEF ReadGpt
        <5> QED BY <4>2, <5>1
      <4>3. CASE ~GoodCopy(d, 1) /\ ~GoodCopy(d, alt)
        BY <2>3, <4>3 DEF ReadGpt
      <4> QED BY <4>1, <4>2, <4>3
    <3>2. CASE ReadGpt(d, h) = NoTable(h)
      BY <3>2 DEF NoTable, Bare, Logicals
    <3> QED BY <2>1, <3>1, <3>2
  <2>5. Read(d) = NoTable(FALSE) \/ \E h : Read(d) = ReadGpt(d, h)
    BY <1>3 DEF Read, MbrDisk
  <2>6. Logicals(Bare(Read(d).parts)) = {}
    <3>1. CASE Read(d) = NoTable(FALSE)
      BY <3>1 DEF NoTable, Bare, Logicals
    <3> QED BY <2>4, <2>5, <3>1
  <2>7. Seen(d).parts = Bare(Read(d).parts)
    BY DEF Seen, View, Bare
  <2> QED BY <1>1, <2>6, <2>7
<1> QED BY <1>2, <1>3

\* The extended partition of a table is at E.
ExtendedAt(t, E) == t.kind = "mbr" => \A e \in Extended(t.parts) : e.start = E

LEMMA BegunInOrder ==
  ASSUME NBlocks > 2 * ArrBlocks + 3, NEW d \in [Blocks -> Contents], NEW t \in TableRecords,
         TableFits(t), Writable(t), NEW E \in Nat, ExtendedAt(t, E), NEW s, s = Writes(d, t)
  PROVE  \A i \in 1..Len(s) : InOrder(s[i].at, s[i].block, E)
<1>1. /\ t.kind \in {"none", "mbr", "gpt"} /\ t.hybrid \in BOOLEAN
      /\ t.first \in Nat /\ t.parts \in SUBSET Part
  BY DEF TableRecords
<1>2. NBlocks > 2 /\ NBlocks > 1
  BY FarApart, SomeBlocks
<1>3. CASE t.kind = "gpt"
  <2>1. s = GptWrites(t)
    BY <1>3 DEF Writes
  <2>2. \A i \in 1..Len(s) : GptBlock(s[i].block, t)
    BY <1>1, <2>1, GptPlanStart DEF GptAround
  <2>3. Logicals(t.parts) = {}
    BY <1>3 DEF TableFits, Logicals
  <2>4. \A e \in ProtectiveSector.entries : e.type \notin ExtTypes
    BY DEF ProtectiveSector, Sector, ExtTypes, Protective
  <2> QED BY <2>2, <2>3, <2>4 DEF GptBlock, InOrder
<1>4. CASE t.kind = "mbr"
  <2>1. s = MbrWrites(d, t) /\ MbrTable(t.parts) /\ Separate(t.parts)
    BY <1>4 DEF Writes, TableFits
  <2>2. \A i \in 1..Len(s) : MbrWrite(s[i], t.parts)
    BY <1>2, <2>1, MbrWork
  <2> QED BY <1>4, <2>2 DEF MbrWrite, PutInOrder, ExtendedAt
<1>5. CASE t.kind = "none"
  <2>1. s = EraseWrites
    BY <1>5 DEF Writes
  <2>2. \A i \in 1..Len(s) : s[i].block = Zero
    BY <1>2, <2>1, NoneWork DEF NonePlan
  <2> QED BY <2>2 DEF InOrder, Zero
<1> QED BY <1>1, <1>3, <1>4, <1>5

\* The extended partition is in one place, E, for every disk and every table.
GivenAt(E) ==
  /\ E \in Nat
  /\ \A d \in Disks : \A b \in Blocks : InOrder(b, d[b], E)
  /\ \A t \in Tables : ExtendedAt(t, E)

OrderInv(E) ==
  /\ \A b \in Blocks : InOrder(b, disk[b], E)
  /\ \A i \in 1..Len(todo) : InOrder(todo[i].at, todo[i].block, E)
  /\ changed => ExtendedAt(table, E)

LEMMA NextOrder ==
  ASSUME Given, NEW E, GivenAt(E), Inv, OrderInv(E), [Next]_vars
  PROVE  OrderInv(E)'
<1>1. CASE UNCHANGED vars
  BY <1>1 DEF vars, OrderInv
<1>2. ASSUME NEW t \in Tables, Change(t) PROVE OrderInv(E)'
  <2>1. table \in TableRecords
    BY DEF Inv, TableInv
  <2>2. table'.kind = t.kind /\ table'.parts = t.parts /\ UNCHANGED <<disk, todo>>
    BY <1>2, <2>1 DEF Change, TableRecords
  <2>3. ExtendedAt(t, E)
    BY DEF GivenAt
  <2> QED BY <2>2, <2>3 DEF OrderInv, ExtendedAt
<1>3. CASE Begin
  <2>1. todo' = Writes(disk, table) /\ changed /\ Writable(table) /\ UNCHANGED <<disk, table, changed>>
    BY <1>3 DEF Begin
  <2>2. disk \in [Blocks -> Contents] /\ table \in TableRecords /\ TableFits(table)
        /\ ExtendedAt(table, E)
    BY <2>1 DEF Inv, TableInv, IdleInv, OrderInv
  <2>3. PICK s : s = Writes(disk, table)
    OBVIOUS
  <2>4. \A i \in 1..Len(s) : InOrder(s[i].at, s[i].block, E)
    BY <2>1, <2>2, <2>3, BegunInOrder DEF Given, GivenAt
  <2> QED BY <2>1, <2>3, <2>4 DEF OrderInv
<1>4. CASE Step
  <2>1. PICK s, c, y : s = todo /\ c = s[1].at /\ y = s[1].block
    OBVIOUS
  <2>2. s # <<>> /\ disk' = Stored(disk, c, y)
    BY <1>4, <2>1, StepDisk
  <2>3. IsOps(s) /\ disk \in [Blocks -> Contents]
    BY <2>1, <2>2 DEF Inv, WriteInv, IdleInv
  <2>4. /\ c \in Blocks /\ y \in Contents /\ 1 \in 1..Len(s)
        /\ \A i \in 1..Len(Tail(s)) : Tail(s)[i] = s[i + 1] /\ i + 1 \in 1..Len(s)
    BY <2>1, <2>2, <2>3, OpsTail, OpsSeq
  <2>5. \A i \in 1..Len(s) : InOrder(s[i].at, s[i].block, E)
    BY <2>1 DEF OrderInv
  <2>6. InOrder(c, y, E)
    BY <2>1, <2>4, <2>5
  <2>7. PICK x : x = disk'
    OBVIOUS
  <2>8. x[c] = y /\ \A b \in Blocks : b # c => x[b] = disk[b]
    BY <2>2, <2>3, <2>4, <2>7, StoredAt
  <2>9. \A b \in Blocks : InOrder(b, x[b], E)
    BY <2>6, <2>8 DEF OrderInv
  <2>10. \A i \in 1..Len(Tail(s)) : InOrder(Tail(s)[i].at, Tail(s)[i].block, E)
    BY <2>4, <2>5
  <2>11. todo' = Tail(s) /\ (changed' => changed /\ table' = table)
    BY <1>4, <2>1 DEF Step, Reload
  <2> QED BY <2>7, <2>9, <2>10, <2>11 DEF OrderInv
<1>5. CASE Fail \/ Restart
  <2>1. todo' = <<>> /\ disk' = disk /\ (changed' => changed /\ table' = table)
    <3>1. CASE Fail
      BY <3>1 DEF Fail
    <3>2. CASE Restart
      BY <3>2 DEF Restart, Reload
    <3> QED BY <1>5, <3>1, <3>2
  <2>2. \A i \in 1..Len(<<>>) : FALSE
    OBVIOUS
  <2> QED BY <2>1, <2>2 DEF OrderInv
<1> QED BY <1>1, <1>2, <1>3, <1>4, <1>5 DEF Next

\* Records of a new chain and what is left of older ones never give a block to
\* two logical partitions, wherever a write is cut, as long as the extended
\* partition stays in one place (write_mbr, ptwrite.c; mbr_logicals, ptable.c).
THEOREM LogicalsAlwaysApart ==
  ASSUME Given, NEW E, GivenAt(E)
  PROVE  Spec => []LogicalsApart
<1>1. Init => OrderInv(E)
  <2>1. ASSUME Init PROVE OrderInv(E)
    <3>1. disk \in Disks /\ todo = <<>> /\ changed = FALSE
      BY <2>1 DEF Init
    <3>2. \A i \in 1..Len(<<>>) : FALSE
      OBVIOUS
    <3> QED BY <3>1, <3>2 DEF OrderInv, GivenAt
  <2> QED BY <2>1
<1>2. Inv /\ OrderInv(E) /\ [Next]_vars => OrderInv(E)'
  BY NextOrder
<1>3. Inv /\ OrderInv(E) => LogicalsApart
  <2>1. ASSUME Inv, OrderInv(E) PROVE LogicalsApart
    <3>1. disk \in [Blocks -> Contents] /\ "unnamed" \in Names /\ E \in Nat
          /\ \A b \in Blocks : InOrder(b, disk[b], E)
      BY <2>1 DEF Inv, IdleInv, OrderInv, Given, GivenAt
    <3> QED BY <3>1, OrderApart DEF LogicalsApart
  <2> QED BY <2>1
<1> QED BY <1>1, <1>2, <1>3, InvAlways, PTL DEF Spec
=============================================================================

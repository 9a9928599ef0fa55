---------------------------- MODULE WindowProofs ----------------------------
(***************************************************************************)
(* Proofs about the window, its dialogs and the field of an input, for     *)
(* every size of screen, list, menu and field, and whatever disks, tables, *)
(* questions and characters come.                                          *)
(***************************************************************************)
EXTENDS Window, Induction, FiniteSetTheorems, SequenceTheorems

-----------------------------------------------------------------------------
(* The characters of a field.                                              *)

Bytes == Seq(0..255)

\* What stands at i is a whole character, and another one or the end follows.
CharAt(buf, i) ==
  /\ ~Continues(buf[i])
  /\ i + Announced(buf[i]) - 1 <= Len(buf)
  /\ \A j \in (i + 1)..(i + Announced(buf[i]) - 1) : Continues(buf[j])
  /\ i + Announced(buf[i]) <= Len(buf) => ~Continues(buf[i + Announced(buf[i])])

\* Whole characters, said of each byte by itself.
Whole(buf) ==
  /\ Len(buf) > 0 => ~Continues(buf[1])
  /\ \A i \in 1..Len(buf) : ~Continues(buf[i]) => CharAt(buf, i)

\* Before the byte after i there is no character that has not ended.
Edge(buf, i) == i = Len(buf) \/ ~Continues(buf[i + 1])

LEMMA TakenRange ==
  ASSUME NEW buf \in Bytes, NEW i \in 1..Len(buf)
  PROVE  /\ Announced(buf[i]) \in 1..4
         /\ Taken(buf, i) \in 1..4 /\ i + Taken(buf, i) \in (i + 1)..(Len(buf) + 1)
<1>1. Len(buf) \in Nat /\ buf[i] \in 0..255
  BY ElementOfSeq DEF Bytes
<1>2. Announced(buf[i]) \in 1..4
  BY <1>1 DEF Announced
<1>3. Taken(buf, i) = 1 \/ (Taken(buf, i) = Announced(buf[i]) /\ i + Announced(buf[i]) - 1 <= Len(buf))
  BY DEF Taken
<1> QED BY <1>1, <1>2, <1>3

\* The places of the characters from i on.
StartsFrom(f, buf, n) ==
  /\ n \in 1..(Len(buf) + 1)
  /\ f \in [n..(Len(buf) + 1) -> Seq(1..Len(buf))]
  /\ \A i \in n..(Len(buf) + 1) :
       f[i] = IF i > Len(buf) THEN <<>> ELSE <<i>> \o f[i + Taken(buf, i)]

LEMMA StartsDown ==
  ASSUME NEW buf \in Bytes, NEW n \in 1..Len(buf), NEW f, StartsFrom(f, buf, n + 1)
  PROVE  \E g : StartsFrom(g, buf, n)
<1> DEFINE L == Len(buf)
           v == <<n>> \o f[n + Taken(buf, n)]
           g == [i \in n..(L + 1) |-> IF i = n THEN v ELSE f[i]]
<1>0. L \in Nat /\ n + 1 \in 1..(L + 1)
  BY ElementOfSeq DEF Bytes
<1>1. n + Taken(buf, n) \in (n + 1)..(L + 1)
  BY TakenRange
<1>2. f \in [(n + 1)..(L + 1) -> Seq(1..L)]
  BY DEF StartsFrom
<1>3. f[n + Taken(buf, n)] \in Seq(1..L)
  BY <1>1, <1>2
<1>4. <<n>> \in Seq(1..L)
  OBVIOUS
<1>5. v \in Seq(1..L)
  BY <1>3, <1>4
<1> HIDE DEF v
<1>6. g \in [n..(L + 1) -> Seq(1..L)]
  BY <1>0, <1>2, <1>5
<1>7. ASSUME NEW i \in n..(L + 1)
      PROVE  g[i] = IF i > L THEN <<>> ELSE <<i>> \o g[i + Taken(buf, i)]
  <2>1. CASE i = n
    <3>1. g[i] = v /\ ~(i > L) /\ g[i + Taken(buf, i)] = f[n + Taken(buf, n)]
      BY <2>1, <1>1, <1>0
    <3> QED BY <2>1, <3>1 DEF v
  <2>2. CASE i # n
    <3>1. i \in (n + 1)..(L + 1) /\ g[i] = f[i]
      BY <2>2, <1>0
    <3>2. f[i] = IF i > L THEN <<>> ELSE <<i>> \o f[i + Taken(buf, i)]
      BY <3>1 DEF StartsFrom
    <3>3. CASE i > L
      BY <3>1, <3>2, <3>3
    <3>4. CASE ~(i > L)
      <4>1. i + Taken(buf, i) \in (i + 1)..(L + 1)
        <5>1. i \in 1..L
          BY <3>1, <3>4, <1>0
        <5> QED BY <5>1, TakenRange
      <4>2. g[i + Taken(buf, i)] = f[i + Taken(buf, i)]
        BY <4>1, <3>1, <1>0
      <4> QED BY <3>1, <3>2, <3>4, <4>2
    <3> QED BY <3>3, <3>4
  <2> QED BY <2>1, <2>2
<1> HIDE DEF g
<1>8. StartsFrom(g, buf, n)
  BY <1>0, <1>6, <1>7 DEF StartsFrom
<1> QED BY <1>8

LEMMA StartsWalk ==
  ASSUME NEW buf \in Bytes
  PROVE  \E f : StartsFrom(f, buf, 1) /\ Starts(buf) = f[1]
<1> DEFINE L == Len(buf)
           Body(f) == [i \in 1..(L + 1) |-> IF i > L THEN <<>> ELSE <<i>> \o f[i + Taken(buf, i)]]
           S == {k \in Nat : k <= L => \E f : StartsFrom(f, buf, L + 1 - k)}
<1>0. L \in Nat
  BY ElementOfSeq DEF Bytes
<1>1. 0 \in S
  <2> DEFINE z == [i \in (L + 1)..(L + 1) |-> <<>>]
  <2>1. z \in [(L + 1)..(L + 1) -> Seq(1..L)]
    OBVIOUS
  <2>2. \A i \in (L + 1)..(L + 1) : i > L /\ z[i] = <<>>
    BY <1>0
  <2>3. L + 1 - 0 = L + 1 /\ L + 1 \in 1..(L + 1)
    BY <1>0
  <2> HIDE DEF z
  <2>4. StartsFrom(z, buf, L + 1 - 0)
    BY <2>1, <2>2, <2>3 DEF StartsFrom
  <2> QED BY <2>4
<1>2. ASSUME NEW k \in Nat, k \in S PROVE k + 1 \in S
  <2> SUFFICES ASSUME k + 1 <= L PROVE \E f : StartsFrom(f, buf, L + 1 - (k + 1))
    OBVIOUS
  <2>1. PICK n \in 1..L : n = L + 1 - (k + 1)
    BY <1>0
  <2>2. L + 1 - k = n + 1 /\ k <= L
    BY <2>1, <1>0
  <2>3. PICK f : StartsFrom(f, buf, n + 1)
    BY <1>2, <2>2
  <2>4. \E g : StartsFrom(g, buf, n)
    BY <2>3, StartsDown
  <2> QED BY <2>1, <2>4
<1> HIDE DEF S
<1>3. L \in S
  BY <1>0, <1>1, <1>2, NatSet
<1>4. PICK f : StartsFrom(f, buf, 1)
  <2>1. L + 1 - L = 1
    BY <1>0
  <2> QED BY <1>0, <1>3, <2>1 DEF S
<1>5. f = Body(f)
  <2>1. f \in [1..(L + 1) -> Seq(1..L)]
    BY <1>4 DEF StartsFrom
  <2>2. \A i \in 1..(L + 1) : f[i] = IF i > L THEN <<>> ELSE <<i>> \o f[i + Taken(buf, i)]
    BY <1>4 DEF StartsFrom
  <2> QED BY <2>1, <2>2
<1> DEFINE h == CHOOSE g : g = Body(g)
<1>6. h = Body(h)
  <2> HIDE DEF Body
  <2> QED BY <1>5
<1>7. StartsFrom(h, buf, 1)
  <2>1. \A i \in 1..(L + 1) : h[i] = IF i > L THEN <<>> ELSE <<i>> \o h[i + Taken(buf, i)]
    <3> HIDE DEF h
    <3> QED BY <1>6
  <2> DEFINE T == {k \in Nat : \A i \in 1..(L + 1) : i + k >= L + 1 => h[i] \in Seq(1..L)}
  <2> HIDE DEF h
  <2>2. 0 \in T
    <3>1. \A i \in 1..(L + 1) : i + 0 >= L + 1 => i > L
      BY <1>0
    <3>2. <<>> \in Seq(1..L)
      OBVIOUS
    <3> QED BY <2>1, <3>1, <3>2
  <2>3. ASSUME NEW k \in Nat, k \in T PROVE k + 1 \in T
    <3> SUFFICES ASSUME NEW i \in 1..(L + 1), i + (k + 1) >= L + 1 PROVE h[i] \in Seq(1..L)
      OBVIOUS
    <3>1. CASE i > L
      <4>1. h[i] = <<>>
        BY <2>1, <3>1
      <4> QED BY <4>1
    <3>2. CASE ~(i > L)
      <4>1. i \in 1..L
        BY <3>2, <1>0
      <4>2. PICK m \in (i + 1)..(L + 1) : m = i + Taken(buf, i)
        BY <4>1, TakenRange
      <4>3. m \in 1..(L + 1) /\ m + k >= L + 1
        BY <4>1, <4>2, <1>0
      <4>4. h[m] \in Seq(1..L)
        BY <2>3, <4>3
      <4>5. h[i] = <<i>> \o h[m]
        BY <2>1, <3>2, <4>2
      <4>6. <<i>> \in Seq(1..L)
        BY <4>1
      <4> QED BY <4>4, <4>5, <4>6
    <3> QED BY <3>1, <3>2
  <2> HIDE DEF T
  <2>4. L \in T
    BY <1>0, <2>2, <2>3, NatSet
  <2>5. \A i \in 1..(L + 1) : h[i] \in Seq(1..L)
    BY <2>4, <1>0 DEF T
  <2>6. h \in [1..(L + 1) -> Seq(1..L)]
    BY <1>6, <2>5
  <2> QED BY <1>0, <2>1, <2>6 DEF StartsFrom
<1>8. Starts(buf) = h[1]
  BY DEF Starts
<1> QED BY <1>7, <1>8

\* All that starts at the places of s is whole.
SoundAt(buf, i) == ~Continues(buf[i]) /\ Taken(buf, i) = Announced(buf[i])
Sound(buf, s)   == \A j \in 1..Len(s) : SoundAt(buf, s[j])

\* One step along the characters.
LEMMA SoundStep ==
  ASSUME NEW buf \in Bytes, NEW f, StartsFrom(f, buf, 1), NEW i \in 1..Len(buf)
  PROVE  /\ i + Taken(buf, i) \in (i + 1)..(Len(buf) + 1)
         /\ f[i] = <<i>> \o f[i + Taken(buf, i)]
         /\ Sound(buf, f[i]) <=> SoundAt(buf, i) /\ Sound(buf, f[i + Taken(buf, i)])
<1>0. Len(buf) \in Nat
  BY ElementOfSeq DEF Bytes
<1>1. PICK m \in (i + 1)..(Len(buf) + 1) : m = i + Taken(buf, i)
  BY TakenRange
<1>2. f[m] \in Seq(1..Len(buf)) /\ f[i] = <<i>> \o f[m]
  BY <1>0, <1>1 DEF StartsFrom
<1>3. PICK s \in Seq(1..Len(buf)) : s = f[m]
  BY <1>2
<1>4. PICK o \in Seq(1..Len(buf)) : o = <<i>>
  <2>1. <<i>> \in Seq(1..Len(buf))
    OBVIOUS
  <2> QED BY <2>1
<1>5. Len(o) = 1 /\ o[1] = i
  BY <1>4
<1>6. PICK u : u = o \o s
  OBVIOUS
<1>7. Len(u) = 1 + Len(s) /\ Len(s) \in Nat
      /\ \A j \in 1..(1 + Len(s)) : u[j] = IF j <= 1 THEN o[j] ELSE s[j - 1]
  <2>1. PICK S : S = 1..Len(buf)
    OBVIOUS
  <2>2. o \in Seq(S) /\ s \in Seq(S)
    BY <2>1
  <2>3. /\ Len(o \o s) = Len(o) + Len(s)
        /\ \A j \in 1..(Len(o) + Len(s)) : (o \o s)[j] = IF j <= Len(o) THEN o[j] ELSE s[j - Len(o)]
    BY ONLY <2>2, ConcatProperties, Zenon
  <2>4. Len(s) \in Nat
    BY <2>2, LenProperties
  <2> QED BY ONLY <1>5, <1>6, <2>3, <2>4
<1>8. u[1] = i /\ \A j \in 1..Len(s) : u[j + 1] = s[j]
  BY <1>5, <1>7
<1>9. Sound(buf, u) <=> SoundAt(buf, i) /\ Sound(buf, s)
  <2>1. ASSUME Sound(buf, u) PROVE SoundAt(buf, i) /\ Sound(buf, s)
    <3>1. 1 \in 1..Len(u) /\ \A j \in 1..Len(s) : j + 1 \in 1..Len(u)
      BY <1>7
    <3> QED BY <2>1, <3>1, <1>8 DEF Sound
  <2>2. ASSUME SoundAt(buf, i), Sound(buf, s) PROVE Sound(buf, u)
    <3> SUFFICES ASSUME NEW j \in 1..Len(u) PROVE SoundAt(buf, u[j])
      BY DEF Sound
    <3>1. CASE j = 1
      BY <3>1, <2>2, <1>8
    <3>2. CASE j # 1
      <4>1. j - 1 \in 1..Len(s) /\ u[j] = s[j - 1]
        BY <3>2, <1>7
      <4> QED BY <4>1, <2>2 DEF Sound
    <3> QED BY <3>1, <3>2
  <2> QED BY <2>1, <2>2
<1>10. f[i] = u
  BY <1>2, <1>3, <1>4, <1>6
<1> QED BY <1>1, <1>2, <1>3, <1>9, <1>10

LEMMA StartsEnd ==
  ASSUME NEW buf \in Bytes, NEW f, StartsFrom(f, buf, 1)
  PROVE  f[Len(buf) + 1] = <<>>
<1>1. Len(buf) + 1 \in 1..(Len(buf) + 1) /\ Len(buf) + 1 > Len(buf)
  BY ElementOfSeq DEF Bytes
<1> QED BY <1>1 DEF StartsFrom

LEMMA CharTaken ==
  ASSUME NEW buf \in Bytes, NEW i \in 1..Len(buf), CharAt(buf, i), NEW m \in Nat, m = i + Taken(buf, i)
  PROVE  SoundAt(buf, i) /\ Edge(buf, m - 1)
<1>0. Len(buf) \in Nat
  BY ElementOfSeq DEF Bytes
<1>1. PICK n \in 1..4 : n = Announced(buf[i])
  BY TakenRange
<1>2. Taken(buf, i) = n
  BY <1>1 DEF Taken, CharAt
<1>3. i + n - 1 = Len(buf) \/ i + n <= Len(buf)
  BY <1>0, <1>1 DEF CharAt
<1>4. m - 1 = i + n - 1 /\ (m - 1) + 1 = i + n
  BY <1>1, <1>2
<1> QED BY <1>1, <1>2, <1>3, <1>4 DEF CharAt, SoundAt, Edge

\* Of a text of whole characters, decoding from an edge on finds whole ones.
LEMMA WholeSound ==
  ASSUME NEW buf \in Bytes, NEW f, StartsFrom(f, buf, 1), Whole(buf),
         NEW e \in 0..Len(buf), Edge(buf, e)
  PROVE  Sound(buf, f[e + 1])
<1> DEFINE L == Len(buf)
           T == {k \in Nat : \A i \in 0..L : i + k >= L /\ Edge(buf, i) => Sound(buf, f[i + 1])}
<1>0. L \in Nat
  BY ElementOfSeq DEF Bytes
<1>1. 0 \in T
  <2> SUFFICES ASSUME NEW i \in 0..L, i + 0 >= L PROVE Sound(buf, f[i + 1])
    OBVIOUS
  <2>1. i = L
    BY <1>0
  <2>2. f[i + 1] = <<>>
    BY <2>1, StartsEnd
  <2> QED BY <2>2 DEF Sound
<1>2. ASSUME NEW k \in Nat, k \in T PROVE k + 1 \in T
  <2> SUFFICES ASSUME NEW i \in 0..L, i + (k + 1) >= L, Edge(buf, i) PROVE Sound(buf, f[i + 1])
    OBVIOUS
  <2>1. CASE i = L
    <3>1. f[i + 1] = <<>>
      BY <2>1, StartsEnd
    <3> QED BY <3>1 DEF Sound
  <2>2. CASE i # L
    <3>1. PICK c \in 1..L : c = i + 1
      BY <2>2, <1>0
    <3>2. ~Continues(buf[c])
      BY <2>2, <3>1 DEF Edge
    <3>3. CharAt(buf, c)
      BY <3>2, <3>1 DEF Whole
    <3>5. PICK m \in (c + 1)..(L + 1) : m = c + Taken(buf, c)
      BY TakenRange
    <3>4. SoundAt(buf, c) /\ Edge(buf, m - 1)
      BY <3>3, <3>5, CharTaken
    <3>6. m - 1 \in 0..L /\ (m - 1) + k >= L /\ (m - 1) + 1 = m
      BY <3>1, <3>5, <1>0
    <3>7. Sound(buf, f[m])
      BY <3>4, <3>6, <1>2
    <3> QED BY <3>1, <3>4, <3>5, <3>7, SoundStep
  <2> QED BY <2>1, <2>2
<1> HIDE DEF T
<1>3. L \in T
  BY <1>0, <1>1, <1>2, NatSet
<1>4. e + L >= L
  BY <1>0
<1> QED BY <1>3, <1>4 DEF T

\* And a text decoding finds whole from i on is one from there on.
LEMMA SoundWhole ==
  ASSUME NEW buf \in Bytes, NEW f, StartsFrom(f, buf, 1), Sound(buf, f[1])
  PROVE  Whole(buf)
<1> DEFINE L == Len(buf)
           From(i) == /\ i <= L => ~Continues(buf[i])
                      /\ \A c \in i..L : ~Continues(buf[c]) => CharAt(buf, c)
           T == {k \in Nat : \A i \in 1..(L + 1) : i + k >= L + 1 /\ Sound(buf, f[i]) => From(i)}
<1>0. L \in Nat
  BY ElementOfSeq DEF Bytes
<1>1. 0 \in T
  BY <1>0
<1>2. ASSUME NEW k \in Nat, k \in T PROVE k + 1 \in T
  <2> SUFFICES ASSUME NEW i \in 1..(L + 1), i + (k + 1) >= L + 1, Sound(buf, f[i]) PROVE From(i)
    OBVIOUS
  <2>1. CASE i = L + 1
    BY <2>1, <1>0
  <2>2. CASE i # L + 1
    <3>1. i \in 1..L
      BY <2>2, <1>0
    <3>2. PICK m \in (i + 1)..(L + 1) : m = i + Taken(buf, i)
      BY <3>1, TakenRange
    <3>3. SoundAt(buf, i) /\ Sound(buf, f[m])
      BY <3>1, <3>2, SoundStep
    <3>4. From(m)
      BY <1>2, <1>0, <3>2, <3>3
    <3>5. PICK n \in 1..4 : n = Announced(buf[i]) /\ n = Taken(buf, i)
      BY <3>1, <3>3, TakenRange DEF SoundAt
    <3>6. \A j \in (i + 1)..(i + n - 1) : Continues(buf[j])
      <4>1. CASE n = 1
        BY <4>1
      <4>2. CASE n # 1
        BY <3>5, <4>2 DEF Taken
      <4> QED BY <4>1, <4>2
    <3>7. CharAt(buf, i)
      <4>1. i + n - 1 <= L /\ m = i + n
        BY <3>2, <3>5, <1>0
      <4>2. i + n <= L => ~Continues(buf[i + n])
        BY <3>4, <4>1
      <4> HIDE DEF From
      <4> QED BY <3>3, <3>5, <3>6, <4>1, <4>2 DEF CharAt, SoundAt
    <3>8. ASSUME NEW c \in i..L, ~Continues(buf[c]) PROVE CharAt(buf, c)
      <4>1. c = i \/ c \in (i + 1)..(i + n - 1) \/ c \in m..L
        BY <3>2, <3>5
      <4> QED BY <4>1, <3>4, <3>6, <3>7, <3>8
    <3> QED BY <3>3, <3>8 DEF SoundAt
  <2> QED BY <2>1, <2>2
<1> HIDE DEF T
<1>3. L \in T
  BY <1>0, <1>1, <1>2, NatSet
<1>4. From(1)
  BY <1>0, <1>3 DEF T
<1> QED BY <1>4, <1>0 DEF Whole

LEMMA WholeIsWhole ==
  ASSUME NEW buf \in Bytes
  PROVE  WholeChars(buf) <=> Whole(buf)
<1>1. PICK f : StartsFrom(f, buf, 1) /\ Starts(buf) = f[1]
  BY StartsWalk
<1>0. Len(buf) \in Nat
  BY ElementOfSeq DEF Bytes
<1>2. PICK s \in Seq(1..Len(buf)) : s = f[1]
  BY <1>0, <1>1 DEF StartsFrom
<1>3. FieldSeq!Range(s) = {s[j] : j \in 1..Len(s)}
  <2>1. DOMAIN s = 1..Len(s)
    BY LenProperties
  <2> QED BY <2>1 DEF FieldSeq!Range
<1>4. WholeChars(buf) <=> Sound(buf, s)
  BY <1>1, <1>2, <1>3 DEF WholeChars, Sound, SoundAt
<1>5. Whole(buf) => Sound(buf, s)
  <2> SUFFICES ASSUME Whole(buf) PROVE Sound(buf, s)
    OBVIOUS
  <2>1. Edge(buf, 0) /\ 0 \in 0..Len(buf)
    BY <1>0 DEF Edge, Whole
  <2>2. Sound(buf, f[0 + 1])
    BY <1>1, <2>1, WholeSound
  <2> QED BY <1>2, <2>2
<1>6. Sound(buf, s) => Whole(buf)
  BY <1>1, <1>2, SoundWhole
<1> QED BY <1>4, <1>5, <1>6

\* Texts of whole characters one after the other.
LEMMA WholeJoin ==
  ASSUME NEW s \in Bytes, NEW t \in Bytes, Whole(s), Whole(t)
  PROVE  /\ s \o t \in Bytes /\ Len(s \o t) = Len(s) + Len(t)
         /\ Whole(s \o t) /\ Edge(s \o t, Len(s))
<1>1. PICK u : u = s \o t
  OBVIOUS
<1>2. /\ u \in Bytes /\ Len(u) = Len(s) + Len(t)
      /\ \A i \in 1..(Len(s) + Len(t)) : u[i] = IF i <= Len(s) THEN s[i] ELSE t[i - Len(s)]
  BY <1>1, ConcatProperties DEF Bytes
<1>3. PICK m \in Nat, n \in Nat : m = Len(s) /\ n = Len(t)
  BY LenProperties DEF Bytes
<1>4. /\ Len(u) = m + n
      /\ \A i \in 1..m : u[i] = s[i]
      /\ \A i \in 1..n : u[m + i] = t[i]
  <2>1. ASSUME NEW i \in 1..m PROVE u[i] = s[i]
    BY <1>2, <1>3
  <2>2. ASSUME NEW i \in 1..n PROVE u[m + i] = t[i]
    <3>1. m + i \in 1..(m + n) /\ ~(m + i <= m) /\ (m + i) - m = i
      OBVIOUS
    <3> QED BY <3>1, <1>2, <1>3
  <2> QED BY <2>1, <2>2, <1>2, <1>3
<1>5. m + 1 <= m + n => ~Continues(u[m + 1])
  <2> SUFFICES ASSUME m + 1 <= m + n PROVE ~Continues(u[m + 1])
    OBVIOUS
  <2>1. 1 \in 1..n
    OBVIOUS
  <2> QED BY <2>1, <1>3, <1>4 DEF Whole
<1>6. Edge(u, m)
  BY <1>4, <1>5 DEF Edge
<1>7. ASSUME NEW i \in 1..(m + n), ~Continues(u[i]) PROVE CharAt(u, i)
  <2>1. CASE i <= m
    <3>1. i \in 1..m /\ u[i] = s[i]
      BY <2>1, <1>4
    <3>2. CharAt(s, i)
      BY <3>1, <1>3, <1>7 DEF Whole
    <3>3. PICK a \in 1..4 : a = Announced(s[i])
      BY <3>1, <1>3, TakenRange
    <3>4. i + a - 1 <= m /\ \A j \in (i + 1)..(i + a - 1) : Continues(s[j]) /\ j \in 1..m
      BY <3>1, <3>2, <3>3, <1>3 DEF CharAt
    <3>5. \A j \in (i + 1)..(i + a - 1) : Continues(u[j])
      BY <3>4, <1>4
    <3>6. i + a <= m + n => ~Continues(u[i + a])
      <4>1. CASE i + a <= m
        <5>1. i + a \in 1..m
          BY <4>1, <3>1
        <5> QED BY <5>1, <3>2, <3>3, <1>3, <1>4, <4>1 DEF CharAt
      <4>2. CASE ~(i + a <= m)
        <5>1. i + a = m + 1
          BY <4>2, <3>4, <3>1
        <5> QED BY <5>1, <1>5
      <4> QED BY <4>1, <4>2
    <3>7. i + a - 1 <= m + n
      BY <3>4, <3>1
    <3> QED BY <1>7, <1>4, <3>1, <3>3, <3>5, <3>6, <3>7 DEF CharAt
  <2>2. CASE ~(i <= m)
    <3>1. PICK c \in 1..n : i = m + c /\ u[i] = t[c]
      <4>1. i - m \in 1..n /\ i = m + (i - m)
        BY <2>2
      <4> QED BY <4>1, <1>4
    <3>2. CharAt(t, c)
      BY <3>1, <1>3, <1>7 DEF Whole
    <3>3. PICK a \in 1..4 : a = Announced(t[c])
      BY <3>1, <1>3, TakenRange
    <3>4. c + a - 1 <= n /\ \A j \in (c + 1)..(c + a - 1) : Continues(t[j]) /\ j \in 1..n
      BY <3>2, <3>3, <1>3 DEF CharAt
    <3>5. \A j \in (i + 1)..(i + a - 1) : Continues(u[j])
      <4> SUFFICES ASSUME NEW j \in (i + 1)..(i + a - 1) PROVE Continues(u[j])
        OBVIOUS
      <4>1. j - m \in (c + 1)..(c + a - 1) /\ j = m + (j - m)
        BY <3>1
      <4> QED BY <4>1, <3>4, <1>4
    <3>6. i + a <= m + n => ~Continues(u[i + a])
      <4> SUFFICES ASSUME i + a <= m + n PROVE ~Continues(u[i + a])
        OBVIOUS
      <4>1. c + a \in 1..n /\ i + a = m + (c + a)
        BY <3>1
      <4>2. ~Continues(t[c + a])
        BY <4>1, <3>2, <3>3, <1>3 DEF CharAt
      <4> QED BY <4>1, <4>2, <1>4
    <3>7. i + a - 1 <= m + n
      BY <3>1, <3>4
    <3> QED BY <1>7, <1>4, <3>1, <3>3, <3>5, <3>6, <3>7 DEF CharAt
  <2> QED BY <2>1, <2>2
<1>8. Len(u) > 0 => ~Continues(u[1])
  <2>1. CASE m = 0
    BY <2>1, <1>4, <1>5
  <2>2. CASE m # 0
    <3>1. 1 \in 1..m
      BY <2>2
    <3> QED BY <3>1, <1>3, <1>4 DEF Whole
  <2> QED BY <2>1, <2>2
<1>9. Whole(u)
  BY <1>4, <1>7, <1>8 DEF Whole
<1> QED BY <1>1, <1>2, <1>3, <1>6, <1>9

\* A text cut at an edge.
LEMMA WholeCut ==
  ASSUME NEW buf \in Bytes, Whole(buf), NEW e \in 0..Len(buf), Edge(buf, e)
  PROVE  /\ SubSeq(buf, 1, e) \in Bytes /\ Whole(SubSeq(buf, 1, e)) /\ Len(SubSeq(buf, 1, e)) = e
         /\ \A i \in 1..e : SubSeq(buf, 1, e)[i] = buf[i]
         /\ SubSeq(buf, e + 1, Len(buf)) \in Bytes /\ Whole(SubSeq(buf, e + 1, Len(buf)))
         /\ Len(SubSeq(buf, e + 1, Len(buf))) = Len(buf) - e
<1>0. PICK L \in Nat : L = Len(buf)
  BY LenProperties DEF Bytes
<1>1. \A i \in 1..L : buf[i] \in 0..255
  BY <1>0, ElementOfSeq DEF Bytes
<1>2. PICK s, t : s = SubSeq(buf, 1, e) /\ t = SubSeq(buf, e + 1, L)
  OBVIOUS
<1>3. s \in Bytes /\ Len(s) = e /\ \A i \in 1..e : s[i] = buf[i]
  <2>1. \A i \in 1..e : buf[i] \in 0..255
    <3>1. \A i \in 1..e : i \in 1..L
      BY <1>0
    <3> QED BY <3>1, <1>1
  <2>2. /\ s \in Seq(0..255) /\ Len(s) = IF 1 <= e THEN e - 1 + 1 ELSE 0
        /\ \A i \in 1..(e - 1 + 1) : s[i] = buf[1 + i - 1]
    BY <1>2, <2>1, SubSeqProperties
  <2> QED BY <2>2 DEF Bytes
<1>4. t \in Bytes /\ Len(t) = L - e /\ \A i \in 1..(L - e) : t[i] = buf[e + i]
  <2>1. \A i \in (e + 1)..L : buf[i] \in 0..255
    BY <1>0, <1>1
  <2>2. e + 1 \in Int /\ L \in Int
    BY <1>0
  <2>3. /\ t \in Seq(0..255) /\ Len(t) = IF e + 1 <= L THEN L - (e + 1) + 1 ELSE 0
        /\ \A i \in 1..(L - (e + 1) + 1) : t[i] = buf[(e + 1) + i - 1]
    BY <1>2, <2>1, <2>2, SubSeqProperties
  <2>4. L - (e + 1) + 1 = L - e /\ Len(t) = L - e
    BY <1>0, <2>3
  <2>5. ASSUME NEW i \in 1..(L - e) PROVE t[i] = buf[e + i]
    <3>1. (e + 1) + i - 1 = e + i
      OBVIOUS
    <3> QED BY <3>1, <2>3, <2>4
  <2> QED BY <2>3, <2>4, <2>5 DEF Bytes
<1>5. Whole(s)
  <2>1. e > 0 => ~Continues(s[1])
    BY <1>0, <1>3 DEF Whole
  <2>2. ASSUME NEW i \in 1..e, ~Continues(s[i]) PROVE CharAt(s, i)
    <3>1. s[i] = buf[i] /\ i \in 1..L /\ CharAt(buf, i)
      BY <2>2, <1>0, <1>3 DEF Whole
    <3>2. PICK a \in 1..4 : a = Announced(buf[i])
      BY <3>1, <1>0, TakenRange
    <3>3. /\ i + a - 1 <= L /\ \A j \in (i + 1)..(i + a - 1) : Continues(buf[j])
          /\ i + a <= L => ~Continues(buf[i + a])
      BY <3>1, <3>2, <1>0 DEF CharAt
    <3>4. i + a - 1 <= e
      <4> SUFFICES ASSUME e + 1 <= i + a - 1 PROVE FALSE
        BY <1>0
      <4>1. e + 1 \in (i + 1)..(i + a - 1) /\ e # L
        BY <3>3, <1>0
      <4> QED BY <4>1, <3>3, <1>0 DEF Edge
    <3>5. \A j \in (i + 1)..(i + a - 1) : Continues(s[j])
      BY <3>3, <3>4, <1>3
    <3>6. i + a <= e => ~Continues(s[i + a])
      <4> SUFFICES ASSUME i + a <= e PROVE ~Continues(s[i + a])
        OBVIOUS
      <4>1. i + a \in 1..e /\ i + a <= L
        BY <1>0
      <4> QED BY <4>1, <3>3, <1>3
    <3> QED BY <2>2, <1>3, <3>1, <3>2, <3>4, <3>5, <3>6 DEF CharAt
  <2> QED BY <2>1, <2>2, <1>3 DEF Whole
<1>6. Whole(t)
  <2>1. L - e > 0 => ~Continues(t[1])
    <3> SUFFICES ASSUME L - e > 0 PROVE ~Continues(t[1])
      OBVIOUS
    <3>1. t[1] = buf[e + 1] /\ e # L
      BY <1>0, <1>4
    <3> QED BY <3>1, <1>0 DEF Edge
  <2>2. ASSUME NEW i \in 1..(L - e), ~Continues(t[i]) PROVE CharAt(t, i)
    <3>1. PICK c \in 1..L : c = e + i
      BY <1>0
    <3>2. t[i] = buf[c] /\ CharAt(buf, c)
      BY <2>2, <1>0, <1>4, <3>1 DEF Whole
    <3>3. PICK a \in 1..4 : a = Announced(buf[c])
      BY <3>1, <1>0, TakenRange
    <3>4. /\ c + a - 1 <= L /\ \A j \in (c + 1)..(c + a - 1) : Continues(buf[j])
          /\ c + a <= L => ~Continues(buf[c + a])
      BY <3>2, <3>3, <1>0 DEF CharAt
    <3>5. i + a - 1 <= L - e
      BY <3>1, <3>4, <1>0
    <3>6. \A j \in (i + 1)..(i + a - 1) : Continues(t[j])
      <4> SUFFICES ASSUME NEW j \in (i + 1)..(i + a - 1) PROVE Continues(t[j])
        OBVIOUS
      <4>1. e + j \in (c + 1)..(c + a - 1) /\ j \in 1..(L - e)
        BY <3>1, <3>5, <1>0
      <4> QED BY <4>1, <3>4, <1>4
    <3>7. i + a <= L - e => ~Continues(t[i + a])
      <4> SUFFICES ASSUME i + a <= L - e PROVE ~Continues(t[i + a])
        OBVIOUS
      <4>1. c + a <= L /\ i + a \in 1..(L - e) /\ e + (i + a) = c + a
        BY <1>0, <3>1
      <4> QED BY <4>1, <3>4, <1>4
    <3> QED BY <2>2, <1>4, <3>2, <3>3, <3>5, <3>6, <3>7 DEF CharAt
  <2> QED BY <2>1, <2>2, <1>4 DEF Whole
<1> QED BY <1>0, <1>2, <1>3, <1>4, <1>5, <1>6

-----------------------------------------------------------------------------
(* The keys of a field.                                                    *)

FieldRec == [buf: Bytes, cur: Nat, fresh: BOOLEAN]

FieldOK(f) ==
  /\ f \in FieldRec /\ f.buf \in Bytes /\ f.cur \in 0..Len(f.buf) /\ Len(f.buf) < FieldBytes
  /\ Whole(f.buf) /\ Edge(f.buf, f.cur)

LEMMA EncodeWhole ==
  ASSUME NEW c \in CodePoints
  PROVE  Encode(c) \in Bytes /\ Whole(Encode(c))
<1>0. c \in Nat /\ c < 2097152
  BY SMT DEF CodePoints
<1>1. \A x \in 0..63 : Continues(128 + x)
  BY DEF Continues
<1>2. \A k \in Nat \ {0} : (c \div k) % 64 \in 0..63
  BY <1>0, SMT
<1>3. \A u \in {1, 64, 4096} : Low(c, u) \in 0..255 /\ Continues(Low(c, u))
  <2>1. \A u \in {1, 64, 4096} : (c \div u) % 64 \in 0..63
    BY <1>2
  <2> QED BY <2>1, <1>1 DEF Low
<1>4. \A b \in (0..127) \cup (192..255) : ~Continues(b)
  BY DEF Continues
<1>5. PICK x, y, z : x = Low(c, 1) /\ y = Low(c, 64) /\ z = Low(c, 4096)
  OBVIOUS
<1>6. x \in 0..255 /\ Continues(x) /\ y \in 0..255 /\ Continues(y) /\ z \in 0..255 /\ Continues(z)
  BY <1>3, <1>5
<1>7. CASE c < 128
  <2>1. Encode(c) = <<c>> /\ c \in 0..255 /\ Announced(c) = 1 /\ ~Continues(c)
    BY <1>0, <1>7, <1>4, SMT DEF Encode, Announced
  <2> QED BY <2>1 DEF Bytes, Whole, CharAt
<1>8. CASE ~(c < 128) /\ c < 2048
  <2>1. PICK h \in 192..223 : h = 192 + (c \div 64)
    BY <1>8, <1>0, SMT
  <2>2. Encode(c) = <<h, x>>
    BY <1>5, <1>8, <2>1, <1>0, SMT DEF Encode
  <2>3. Announced(h) = 2 /\ ~Continues(h)
    BY <1>4 DEF Announced
  <2> QED BY <1>6, <2>2, <2>3 DEF Bytes, Whole, CharAt
<1>9. CASE ~(c < 2048) /\ c < 65536
  <2>1. PICK h \in 224..239 : h = 224 + (c \div 4096)
    BY <1>9, <1>0, SMT
  <2>2. Encode(c) = <<h, y, x>>
    BY <1>5, <1>9, <2>1, <1>0, SMT DEF Encode
  <2>3. Announced(h) = 3 /\ ~Continues(h)
    BY <1>4 DEF Announced
  <2> QED BY <1>6, <2>2, <2>3 DEF Bytes, Whole, CharAt
<1>10. CASE ~(c < 65536)
  <2>1. PICK h \in 240..247 : h = 240 + (c \div 262144)
    BY <1>10, <1>0, SMT
  <2>2. Encode(c) = <<h, z, y, x>>
    BY <1>5, <1>10, <2>1, <1>0, SMT DEF Encode
  <2>3. Announced(h) = 4 /\ ~Continues(h)
    BY <1>4 DEF Announced
  <2> QED BY <1>6, <2>2, <2>3 DEF Bytes, Whole, CharAt
<1> QED BY <1>7, <1>8, <1>9, <1>10, <1>0, SMT

\* The cursor goes to the edge before it and to the one after it.
LEMMA LeftEdge ==
  ASSUME NEW f, FieldOK(f), f.cur > 0
  PROVE  Left(f) \in 0..(f.cur - 1) /\ Edge(f.buf, Left(f))
<1>0. PICK b \in Bytes, n \in Nat : b = f.buf /\ n = f.cur
  BY LenProperties DEF FieldOK, Bytes
<1>1. Len(b) \in Nat /\ n \in 0..Len(b) /\ n > 0 /\ Whole(b)
  BY <1>0, LenProperties DEF FieldOK, Bytes
<1> DEFINE P(i) == /\ i = 0 \/ ~Continues(b[i + 1])
                   /\ \A j \in (i + 1)..(n - 1) : Continues(b[j + 1])
           S == {k \in 0..(n - 1) : ~Continues(b[(n - 1 - k) + 1]) \/ n - 1 - k = 0}
<1>2. \E i \in 0..(n - 1) : P(i)
  <2>1. n - 1 \in S
    <3>1. n - 1 \in 0..(n - 1) /\ n - 1 - (n - 1) = 0
      BY <1>1
    <3> QED BY <3>1
  <2>2. PICK m \in S : \A k \in S : m <= k
    <3>1. S \in SUBSET Nat
      OBVIOUS
    <3> HIDE DEF S
    <3> QED BY <2>1, <3>1, LeastNatural
  <2>3. PICK i \in 0..(n - 1) : i = n - 1 - m
    BY <1>1, <2>2
  <2>4. i = 0 \/ ~Continues(b[i + 1])
    BY <2>2, <2>3
  <2>5. ASSUME NEW j \in (i + 1)..(n - 1) PROVE Continues(b[j + 1])
    <3>1. PICK k \in 0..(n - 1) : k = n - 1 - j
      BY <2>3
    <3>2. k < m /\ n - 1 - k = j
      BY <2>3, <3>1, <2>2
    <3>3. k \notin S
      BY <2>2, <3>2
    <3> QED BY <3>2, <3>3
  <2> QED BY <2>4, <2>5
<1>3. Left(f) = CHOOSE i \in 0..(n - 1) : P(i)
  <2>1. n # 0
    BY <1>1
  <2> QED BY <1>0, <2>1, Zenon DEF Left
<1>4. PICK l \in 0..(n - 1) : l = Left(f) /\ P(l)
  <2> HIDE DEF P
  <2> QED BY <1>2, <1>3
<1>5. l = 0 => ~Continues(b[l + 1])
  BY <1>1 DEF Whole
<1> QED BY <1>0, <1>4, <1>5 DEF Edge

LEMMA RightEdge ==
  ASSUME NEW f, FieldOK(f), f.cur < Len(f.buf)
  PROVE  Right(f) \in (f.cur + 1)..Len(f.buf) /\ Edge(f.buf, Right(f))
<1>0. PICK b \in Bytes, n \in Nat, L \in Nat : b = f.buf /\ n = f.cur /\ L = Len(b)
  BY LenProperties DEF FieldOK, Bytes
<1>1. n < L /\ n \in Nat
  BY <1>0
<1> DEFINE P(i) == /\ i = L \/ ~Continues(b[i + 1])
                   /\ \A j \in (n + 1)..(i - 1) : Continues(b[j + 1])
           S == {i \in (n + 1)..L : i = L \/ ~Continues(b[i + 1])}
<1>2. \E i \in (n + 1)..L : P(i)
  <2>1. L \in S /\ S \in SUBSET Nat
    BY <1>1
  <2>2. PICK i \in S : \A k \in S : i <= k
    <3> HIDE DEF S
    <3> QED BY <2>1, LeastNatural
  <2>3. ASSUME NEW j \in (n + 1)..(i - 1) PROVE Continues(b[j + 1])
    <3>1. j \in (n + 1)..L /\ ~(i <= j)
      BY <2>2
    <3> QED BY <2>2, <3>1
  <2> QED BY <2>2, <2>3
<1>3. Right(f) = CHOOSE i \in (n + 1)..L : P(i)
  <2>1. n # L
    BY <1>1
  <2> QED BY <1>0, <2>1, Zenon DEF Right
<1>4. PICK l \in (n + 1)..L : l = Right(f) /\ P(l)
  <2> HIDE DEF P
  <2> QED BY <1>2, <1>3
<1> QED BY <1>0, <1>4 DEF Edge

LEMMA EditedOK ==
  ASSUME NEW f, FieldOK(f), NEW buf \in Bytes, NEW cur \in 0..Len(buf), Whole(buf),
         Edge(buf, cur), Len(buf) < FieldBytes
  PROVE  FieldOK(Edited(f, buf, cur))
<1>1. f \in FieldRec /\ cur \in Nat
  BY LenProperties DEF FieldOK, Bytes
<1>2. Edited(f, buf, cur) \in FieldRec
  BY <1>1 DEF Edited, FieldRec
<1>3. Edited(f, buf, cur).buf = buf /\ Edited(f, buf, cur).cur = cur
  BY <1>1 DEF Edited, FieldRec
<1> QED BY <1>2, <1>3 DEF FieldOK

\* Whole characters are taken out between two edges.
LEMMA WithoutWhole ==
  ASSUME NEW buf \in Bytes, Whole(buf), NEW from \in 0..Len(buf), NEW to \in from..Len(buf),
         Edge(buf, from), Edge(buf, to)
  PROVE  /\ Without(buf, from, to) \in Bytes /\ Whole(Without(buf, from, to))
         /\ Len(Without(buf, from, to)) = Len(buf) - (to - from)
         /\ Edge(Without(buf, from, to), from)
<1>0. PICK L \in Nat : L = Len(buf)
  BY LenProperties DEF Bytes
<1>1. PICK s \in Bytes : s = SubSeq(buf, 1, from) /\ Whole(s) /\ Len(s) = from
  BY WholeCut
<1>2. to \in 0..Len(buf)
  BY <1>0
<1>3. PICK t \in Bytes : t = SubSeq(buf, to + 1, Len(buf)) /\ Whole(t) /\ Len(t) = Len(buf) - to
  BY <1>2, WholeCut
<1>4. /\ s \o t \in Bytes /\ Len(s \o t) = Len(s) + Len(t)
      /\ Whole(s \o t) /\ Edge(s \o t, Len(s))
  BY <1>1, <1>3, WholeJoin
<1>5. Without(buf, from, to) = s \o t
  BY <1>1, <1>3 DEF Without
<1>6. Len(s) + Len(t) = Len(buf) - (to - from)
  <2>1. to \in Nat /\ from \in Nat
    BY <1>0
  <2>2. from + (L - to) = L - (to - from)
    BY <2>1
  <2> QED BY <2>2, <1>0, <1>1, <1>3
<1> QED BY <1>1, <1>4, <1>5, <1>6

LEMMA KeyKeepsField ==
  ASSUME NEW f, FieldOK(f), NEW k \in FieldKeys, TakesKey(f, k)
  PROVE  FieldOK(FieldKey(f, k))
<1>0. PICK L \in Nat, n \in Nat : L = Len(f.buf) /\ n = f.cur
  BY LenProperties DEF FieldOK, Bytes
<1>1. f.buf \in Bytes /\ n <= L /\ L < FieldBytes /\ Whole(f.buf) /\ Edge(f.buf, n) /\ FieldBytes \in Nat
  BY <1>0, FieldAssumption DEF FieldOK
<1>2. CASE k = "left"
  <2>1. Left(f) \in 0..L /\ Edge(f.buf, Left(f))
    BY <1>0, <1>1, <1>2, LeftEdge DEF TakesKey
  <2> QED BY <1>0, <1>1, <1>2, <2>1, EditedOK DEF FieldKey
<1>3. CASE k = "right"
  <2>1. Right(f) \in 0..L /\ Edge(f.buf, Right(f))
    BY <1>0, <1>1, <1>3, RightEdge DEF TakesKey
  <2> QED BY <1>0, <1>1, <1>3, <2>1, EditedOK DEF FieldKey
<1>4. CASE k = "home"
  <2>1. Edge(f.buf, 0) /\ 0 \in 0..L
    BY <1>0, <1>1 DEF Edge, Whole
  <2> QED BY <1>0, <1>1, <1>4, <2>1, EditedOK DEF FieldKey
<1>5. CASE k = "end"
  <2>1. Edge(f.buf, L) /\ L \in 0..L
    BY <1>0 DEF Edge
  <2> QED BY <1>0, <1>1, <1>5, <2>1, EditedOK DEF FieldKey
<1>6. CASE k = "backspace"
  <2>1. PICK l \in 0..(n - 1) : l = Left(f) /\ Edge(f.buf, l)
    BY <1>0, <1>6, LeftEdge DEF TakesKey
  <2>2. l \in 0..L /\ n \in l..L
    BY <1>1, <2>1
  <2>3. PICK b : b = Without(f.buf, l, n)
    OBVIOUS
  <2>4. b \in Bytes /\ Whole(b) /\ Len(b) = L - (n - l) /\ Edge(b, l)
    BY <1>0, <1>1, <2>1, <2>2, <2>3, WithoutWhole
  <2>5. l \in 0..Len(b) /\ Len(b) < FieldBytes
    BY <1>1, <2>1, <2>2, <2>4
  <2>6. FieldKey(f, k) = Edited(f, b, l)
    BY <1>0, <1>6, <2>1, <2>3 DEF FieldKey
  <2> QED BY <2>4, <2>5, <2>6, EditedOK
<1>7. CASE k = "delete"
  <2>1. PICK r \in (n + 1)..L : r = Right(f) /\ Edge(f.buf, r)
    BY <1>0, <1>7, RightEdge DEF TakesKey
  <2>2. n \in 0..L /\ r \in n..L
    BY <1>1, <2>1
  <2>3. PICK b : b = Without(f.buf, n, r)
    OBVIOUS
  <2>4. b \in Bytes /\ Whole(b) /\ Len(b) = L - (r - n) /\ Edge(b, n)
    BY <1>0, <1>1, <2>1, <2>2, <2>3, WithoutWhole
  <2>5. n \in 0..Len(b) /\ Len(b) < FieldBytes
    BY <1>1, <2>1, <2>2, <2>4
  <2>6. FieldKey(f, k) = Edited(f, b, n)
    BY <1>0, <1>7, <2>1, <2>3 DEF FieldKey
  <2> QED BY <2>4, <2>5, <2>6, EditedOK
<1> QED BY <1>2, <1>3, <1>4, <1>5, <1>6, <1>7 DEF FieldKeys

LEMMA InsertKeepsField ==
  ASSUME NEW f, FieldOK(f), NEW c \in CodePoints
  PROVE  FieldOK(Insert(f, c))
<1> DEFINE old == IF f.fresh THEN [f EXCEPT !.buf = <<>>, !.cur = 0] ELSE f
<1>1. PICK b \in Bytes, n \in Nat : b = old.buf /\ n = old.cur /\ FieldOK(old)
  <2>1. CASE f.fresh
    <3>1. old \in FieldRec /\ old.buf = <<>> /\ old.cur = 0
      <4>1. f \in FieldRec /\ <<>> \in Bytes
        BY DEF FieldOK, Bytes
      <4>2. old = [f EXCEPT !.buf = <<>>, !.cur = 0]
        BY <2>1
      <4> QED BY <4>1, <4>2 DEF FieldRec
    <3>2. <<>> \in Bytes /\ Len(<<>>) = 0 /\ Whole(<<>>) /\ Edge(<<>>, 0)
      BY DEF Bytes, Whole, Edge
    <3>3. FieldOK(old)
      BY <3>1, <3>2, FieldAssumption DEF FieldOK
    <3>4. old.buf \in Bytes /\ old.cur \in Nat
      BY <3>1, <3>2
    <3> HIDE DEF old
    <3> QED BY <3>3, <3>4
  <2>2. CASE ~f.fresh
    BY <2>2, LenProperties DEF FieldOK, Bytes
  <2> QED BY <2>1, <2>2
<1>2. PICK u \in Bytes, L \in Nat, m \in Nat : u = Encode(c) /\ Whole(u) /\ L = Len(b) /\ m = Len(u)
  BY EncodeWhole, LenProperties DEF Bytes
<1>3. n \in 0..L /\ L < FieldBytes /\ Whole(b) /\ Edge(b, n)
  BY <1>1, <1>2 DEF FieldOK
<1>4. PICK p \in Bytes, q \in Bytes :
        /\ p = SubSeq(b, 1, n) /\ q = SubSeq(b, n + 1, L) /\ Whole(p) /\ Whole(q)
        /\ Len(p) = n /\ Len(q) = L - n
  BY <1>2, <1>3, WholeCut
<1> HIDE DEF old
<1>5. PICK r \in Bytes : r = p \o u /\ Whole(r) /\ Len(r) = n + m
  <2>1. p \o u \in Bytes /\ Len(p \o u) = Len(p) + Len(u) /\ Whole(p \o u)
    BY <1>2, <1>4, WholeJoin
  <2> QED BY ONLY <1>2, <1>4, <2>1
<1>6. PICK s \in Bytes : s = r \o q /\ Whole(s) /\ Edge(s, n + m) /\ Len(s) = (n + m) + (L - n)
  <2>1. r \o q \in Bytes /\ Len(r \o q) = Len(r) + Len(q) /\ Whole(r \o q) /\ Edge(r \o q, Len(r))
    BY <1>4, <1>5, WholeJoin
  <2> QED BY ONLY <1>4, <1>5, <2>1
<1>7. CASE L + m < FieldBytes
  <2>1. Insert(f, c) = Edited(f, s, n + m)
    BY <1>1, <1>2, <1>4, <1>5, <1>6, <1>7 DEF Insert, old
  <2>2. n + m \in 0..Len(s) /\ Len(s) < FieldBytes
    BY <1>3, <1>6, <1>7
  <2> QED BY <1>6, <2>1, <2>2, EditedOK
<1>8. CASE ~(L + m < FieldBytes)
  <2>1. Insert(f, c) = Edited(f, b, n)
    BY <1>1, <1>2, <1>8 DEF Insert, old
  <2> QED BY <1>2, <1>3, <2>1, EditedOK
<1> QED BY <1>7, <1>8

-----------------------------------------------------------------------------
(* The part of a field that the text screen shows.                         *)

\* The characters from i on are those that g finds and those from m on.
JoinedAt(f, g, i, m) == f[i] = g[i] \o f[m]

\* The characters of a text are those before an edge and those after it.
LEMMA StartsCut ==
  ASSUME NEW buf \in Bytes, Whole(buf), NEW e \in 0..Len(buf), Edge(buf, e),
         NEW f, StartsFrom(f, buf, 1)
  PROVE  /\ Starts(SubSeq(buf, 1, e)) \in Seq(1..e)
         /\ f[1] = Starts(SubSeq(buf, 1, e)) \o f[e + 1]
<1>0. PICK L \in Nat : L = Len(buf)
  BY LenProperties DEF Bytes
<1>1. PICK s \in Bytes : s = SubSeq(buf, 1, e) /\ Whole(s) /\ Len(s) = e /\ \A i \in 1..e : s[i] = buf[i]
  BY WholeCut
<1>2. PICK g : StartsFrom(g, s, 1) /\ Starts(s) = g[1]
  BY <1>1, StartsWalk
<1>3. e + 1 \in 1..(L + 1) /\ f[e + 1] \in Seq(1..L)
  BY <1>0 DEF StartsFrom
<1>4. \A i \in 1..(e + 1) : g[i] \in Seq(1..e)
  BY <1>1, <1>2 DEF StartsFrom
<1>5. g[e + 1] = <<>>
  <2>1. g[Len(s) + 1] = <<>>
    BY ONLY <1>1, <1>2, StartsEnd
  <2> QED BY <2>1, <1>1
<1> DEFINE T == {k \in Nat : \A i \in 0..e : i + k >= e /\ Edge(buf, i) => JoinedAt(f, g, i + 1, e + 1)}
<1>6. 0 \in T
  <2> SUFFICES ASSUME NEW i \in 0..e, i + 0 >= e PROVE JoinedAt(f, g, i + 1, e + 1)
    OBVIOUS
  <2>1. i = e
    OBVIOUS
  <2>2. <<>> \o f[e + 1] = f[e + 1]
    BY <1>3, ConcatEmptySeq
  <2> QED BY <2>1, <2>2, <1>5 DEF JoinedAt
<1>7. ASSUME NEW k \in Nat, k \in T PROVE k + 1 \in T
  <2> SUFFICES ASSUME NEW i \in 0..e, i + (k + 1) >= e, Edge(buf, i)
               PROVE  JoinedAt(f, g, i + 1, e + 1)
    OBVIOUS
  <2>1. CASE i = e
    <3>1. <<>> \o f[e + 1] = f[e + 1]
      BY <1>3, ConcatEmptySeq
    <3> QED BY <2>1, <3>1, <1>5 DEF JoinedAt
  <2>2. CASE i # e
    <3>1. PICK c \in 1..e : c = i + 1
      BY <2>2
    <3>2. c \in 1..L /\ i # L
      BY <3>1, <1>0
    <3>3. CharAt(buf, c)
      BY <3>1, <3>2, <1>0 DEF Edge, Whole
    <3>4. PICK m \in (c + 1)..(L + 1) : m = c + Taken(buf, c)
      BY <3>2, <1>0, TakenRange
    <3>5. SoundAt(buf, c) /\ Edge(buf, m - 1)
      BY <3>2, <3>3, <3>4, <1>0, CharTaken
    <3>6. m - 1 <= e
      <4> SUFFICES ASSUME e + 1 <= m - 1 PROVE FALSE
        BY <3>4
      <4>0. PICK a \in 1..4 : a = Announced(buf[c])
        BY <3>2, <1>0, TakenRange
      <4>1. e + 1 \in (c + 1)..(c + a - 1) /\ e # L
        BY <3>1, <3>4, <3>5, <1>0, <4>0 DEF SoundAt
      <4> QED BY <4>0, <4>1, <3>3, <1>0 DEF CharAt, Edge
    <3>7. Taken(s, c) = Taken(buf, c)
      <4>1. PICK a \in 1..4 : a = Announced(buf[c])
        BY <3>2, <1>0, TakenRange
      <4>2. s[c] = buf[c] /\ c + a = m
        BY <1>1, <3>4, <3>5, <4>1 DEF SoundAt
      <4>3. c + a - 1 <= e /\ \A j \in (c + 1)..(c + a - 1) : Continues(s[j])
        <5>1. c + a - 1 <= e
          BY <4>2, <3>6
        <5>2. \A j \in (c + 1)..(c + a - 1) : Continues(buf[j])
          BY <3>3, <4>1 DEF CharAt
        <5>3. \A j \in (c + 1)..(c + a - 1) : s[j] = buf[j]
          <6>1. \A j \in (c + 1)..(c + a - 1) : j \in 1..e
            BY <5>1, <3>1
          <6> QED BY <6>1, <1>1
        <5> QED BY <5>1, <5>2, <5>3
      <4>4. Taken(s, c) = a
        BY <1>1, <4>1, <4>2, <4>3 DEF Taken
      <4> QED BY <3>5, <4>1, <4>4 DEF SoundAt
    <3>8. f[c] = <<c>> \o f[m]
      BY <3>2, <3>4, <1>0, SoundStep
    <3>9. g[c] = <<c>> \o g[m]
      <4>1. c \in 1..Len(s) /\ m = c + Taken(s, c)
        BY <3>1, <3>4, <3>7, <1>1
      <4>2. g[c] = <<c>> \o g[c + Taken(s, c)]
        BY ONLY <4>1, <1>1, <1>2, SoundStep
      <4> QED BY <4>1, <4>2
    <3>10. m - 1 \in 0..e /\ (m - 1) + k >= e /\ (m - 1) + 1 = m
      BY <3>1, <3>4, <3>6
    <3>11. f[m] = g[m] \o f[e + 1]
      BY <3>5, <3>10, <1>7 DEF JoinedAt
    <3>12. g[m] \in Seq(Nat) /\ f[e + 1] \in Seq(Nat) /\ <<c>> \in Seq(Nat)
      <4>1. g[m] \in Seq(1..e)
        BY <3>10, <1>4
      <4>2. 1..e \subseteq Nat /\ 1..L \subseteq Nat
        OBVIOUS
      <4> QED BY <4>1, <4>2, <1>3, SeqMonotonic
    <3>13. (<<c>> \o g[m]) \o f[e + 1] = <<c>> \o (g[m] \o f[e + 1])
      <4>1. PICK S : S = Nat
        OBVIOUS
      <4>2. PICK x \in Seq(S), y \in Seq(S), z \in Seq(S) : x = <<c>> /\ y = g[m] /\ z = f[e + 1]
        BY <3>12, <4>1
      <4>3. (x \o y) \o z = x \o (y \o z)
        BY ONLY ConcatAssociative
      <4> QED BY <4>2, <4>3
    <3>14. f[c] = g[c] \o f[e + 1]
      BY <3>8, <3>9, <3>11, <3>13
    <3> QED BY <3>1, <3>14 DEF JoinedAt
  <2> QED BY <2>1, <2>2
<1> HIDE DEF T
<1>8. e \in T
  <2>1. \A k \in Nat : k \in T
    BY <1>6, <1>7, NatSet
  <2> QED BY <2>1
<1>9. Edge(buf, 0)
  BY <1>0 DEF Whole, Edge
<1>10. 0 \in 0..e /\ 0 + e >= e /\ 0 + 1 = 1
  OBVIOUS
<1>11. f[1] = g[1] \o f[e + 1]
  BY <1>8, <1>9, <1>10 DEF T, JoinedAt
<1>12. g[1] \in Seq(1..e)
  BY <1>4
<1> QED BY <1>1, <1>2, <1>11, <1>12

LEMMA FieldShown ==
  ASSUME NEW f, FieldOK(f)
  PROVE  /\ WholeChars(f.buf) /\ WholeChars(SubSeq(f.buf, 1, f.cur))
         /\ f.cur <= Len(f.buf) /\ Len(f.buf) < FieldBytes
         /\ ShownFrom(f) <= Len(f.buf) => ~Continues(f.buf[ShownFrom(f)])
         /\ ShownFrom(f) <= f.cur + 1 /\ CursorColumn(f) < FieldColumns
<1>0. PICK b \in Bytes, n \in Nat, L \in Nat : b = f.buf /\ n = f.cur /\ L = Len(b)
  BY LenProperties DEF FieldOK, Bytes
<1>1. n \in 0..L /\ Whole(b) /\ Edge(b, n) /\ L < FieldBytes
  BY <1>0 DEF FieldOK
<1>2. WholeChars(b) /\ WholeChars(SubSeq(b, 1, n))
  BY <1>0, <1>1, WholeCut, WholeIsWhole
<1>3. PICK h : StartsFrom(h, b, 1) /\ Starts(b) = h[1]
  BY StartsWalk
<1>4. PICK p \in Seq(1..n) : p = Starts(SubSeq(b, 1, n)) /\ h[1] = p \o h[n + 1]
  BY <1>0, <1>1, <1>3, StartsCut
<1>5. PICK r \in Seq(1..L) : r = h[n + 1]
  BY <1>0, <1>1, <1>3 DEF StartsFrom
<1>6. PICK s \in Seq(1..L) : s = h[1]
  BY <1>0, <1>3 DEF StartsFrom
<1>7. PICK c \in Nat : c = Len(p)
  BY LenProperties
<1>8. Len(s) = c + Len(r) /\ Len(r) \in Nat /\ \A i \in 1..c : s[i] = p[i]
  <2>1. p \in Seq(Nat) /\ r \in Seq(Nat)
    <3>1. 1..n \subseteq Nat /\ 1..L \subseteq Nat
      OBVIOUS
    <3> QED BY <3>1, SeqMonotonic
  <2>2. s = p \o r
    BY <1>4, <1>5, <1>6
  <2>3. /\ Len(p \o r) = Len(p) + Len(r)
        /\ \A i \in 1..(Len(p) + Len(r)) : (p \o r)[i] = IF i <= Len(p) THEN p[i] ELSE r[i - Len(p)]
    BY ONLY <2>1, ConcatProperties, Zenon
  <2>4. Len(r) \in Nat
    BY <2>1, LenProperties
  <2> QED BY ONLY <2>2, <2>3, <2>4, <1>7
<1>9. \A i \in 1..c : s[i] \in 1..n
  BY <1>7, <1>8, ElementOfSeq
<1>10. n < L => Len(r) # 0 /\ s[c + 1] = n + 1
  <2> SUFFICES ASSUME n < L PROVE Len(r) # 0 /\ s[c + 1] = n + 1
    OBVIOUS
  <2>1. PICK a \in 1..L : a = n + 1
    OBVIOUS
  <2>2. PICK m \in 1..(L + 1) : m = a + Taken(b, a)
    BY <1>0, <2>1, TakenRange
  <2>3. r = <<a>> \o h[m] /\ h[m] \in Seq(1..L)
    BY <1>0, <1>3, <1>5, <2>1, <2>2, SoundStep DEF StartsFrom
  <2>4. PICK t \in Seq(1..L), o \in Seq(1..L) : t = h[m] /\ o = <<a>>
    <3>1. <<a>> \in Seq(1..L)
      OBVIOUS
    <3> QED BY <2>3, <3>1
  <2>5. Len(o) = 1 /\ o[1] = a
    BY <2>4
  <2>6. /\ Len(o \o t) = Len(o) + Len(t)
        /\ \A i \in 1..(Len(o) + Len(t)) : (o \o t)[i] = IF i <= Len(o) THEN o[i] ELSE t[i - Len(o)]
    BY ConcatProperties
  <2>7. Len(t) \in Nat
    BY LenProperties
  <2>8. Len(r) # 0 /\ r[1] = a
    <3>1. r = o \o t /\ 1 \in 1..(Len(o) + Len(t)) /\ 1 <= Len(o)
      BY <2>3, <2>4, <2>5, <2>7
    <3> QED BY ONLY <2>5, <2>6, <2>7, <3>1
  <2>9. s[c + 1] = r[1]
    <3>1. p \in Seq(Nat) /\ r \in Seq(Nat)
      <4>1. 1..n \subseteq Nat /\ 1..L \subseteq Nat
        OBVIOUS
      <4> QED BY <4>1, SeqMonotonic
    <3>2. s = p \o r
      BY <1>4, <1>5, <1>6
    <3>3. \A i \in 1..(Len(p) + Len(r)) : (p \o r)[i] = IF i <= Len(p) THEN p[i] ELSE r[i - Len(p)]
      BY ONLY <3>1, ConcatProperties, Zenon
    <3>4. c + 1 \in 1..(Len(p) + Len(r)) /\ ~(c + 1 <= Len(p)) /\ (c + 1) - Len(p) = 1
      BY <1>7, <1>8, <2>8
    <3> QED BY <3>2, <3>3, <3>4
  <2> QED BY <2>1, <2>8, <2>9
<1>11. PICK k \in Nat : k = FirstChar(f) /\ k <= c /\ c - k < FieldColumns
  <2>1. CharsBefore(f) = c /\ FieldColumns \in Nat \ {0}
    BY <1>0, <1>4, <1>7, FieldAssumption DEF CharsBefore
  <2>2. c >= FieldColumns => c - FieldColumns + 1 \in Nat
    BY <2>1
  <2>3. FirstChar(f) \in Nat /\ FirstChar(f) <= c /\ c - FirstChar(f) < FieldColumns
    BY <2>1, <2>2 DEF FirstChar
  <2> QED BY <2>3
<1>12. CursorColumn(f) < FieldColumns
  BY <1>0, <1>4, <1>7, <1>11 DEF CursorColumn, CharsBefore
<1>13. CASE k < Len(s)
  <2>1. ShownFrom(f) = s[k + 1] /\ k + 1 \in 1..Len(s)
    BY <1>0, <1>3, <1>6, <1>8, <1>11, <1>13 DEF ShownFrom
  <2>2. Sound(b, s)
    <3>1. Edge(b, 0) /\ 0 \in 0..L /\ 0 + 1 = 1
      BY <1>0, <1>1 DEF Edge, Whole
    <3> QED BY <3>1, <1>0, <1>1, <1>3, <1>6, WholeSound
  <2>3. ~Continues(b[s[k + 1]])
    BY <2>1, <2>2 DEF Sound, SoundAt
  <2>4. s[k + 1] <= n + 1
    <3>1. CASE k < c
      <4>1. k + 1 \in 1..c
        BY <3>1
      <4>2. s[k + 1] \in 1..n
        BY <4>1, <1>9
      <4> QED BY <4>2
    <3>2. CASE k = c
      <4>1. CASE n < L
        BY <3>2, <4>1, <1>10
      <4>2. CASE n = L
        <5>1. s[k + 1] \in 1..L
          BY <2>1, ElementOfSeq
        <5> QED BY <4>2, <5>1
      <4> QED BY <4>1, <4>2, <1>1
    <3> QED BY <3>1, <3>2, <1>11
  <2> QED BY <1>0, <1>1, <1>2, <1>12, <2>1, <2>3, <2>4
<1>14. CASE ~(k < Len(s))
  <2>1. ShownFrom(f) = L + 1
    BY <1>0, <1>3, <1>6, <1>11, <1>14 DEF ShownFrom
  <2>2. Len(r) = 0
    BY <1>8, <1>11, <1>14
  <2>3. n = L
    BY <2>2, <1>1, <1>10
  <2> QED BY <1>0, <1>1, <1>2, <1>12, <2>1, <2>3
<1> QED BY <1>13, <1>14

-----------------------------------------------------------------------------
(* What a machine and a user may bring.                                    *)

LEMMA SetupFacts ==
  ASSUME setup \in Setups
  PROVE  /\ setup.text \in BOOLEAN /\ setup.pointer \in BOOLEAN /\ (setup.text => ~setup.pointer)
         /\ setup.places \subseteq Cells /\ setup.chars \subseteq CodePoints
         /\ setup.lists \subseteq Seq(DiskRec) /\ setup.tables \subseteq Loaded
         /\ \A t \in setup.tables : t.notes < IF setup.text THEN TextRows - 1 ELSE BodyCells
         /\ setup.asks \subseteq Asked
         /\ \A a \in setup.asks :
              WholeChars(a.buf) /\ Len(a.buf) < FieldBytes /\ (a.kind = "menu" => a.sel <= a.items)
BY SetupsAssumption

\* The places of the screen, one below the other.
LEMMA Places ==
  /\ BarTop \in Nat /\ BodyTop \in Nat /\ Message \in Nat
  /\ 3 < BarTop /\ BarTop < BodyTop /\ BodyTop < Message
  /\ BarTop = 3 + ListCells /\ BodyTop = BarTop + BarCells /\ Message = BodyTop + BodyCells
  /\ Message >= 6 /\ Buttons \subseteq Cells /\ StopCell \in Cells /\ StopCell - 1 \in Cells
<1>1. ListCells \in Nat \ {0} /\ BarCells \in Nat \ {0} /\ BodyCells \in Nat \ {0}
  BY ScreenAssumption
<1>2. BarTop = 3 + ListCells /\ BodyTop = BarTop + BarCells /\ Message = BodyTop + BodyCells
  BY DEF BarTop, BodyTop, Message, ListTop
<1>3. Message \in Nat /\ Message >= 6
  BY <1>1, <1>2
<1>4. StopCell \in Cells /\ StopCell - 1 \in Cells
  BY <1>3 DEF StopCell, Cells
<1>5. Buttons \subseteq Cells
  BY <1>3 DEF Buttons, Quit, New, Rescan, Cells
<1> QED BY <1>1, <1>2, <1>3, <1>4, <1>5

\* A dialog is on the screen.
LEMMA BoxOnScreen ==
  ASSUME NEW d, d.kind \in Kinds, d.items \in Nat
  PROVE  /\ MenuHeight(d) \in Nat \ {0} /\ Extra(d) \in Nat /\ ButtonCount(d) \in 1..2
         /\ d.kind = "menu" => Extra(d) = MenuHeight(d)
         /\ BoxTop(d) \in Nat /\ BoxArea(d) = BoxTop(d)..(BoxTop(d) + Extra(d) + ButtonCount(d))
         /\ BoxArea(d) \subseteq Cells
         /\ ExtraArea(d) = (BoxTop(d) + 1)..(BoxTop(d) + Extra(d)) /\ ExtraArea(d) \subseteq BoxArea(d)
<1>0. MenuCells \in Nat \ {0} /\ MenuCells <= Message - 2 /\ Message \in Nat /\ Message >= 6
  BY ScreenAssumption, Places
<1>1. MenuHeight(d) \in Nat \ {0} /\ MenuHeight(d) <= MenuCells
  BY <1>0 DEF MenuHeight, AtLeastOne
<1>2. ButtonCount(d) \in 1..2
  BY DEF ButtonCount
<1>3. Extra(d) \in Nat /\ Extra(d) <= MenuCells /\ (d.kind = "menu" => Extra(d) = MenuHeight(d))
  BY <1>0, <1>1 DEF Extra, Kinds
<1>4. PICK e \in Nat, b \in 1..2 : e = Extra(d) /\ b = ButtonCount(d) /\ e <= Message - 2
  BY <1>0, <1>2, <1>3
<1>5. BoxTop(d) \in Nat /\ BoxTop(d) + e + b <= Message
  BY <1>0, <1>4 DEF BoxTop
<1>6. PICK t \in Nat : t = BoxTop(d)
  BY <1>5
<1>7. BoxArea(d) = t..(t + e + b) /\ ExtraArea(d) = (t + 1)..(t + e)
  BY <1>4, <1>6 DEF BoxArea, ExtraArea, Part
<1>8. t..(t + e + b) \subseteq Cells /\ (t + 1)..(t + e) \subseteq t..(t + e + b)
  BY <1>0, <1>4, <1>5, <1>6 DEF Cells
<1> QED BY <1>1, <1>2, <1>3, <1>4, <1>6, <1>7, <1>8

LEMMA ProposedOK ==
  ASSUME NEW buf \in Bytes, WholeChars(buf), Len(buf) < FieldBytes
  PROVE  FieldOK(Proposed(buf))
<1>1. Len(buf) \in Nat /\ Whole(buf)
  BY WholeIsWhole, LenProperties DEF Bytes
<1>2. Proposed(buf) \in FieldRec /\ Proposed(buf).buf = buf /\ Proposed(buf).cur = Len(buf)
  BY <1>1 DEF Proposed, FieldRec
<1> QED BY <1>1, <1>2 DEF FieldOK, Edge

LEMMA NoFieldOK == FieldOK(Proposed(<<>>))
<1>1. <<>> \in Bytes /\ Len(<<>>) = 0
  BY DEF Bytes
<1>2. Whole(<<>>)
  BY <1>1 DEF Whole
<1>3. WholeChars(<<>>) /\ Len(<<>>) < FieldBytes
  BY <1>1, <1>2, WholeIsWhole, FieldAssumption
<1> QED BY <1>1, <1>3, ProposedOK

-----------------------------------------------------------------------------
(* The inductive invariant.                                                *)

\* The window: what is selected is there, and without a disk there is no table.
WinRec ==
  [disks: Seq(DiskRec), dsel: Nat \ {0}, dtop: Nat \ {0}, loaded: BOOLEAN, rows: Seq(RowRec), notes: Nat,
   sel: Nat \ {0}, top: Nat \ {0}, focus: {"disks", "rows"}, changed: BOOLEAN, msg: Nat, hover: Int]

WinOK(text, w) ==
  /\ w \in WinRec
  /\ w.disks # <<>> => w.dsel <= Len(w.disks)
  /\ w.disks = <<>> => w.rows = <<>> /\ ~w.loaded
  /\ w.rows # <<>> => w.sel <= Len(w.rows)
  /\ w.notes < IF text THEN TextRows - 1 ELSE BodyCells

\* The two lists are scrolled to what is selected.
Scrolls(text, w) ==
  IF text THEN w.top <= w.sel /\ w.sel < w.top + TextVisible(w)
  ELSE w.disks # <<>> =>
         /\ w.dtop <= w.dsel /\ (w.dtop = w.dsel \/ ListFits(w, w.dtop))
         /\ w.top <= w.sel /\ w.sel < w.top + VisibleRows(w)

\* A dialog: what is asked for, and what an answer may lead to.
Reasons == {"stop", "action", "quit", "rescan", "disk"}
DlgRec(saved) ==
  [kind: Kinds \cup {"none", "closed"}, items: Nat, sel: Nat \ {0}, top: Int, field: FieldRec,
   then: Reasons \cup {"none"}, to: Nat, saved: {saved}]

MenuOK(d) ==
  d.kind = "menu" => d.sel <= d.items /\ d.top <= d.sel /\ d.sel < d.top + MenuHeight(d)

DlgOK(d, w, p) ==
  /\ d \in DlgRec(d.saved) /\ FieldOK(d.field) /\ MenuOK(d)
  /\ d.kind \in Kinds =>
       /\ d.then \in Reasons /\ (p # -1 <=> d.then = "stop")
       /\ d.then = "action" => w.disks # <<>>
       /\ d.then = "disk" => d.to \in 1..Len(w.disks)

\* What a dialog covers is a screen of the window, not one of a dialog.
BoxNames == {"box", "item", "field", "dbutton"}
CellOK(x) == {"of", "dim"} \subseteq DOMAIN x /\ x.of \notin BoxNames
NoBox(cv) == \A c \in Cells : CellOK(cv[c])

OnCells(cv) == cv = [c \in Cells |-> cv[c]]

\* The dialog as it is, over what it covers.
DlgDrawn(text, cv, d) ==
  /\ \A c \in BoxArea(d) : cv[c] = BoxCell(d, c)
  /\ ~text => /\ NoBox(d.saved)
              /\ \A c \in Cells \ BoxArea(d) : cv[c] = Dimmed(d.saved[c])

\* The window with the box of a wipe, when that has been drawn.
BoxOver(w, p) == IF p = Begun THEN Drawing(w) ELSE WipeDrawn(Drawing(w), p)

WindowInv ==
  /\ setup \in Setups
  /\ WinOK(setup.text, win)
  /\ DlgOK(dlg, win, wipe)
  /\ OnCells(canvas)
  /\ ~Closed => display = Overlaid(canvas, px, setup.pointer)
  /\ InWindow => canvas = Drawing(win) /\ Scrolls(setup.text, win)
  /\ Starting => canvas = Drawing(win)
  /\ Wiping /\ ~setup.text => canvas = WipeDrawn(Drawing(win), wipe)
  /\ dlg.kind \in Kinds => DlgDrawn(setup.text, canvas, dlg)
  /\ dlg.kind \in Kinds /\ dlg.then = "stop" /\ ~setup.text => dlg.saved = BoxOver(win, wipe)

-----------------------------------------------------------------------------
(* Cells.                                                                  *)

LEMMA CellIs ==
  ASSUME NEW of, NEW n, NEW look, NEW text
  PROVE  /\ Cell(of, n, look, text).of = of /\ Cell(of, n, look, text).n = n
         /\ Cell(of, n, look, text).look = look /\ Cell(of, n, look, text).dim = FALSE
         /\ (of \notin BoxNames => CellOK(Cell(of, n, look, text)))
BY DEF Cell, CellOK

LEMMA ShownCellOK ==
  ASSUME NEW of \in {"disk", "span", "note", "norows", "row"}, NEW n, NEW look, NEW text
  PROVE  CellOK(Cell(of, n, look, text)) /\ Cell(of, n, look, text).of = of
BY DEF Cell, CellOK, BoxNames

LEMMA BlankIs == CellOK(Blank) /\ Blank.of = "blank" /\ Blank.look = "plain" /\ Blank.dim = FALSE
BY DEF Blank, Cell, CellOK, BoxNames

LEMMA DimmedIs ==
  ASSUME NEW x, CellOK(x)
  PROVE  Dimmed(x).of = x.of /\ Dimmed(x).dim = TRUE
BY DEF Dimmed, CellOK

LEMMA DiskCellOK ==
  ASSUME NEW w, NEW c
  PROVE  CellOK(DiskCell(w, c)) /\ DiskCell(w, c).of \in {"blank", "disk"}
<1> DEFINE shown == {i \in w.dtop..Len(w.disks) : c \in Part(DiskTop(w, w.dtop, i), w.disks[i].height)}
<1>1. CASE shown = {}
  BY <1>1, BlankIs DEF DiskCell
<1>2. CASE shown # {}
  <2> DEFINE i == CHOOSE i \in shown : TRUE
  <2>1. PICK n, l, t : DiskCell(w, c) = Cell("disk", n, l, t)
    BY <1>2 DEF DiskCell
  <2>2. CellOK(Cell("disk", n, l, t)) /\ Cell("disk", n, l, t).of = "disk"
    BY ShownCellOK
  <2> QED BY <2>1, <2>2
<1> QED BY <1>1, <1>2

LEMMA BarCellOK ==
  ASSUME NEW w, NEW c
  PROVE  CellOK(BarCell(w, c)) /\ BarCell(w, c).of \in {"blank", "span"}
<1>1. (\E l : BarCell(w, c) = [Blank EXCEPT !.look = l]) \/ (\E n, l, t : BarCell(w, c) = Cell("span", n, l, t))
  BY DEF BarCell
<1>2. ASSUME NEW l PROVE CellOK([Blank EXCEPT !.look = l]) /\ [Blank EXCEPT !.look = l].of = "blank"
  BY DEF Blank, Cell, CellOK, BoxNames
<1>3. ASSUME NEW n, NEW l, NEW t PROVE CellOK(Cell("span", n, l, t)) /\ Cell("span", n, l, t).of = "span"
  BY ShownCellOK
<1>4. CASE \E l : BarCell(w, c) = [Blank EXCEPT !.look = l]
  BY <1>2, <1>4
<1>5. CASE \E n, l, t : BarCell(w, c) = Cell("span", n, l, t)
  <2>1. PICK n, l, t : BarCell(w, c) = Cell("span", n, l, t)
    BY <1>5
  <2>2. CellOK(Cell("span", n, l, t)) /\ Cell("span", n, l, t).of = "span"
    BY <1>3
  <2> QED BY <2>1, <2>2
<1> QED BY <1>1, <1>4, <1>5

LEMMA RowCellOK ==
  ASSUME NEW w, NEW c
  PROVE  CellOK(RowCell(w, c)) /\ RowCell(w, c).of \in {"blank", "note", "norows", "row"}
<1>1. RowCell(w, c) = Blank \/ \E of \in {"note", "norows", "row"} : \E n, l, t : RowCell(w, c) = Cell(of, n, l, t)
  BY DEF RowCell
<1>2. CASE RowCell(w, c) = Blank
  BY <1>2, BlankIs
<1>3. CASE RowCell(w, c) # Blank
  <2>1. PICK of \in {"note", "norows", "row"} : \E n, l, t : RowCell(w, c) = Cell(of, n, l, t)
    BY <1>1, <1>3
  <2>3. PICK n, l, t : RowCell(w, c) = Cell(of, n, l, t)
    BY <2>1
  <2>2. CellOK(Cell(of, n, l, t)) /\ Cell(of, n, l, t).of = of
    BY ShownCellOK
  <2> QED BY <2>2, <2>3
<1> QED BY <1>2, <1>3

\* The window is on all cells, and is no dialog.
LEMMA PictureOK ==
  ASSUME NEW w
  PROVE  NoBox(Picture(w)) /\ OnCells(Picture(w))
<1>1. OnCells(Picture(w))
  BY DEF Picture, OnCells
<1>2. ASSUME NEW c \in Cells PROVE CellOK(Picture(w)[c])
  <2>1. CASE c \in Buttons
    BY <2>1, CellIs DEF Picture, BoxNames
  <2>2. CASE c \notin Buttons /\ c \in ListArea
    BY <2>2, DiskCellOK DEF Picture
  <2>3. CASE c \notin Buttons /\ c \notin ListArea /\ c = Message
    BY <2>3, CellIs DEF Picture, BoxNames
  <2>4. CASE c \notin Buttons /\ c \notin ListArea /\ c # Message
    BY <2>4, BlankIs, BarCellOK, RowCellOK DEF Picture
  <2> QED BY <2>1, <2>2, <2>3, <2>4
<1> QED BY <1>1, <1>2 DEF NoBox

LEMMA TextPictureOnCells ==
  ASSUME NEW w
  PROVE  OnCells(TextPicture(w))
BY DEF TextPicture, OnCells

\* A wipe has two cells of its own and leaves the other ones.
LEMMA WipeDrawnIs ==
  ASSUME NEW cv, OnCells(cv), NEW p
  PROVE  /\ OnCells(WipeDrawn(cv, p))
         /\ \A c \in Cells : WipeDrawn(cv, p)[c] =
              IF c = StopCell THEN Cell("stop", 0, "plain", <<>>)
              ELSE IF c = StopCell - 1 THEN Cell("wipe", p, "plain", <<>>) ELSE cv[c]
         /\ NoBox(cv) => NoBox(WipeDrawn(cv, p))
<1>1. PICK a \in Cells : a = StopCell
  BY Places
<1>2. PICK b \in Cells : b = StopCell - 1 /\ a # b
  BY <1>1, Places DEF Cells
<1>3. PICK x, y : x = Cell("wipe", p, "plain", <<>>) /\ y = Cell("stop", 0, "plain", <<>>)
  OBVIOUS
<1>4. WipeDrawn(cv, p) = [cv EXCEPT ![b] = x, ![a] = y]
  BY <1>1, <1>2, <1>3 DEF WipeDrawn
<1>5. cv = [c \in Cells |-> cv[c]]
  BY DEF OnCells
<1>6. WipeDrawn(cv, p) = [c \in Cells |-> IF c = a THEN y ELSE IF c = b THEN x ELSE cv[c]]
  BY <1>1, <1>2, <1>4, <1>5
<1>7. CellOK(x) /\ CellOK(y)
  BY <1>3, CellIs DEF BoxNames
<1>8. OnCells(WipeDrawn(cv, p))
  BY <1>6 DEF OnCells
<1>9. NoBox(cv) => NoBox(WipeDrawn(cv, p))
  BY <1>6, <1>7 DEF NoBox
<1> QED BY <1>1, <1>2, <1>3, <1>6, <1>8, <1>9

\* Drawing the progress of a wipe over its box leaves the last one.
LEMMA WipeAgain ==
  ASSUME NEW cv, OnCells(cv), NEW p, NEW q
  PROVE  WipeDrawn(WipeDrawn(cv, p), q) = WipeDrawn(cv, q)
<1>1. PICK u : u = WipeDrawn(cv, p) /\ OnCells(u)
  BY WipeDrawnIs
<1>2. PICK v : v = WipeDrawn(u, q) /\ OnCells(v)
  BY <1>1, WipeDrawnIs
<1>3. PICK z : z = WipeDrawn(cv, q) /\ OnCells(z)
  BY WipeDrawnIs
<1>4. ASSUME NEW c \in Cells PROVE v[c] = z[c]
  <2>1. u[c] = IF c = StopCell THEN Cell("stop", 0, "plain", <<>>)
               ELSE IF c = StopCell - 1 THEN Cell("wipe", p, "plain", <<>>) ELSE cv[c]
    BY <1>1, WipeDrawnIs
  <2>2. v[c] = IF c = StopCell THEN Cell("stop", 0, "plain", <<>>)
               ELSE IF c = StopCell - 1 THEN Cell("wipe", q, "plain", <<>>) ELSE u[c]
    BY <1>1, <1>2, WipeDrawnIs
  <2>3. z[c] = IF c = StopCell THEN Cell("stop", 0, "plain", <<>>)
               ELSE IF c = StopCell - 1 THEN Cell("wipe", q, "plain", <<>>) ELSE cv[c]
    BY <1>3, WipeDrawnIs
  <2> QED BY <2>1, <2>2, <2>3
<1>5. v = z
  BY <1>2, <1>3, <1>4 DEF OnCells
<1> QED BY <1>1, <1>2, <1>3, <1>5

-----------------------------------------------------------------------------
(* What is shown of the two lists.                                         *)

LEMMA ScrollIn ==
  ASSUME NEW sel \in Nat \ {0}, NEW top \in Nat \ {0}, NEW n \in Nat \ {0}
  PROVE  /\ Scroll(sel, top, n) \in Nat \ {0}
         /\ Scroll(sel, top, n) <= sel /\ sel < Scroll(sel, top, n) + n
BY DEF Scroll

\* Where the disks of a list begin: only the disks count.
Tops(disks, t, i) ==
  LET top[j \in t..i] == IF j = t THEN ListTop ELSE top[j - 1] + disks[j - 1].height + 1
  IN  top[i]

LEMMA TopsSame ==
  ASSUME NEW w, NEW t, NEW i
  PROVE  DiskTop(w, t, i) = Tops(w.disks, t, i)
BY DEF DiskTop, Tops

LEMMA FitsSame ==
  ASSUME NEW w, NEW v, v.disks = w.disks, v.dsel = w.dsel, NEW t
  PROVE  ListFits(v, t) <=> ListFits(w, t)
<1>1. DiskTop(w, t, w.dsel) = Tops(w.disks, t, w.dsel) /\ DiskTop(v, t, v.dsel) = Tops(v.disks, t, v.dsel)
  BY TopsSame
<1>2. DiskTop(v, t, v.dsel) = DiskTop(w, t, w.dsel)
  BY <1>1
<1> QED BY <1>2 DEF ListFits

LEMMA FirstDiskIn ==
  ASSUME NEW w \in WinRec, w.disks # <<>> => w.dsel <= Len(w.disks)
  PROVE  /\ FirstDisk(w) \in Nat \ {0}
         /\ w.disks # <<>> =>
              FirstDisk(w) <= w.dsel /\ (FirstDisk(w) = w.dsel \/ ListFits(w, FirstDisk(w)))
<1>0. PICK d \in Nat \ {0}, u \in Nat \ {0} : d = w.dsel /\ u = w.dtop
  BY DEF WinRec
<1> DEFINE from == IF w.dsel < w.dtop THEN w.dsel ELSE w.dtop
           S == {t \in from..d : t = d \/ ListFits(w, t)}
<1>1. PICK f \in Nat \ {0} : f = from /\ f <= d
  BY <1>0
<1>2. CASE w.disks = <<>>
  BY <1>1, <1>2 DEF FirstDisk
<1>3. CASE w.disks # <<>>
  <2>1. S \in SUBSET Nat /\ d \in S
    BY <1>0, <1>1
  <2>2. PICK t \in S : \A n \in S : t <= n
    BY <2>1, LeastNatural
  <2>3. t \in f..d /\ (t = d \/ ListFits(w, t))
    BY <2>2, <1>1
  <2>4. \A r \in f..(t - 1) : ~ListFits(w, r)
    <3> SUFFICES ASSUME NEW r \in f..(t - 1), ListFits(w, r) PROVE FALSE
      OBVIOUS
    <3>1. r \in S /\ ~(t <= r)
      BY <2>3, <1>1
    <3> QED BY <3>1, <2>2
  <2> DEFINE P(x) == (x = w.dsel \/ ListFits(w, x)) /\ \A r \in from..(x - 1) : ~ListFits(w, r)
  <2>5. FirstDisk(w) = CHOOSE x \in from..w.dsel : P(x)
    BY <1>3 DEF FirstDisk
  <2>6. t \in from..w.dsel /\ P(t)
    BY <2>3, <2>4, <1>0, <1>1
  <2>7. FirstDisk(w) \in from..w.dsel /\ P(FirstDisk(w))
    <3> HIDE DEF P, from
    <3> QED BY <2>5, <2>6, Zenon
  <2> QED BY <2>7, <1>0, <1>1
<1> QED BY <1>2, <1>3

\* What is drawn of a window scrolls to what is selected and changes nothing else.
LEMMA ToShowOK ==
  ASSUME setup \in Setups, NEW v, WinOK(setup.text, v)
  PROVE  /\ WinOK(setup.text, ToShow(v)) /\ Scrolls(setup.text, ToShow(v))
         /\ ToShow(v).disks = v.disks /\ ToShow(v).rows = v.rows
<1>0. v \in WinRec /\ setup.text \in BOOLEAN
  BY SetupFacts DEF WinOK
<1>1. CASE setup.text
  <2>1. TextVisible(v) \in Nat \ {0}
    BY <1>0, <1>1 DEF TextVisible, AtLeastOne, TextRows, WinRec
  <2>2. PICK x \in Nat \ {0} : x = Scroll(v.sel, v.top, TextVisible(v)) /\ x <= v.sel /\ v.sel < x + TextVisible(v)
    BY <1>0, <2>1, ScrollIn DEF WinRec
  <2>3. PICK u : u = ToShow(v) /\ u = [v EXCEPT !.top = x]
    BY <1>1, <2>2 DEF ToShow, TextScrolled
  <2>4. /\ u \in WinRec /\ u.disks = v.disks /\ u.rows = v.rows /\ u.dsel = v.dsel /\ u.sel = v.sel /\ u.top = x
        /\ u.notes = v.notes /\ u.loaded = v.loaded
    BY <1>0, <2>2, <2>3 DEF WinRec
  <2>5. WinOK(setup.text, u)
    BY <2>4 DEF WinOK
  <2>6. TextVisible(u) = TextVisible(v)
    BY <2>4 DEF TextVisible
  <2>7. Scrolls(setup.text, u)
    BY <1>1, <2>2, <2>4, <2>6 DEF Scrolls
  <2> QED BY <2>3, <2>4, <2>5, <2>7
<1>2. CASE ~setup.text
  <2>1. VisibleRows(v) \in Nat \ {0}
    BY <1>0, <1>2, ScreenAssumption DEF VisibleRows, AtLeastOne, WinOK, WinRec
  <2>2. PICK x \in Nat \ {0} : x = (IF v.disks = <<>> THEN v.top ELSE Scroll(v.sel, v.top, VisibleRows(v)))
                               /\ (v.disks # <<>> => x <= v.sel /\ v.sel < x + VisibleRows(v))
    <3>1. v.sel \in Nat \ {0} /\ v.top \in Nat \ {0}
      BY <1>0 DEF WinRec
    <3>2. /\ Scroll(v.sel, v.top, VisibleRows(v)) \in Nat \ {0}
          /\ Scroll(v.sel, v.top, VisibleRows(v)) <= v.sel /\ v.sel < Scroll(v.sel, v.top, VisibleRows(v)) + VisibleRows(v)
      BY <3>1, <2>1, ScrollIn
    <3> QED BY <3>1, <3>2
  <2>3. PICK y \in Nat \ {0} : y = FirstDisk(v) /\ (v.disks # <<>> => y <= v.dsel /\ (y = v.dsel \/ ListFits(v, y)))
    BY <1>0, FirstDiskIn DEF WinOK
  <2>4. PICK u : u = ToShow(v) /\ u = [v EXCEPT !.dtop = y, !.top = x]
    BY <1>2, <2>2, <2>3 DEF ToShow, Scrolled
  <2>5. /\ u \in WinRec /\ u.disks = v.disks /\ u.rows = v.rows /\ u.dsel = v.dsel /\ u.sel = v.sel /\ u.top = x
        /\ u.dtop = y /\ u.notes = v.notes /\ u.loaded = v.loaded
    BY <1>0, <2>2, <2>3, <2>4 DEF WinRec
  <2>6. WinOK(setup.text, u)
    BY <2>5 DEF WinOK
  <2>7. VisibleRows(u) = VisibleRows(v)
    BY <2>5 DEF VisibleRows
  <2>8. ListFits(u, y) <=> ListFits(v, y)
    BY <2>5, FitsSame
  <2>9. Scrolls(setup.text, u)
    BY <1>2, <2>2, <2>3, <2>5, <2>7, <2>8 DEF Scrolls
  <2> QED BY <2>4, <2>5, <2>6, <2>9
<1> QED BY <1>0, <1>1, <1>2

LEMMA DrawingOK ==
  ASSUME setup \in Setups, NEW v
  PROVE  OnCells(Drawing(v)) /\ (~setup.text => NoBox(Drawing(v)))
BY SetupFacts, PictureOK, TextPictureOnCells DEF Drawing

-----------------------------------------------------------------------------
(* What a handler ends with.                                               *)

LEMMA BoxedIs ==
  ASSUME NEW cv, NEW d, NEW text
  PROVE  /\ OnCells(Boxed(cv, d, text))
         /\ \A c \in Cells : Boxed(cv, d, text)[c] =
              IF c \in BoxArea(d) THEN BoxCell(d, c) ELSE IF text THEN cv[c] ELSE Dimmed(cv[c])
BY DEF Boxed, OnCells

LEMMA NoDialogIs ==
  /\ NoDialog.kind = "none" /\ NoDialog.then = "none" /\ NoDialog \in DlgRec(NoDialog.saved)
  /\ NoDialog.items = 0 /\ NoDialog.sel = 1 /\ NoDialog.top = 1 /\ NoDialog.to = 0
  /\ NoDialog.field = Proposed(<<>>)
  /\ FieldOK(NoDialog.field) /\ "none" \notin Kinds
<1>1. PICK f \in FieldRec : f = Proposed(<<>>) /\ FieldOK(f)
  BY NoFieldOK DEF FieldOK
<1>2. NoDialog = [kind |-> "none", items |-> 0, sel |-> 1, top |-> 1, field |-> f, then |-> "none", to |-> 0,
                  saved |-> <<>>]
  BY <1>1 DEF NoDialog
<1>3. "none" \notin Kinds
  BY DEF Kinds
<1> QED BY <1>1, <1>2, <1>3 DEF DlgRec

\* The window is drawn and waits.
LEMMA BackKeeps ==
  ASSUME setup \in Setups, setup' = setup, NEW v, WinOK(setup.text, v), Back(v)
  PROVE  WindowInv'
<1>1. win' = ToShow(v) /\ canvas' = Drawing(win') /\ display' = Overlaid(canvas', px', setup.pointer)
      /\ dlg' = NoDialog /\ wipe' = -1
  BY DEF Back, Redraw, Show
<1>2. WinOK(setup.text, win') /\ Scrolls(setup.text, win') /\ OnCells(canvas')
  BY <1>1, ToShowOK, DrawingOK
<1>3. dlg'.kind = "none" /\ dlg'.kind \notin Kinds /\ dlg' \in DlgRec(dlg'.saved) /\ FieldOK(dlg'.field)
  BY <1>1, NoDialogIs
<1>4. DlgOK(dlg', win', wipe')
  BY <1>3 DEF DlgOK, MenuOK
<1>5. Drawing(win)' = Drawing(win')
  BY DEF Drawing
<1> QED BY <1>1, <1>2, <1>3, <1>4, <1>5 DEF WindowInv, Starting, Wiping, Begun, BoxOver

\* What may be asked, a wipe being under way or not.
AskOK(d, w, p) ==
  /\ d \in DlgRec(d.saved) /\ d.kind \in Kinds /\ d.sel > 0 /\ d.top > 0 /\ FieldOK(d.field)
  /\ d.kind = "menu" => d.sel <= d.items
  /\ d.then \in Reasons /\ (p # -1 <=> d.then = "stop")
  /\ d.then = "action" => w.disks # <<>>
  /\ d.then = "disk" => d.to \in 1..Len(w.disks)

\* A dialog is opened over a screen of the window.
LEMMA OpenKeeps ==
  ASSUME setup \in Setups, setup' = setup, WinOK(setup.text, win'),
         NEW cv, NEW d, AskOK(d, win', wipe'), Open(cv, d),
         ~setup.text => NoBox(cv),
         ~setup.text /\ d.then = "stop" => cv = BoxOver(win', wipe')
  PROVE  WindowInv'
<1>0. d \in DlgRec(d.saved) /\ d.kind \in Kinds /\ d.items \in Nat /\ d.sel \in Nat \ {0} /\ d.top \in Nat \ {0}
  BY DEF AskOK, DlgRec
<1>1. MenuHeight(d) \in Nat \ {0}
  BY <1>0, BoxOnScreen
<1>2. PICK t \in Nat \ {0} : t = Scroll(d.sel, d.top, MenuHeight(d)) /\ t <= d.sel /\ d.sel < t + MenuHeight(d)
  BY <1>0, <1>1, ScrollIn
<1>3. PICK s : s = IF setup.text THEN <<>> ELSE cv
  OBVIOUS
<1>4. PICK e : e = [d EXCEPT !.top = t, !.saved = s]
  OBVIOUS
<1>5. dlg' = e /\ canvas' = Boxed(cv, e, setup.text) /\ display' = Overlaid(canvas', px', setup.pointer)
  BY <1>2, <1>3, <1>4 DEF Open, Show
<1>6. /\ e \in DlgRec(s) /\ e.saved = s /\ e.kind = d.kind /\ e.items = d.items /\ e.sel = d.sel /\ e.top = t
      /\ e.field = d.field /\ e.then = d.then /\ e.to = d.to
  <2>1. PICK z : d \in DlgRec(z)
    BY <1>0
  <2>2. e \in DlgRec(s)
    <3>1. t \in Int /\ s \in {s}
      OBVIOUS
    <3>2. PICK r : r = [d EXCEPT !.top = t]
      OBVIOUS
    <3>3. r \in DlgRec(z)
      BY ONLY <2>1, <3>1, <3>2 DEF DlgRec
    <3>4. e = [r EXCEPT !.saved = s]
      BY <3>2, <1>4
    <3>5. e \in DlgRec(s)
      BY ONLY <3>1, <3>3, <3>4 DEF DlgRec
    <3> QED BY <3>5
  <2>3. e.saved = s /\ e.kind = d.kind /\ e.items = d.items /\ e.sel = d.sel /\ e.top = t
    BY ONLY <2>1, <1>4 DEF DlgRec
  <2>4. e.field = d.field /\ e.then = d.then /\ e.to = d.to
    BY ONLY <2>1, <1>4 DEF DlgRec
  <2> QED BY <2>2, <2>3, <2>4
<1>7. MenuHeight(e) = MenuHeight(d)
  BY <1>6 DEF MenuHeight
<1>8. DlgOK(e, win', wipe')
  BY <1>2, <1>6, <1>7 DEF DlgOK, MenuOK, AskOK
<1>9. BoxArea(e) \subseteq Cells
  BY <1>0, <1>6, BoxOnScreen
<1>10. DlgDrawn(setup.text, canvas', e) /\ OnCells(canvas')
  <2>1. OnCells(canvas') /\ \A c \in Cells : canvas'[c] =
           IF c \in BoxArea(e) THEN BoxCell(e, c) ELSE IF setup.text THEN cv[c] ELSE Dimmed(cv[c])
    BY <1>5, BoxedIs
  <2> QED BY <2>1, <1>3, <1>6, <1>9, SetupFacts DEF DlgDrawn
<1>11. e.kind \in Kinds /\ e.kind # "none" /\ e.kind # "closed"
  BY <1>0, <1>6 DEF Kinds
<1>12. Drawing(win)' = Drawing(win')
  BY DEF Drawing
<1>13. e.then = "stop" /\ ~setup.text => e.saved = BoxOver(win, wipe)'
  BY <1>3, <1>6, <1>12 DEF BoxOver
<1> QED BY <1>5, <1>8, <1>10, <1>11, <1>13 DEF WindowInv, InWindow, Starting, Wiping, Begun, BoxOver, Closed

\* The dialogs of actions, and the questions of partmgr itself.
LEMMA DialogAsks ==
  ASSUME setup \in Setups, NEW ask \in setup.asks, NEW w, w.disks # <<>>
  PROVE  AskOK(Dialog(ask, "action"), w, -1) /\ Dialog(ask, "action").then = "action"
<1>1. /\ ask \in Asked /\ WholeChars(ask.buf) /\ Len(ask.buf) < FieldBytes
      /\ (ask.kind = "menu" => ask.sel <= ask.items)
  BY SetupFacts
<1>2. ask.kind \in Kinds /\ ask.items \in Nat /\ ask.sel \in Nat \ {0} /\ ask.buf \in Bytes
  BY <1>1 DEF Asked, Bytes
<1>3. PICK f \in FieldRec : f = Proposed(ask.buf) /\ FieldOK(f)
  BY <1>1, <1>2, ProposedOK DEF FieldOK
<1>4. PICK d : d = Dialog(ask, "action")
               /\ d = [NoDialog EXCEPT !.kind = ask.kind, !.items = ask.items, !.sel = ask.sel, !.field = f,
                                       !.then = "action"]
  BY <1>3 DEF Dialog
<1>5. PICK n : n = NoDialog /\ n \in DlgRec(n.saved) /\ n.top = 1 /\ n.to = 0
  BY NoDialogIs
<1>6. /\ d \in DlgRec(n.saved) /\ d.saved = n.saved /\ d.kind = ask.kind /\ d.items = ask.items /\ d.sel = ask.sel
      /\ d.field = f /\ d.then = "action" /\ d.top = n.top
  BY <1>2, <1>3, <1>4, <1>5 DEF DlgRec, Reasons
<1> QED BY <1>1, <1>2, <1>3, <1>4, <1>5, <1>6 DEF AskOK, Reasons

LEMMA YesNoAsks ==
  ASSUME NEW then \in Reasons \ {"action"}, NEW to \in Nat, NEW w, NEW p,
         p # -1 <=> then = "stop", then = "disk" => to \in 1..Len(w.disks)
  PROVE  AskOK(YesNo(then, to), w, p) /\ YesNo(then, to).then = then
<1>1. PICK n : n = NoDialog /\ n \in DlgRec(n.saved) /\ n.top = 1 /\ n.sel = 1 /\ FieldOK(n.field)
  BY NoDialogIs
<1>2. PICK d : d = YesNo(then, to) /\ d = [n EXCEPT !.kind = "yesno", !.then = then, !.to = to]
  BY <1>1 DEF YesNo
<1>3. /\ d \in DlgRec(n.saved) /\ d.saved = n.saved /\ d.kind = "yesno" /\ d.sel = 1 /\ d.top = 1
      /\ d.field = n.field /\ d.then = then /\ d.to = to
  BY <1>1, <1>2 DEF DlgRec, Kinds
<1> QED BY <1>1, <1>2, <1>3 DEF AskOK, Kinds, Reasons

-----------------------------------------------------------------------------
(* Changes of the window.                                                  *)

LEMMA NoTableIs ==
  /\ NoTable \in Loaded /\ NoTable.rows = <<>> /\ NoTable.loaded = FALSE /\ NoTable.notes = 0
BY DEF NoTable, Loaded

\* A table of the selected disk, or none without a disk.
LEMMA LoadOK ==
  ASSUME setup \in Setups, NEW v \in WinRec, v.disks # <<>> => v.dsel <= Len(v.disks),
         NEW t, t \in setup.tables \/ t = NoTable, v.disks = <<>> => t = NoTable
  PROVE  WinOK(setup.text, Load(v, t))
<1>1. t \in Loaded
  BY SetupFacts, NoTableIs
<1>2. t.notes < IF setup.text THEN TextRows - 1 ELSE BodyCells
  <2>1. 0 < IF setup.text THEN TextRows - 1 ELSE BodyCells
    BY ScreenAssumption DEF TextRows
  <2> QED BY <2>1, SetupFacts, NoTableIs
<1>3. PICK a \in BOOLEAN, r \in Seq(RowRec), n \in Nat : a = t.loaded /\ r = t.rows /\ n = t.notes
  BY <1>1 DEF Loaded
<1>4. PICK u : u = Load(v, t)
               /\ u = [v EXCEPT !.loaded = a, !.rows = r, !.notes = n, !.sel = 1, !.top = 1, !.changed = FALSE]
  BY <1>3 DEF Load
<1>5. /\ u \in WinRec /\ u.disks = v.disks /\ u.dsel = v.dsel /\ u.loaded = a /\ u.rows = r /\ u.notes = n
      /\ u.sel = 1
  <2>1. PICK z : z = [v EXCEPT !.loaded = a, !.rows = r, !.notes = n]
    OBVIOUS
  <2>2. z \in WinRec
    BY ONLY <1>3, <2>1, v \in WinRec DEF WinRec
  <2>3. PICK o \in Nat \ {0} : o = 1
    OBVIOUS
  <2>7. PICK f \in BOOLEAN : f = FALSE
    <3>1. FALSE \in BOOLEAN
      OBVIOUS
    <3> QED BY ONLY <3>1, Zenon
  <2>4. u = [z EXCEPT !.sel = o, !.top = o, !.changed = f]
    BY <1>4, <2>1, <2>3, <2>7
  <2>6. u \in WinRec
    BY ONLY <2>2, <2>4, o \in Nat \ {0}, f \in BOOLEAN DEF WinRec
  <2>5. u.disks = v.disks /\ u.dsel = v.dsel /\ u.loaded = a /\ u.rows = r /\ u.notes = n /\ u.sel = 1
    BY ONLY <1>4, v \in WinRec DEF WinRec
  <2> QED BY <2>5, <2>6
<1>6. r # <<>> => 1 <= Len(r)
  BY <1>3, EmptySeq, LenProperties
<1>7. v.disks = <<>> => r = <<>> /\ a = FALSE
  BY <1>3, NoTableIs
<1> QED BY <1>2, <1>3, <1>4, <1>5, <1>6, <1>7 DEF WinOK

LEMMA OpenDiskKeeps ==
  ASSUME setup \in Setups, setup' = setup, NEW w \in WinRec, NEW i \in 1..Len(w.disks), OpenDisk(w, i)
  PROVE  WindowInv'
<1>1. PICK t \in setup.tables : Back(Load([w EXCEPT !.dsel = i], t))
  BY DEF OpenDisk
<1>2. PICK n \in Nat : n = Len(w.disks)
  BY LenProperties DEF WinRec
<1>3. PICK v : v = [w EXCEPT !.dsel = i]
  OBVIOUS
<1>4. v \in WinRec /\ v.disks = w.disks /\ v.dsel = i
  BY <1>2, <1>3 DEF WinRec
<1>5. v.disks # <<>>
  BY <1>2, <1>4
<1>6. WinOK(setup.text, Load(v, t))
  BY <1>2, <1>4, <1>5, LoadOK
<1> QED BY <1>1, <1>3, <1>6, BackKeeps

\* The disk that is found again is one of the list.
LEMMA FoundIn ==
  ASSUME NEW list \in Seq(DiskRec), NEW w
  PROVE  Found(list, w) \in Nat \ {0} /\ (list # <<>> => Found(list, w) <= Len(list))
<1>0. PICK n \in Nat : n = Len(list) /\ (list # <<>> => n > 0)
  BY LenProperties, EmptySeq
<1> DEFINE same == {i \in 1..Len(list) : w.disks # <<>> /\ list[i].id = w.disks[w.dsel].id}
           free == {i \in 1..Len(list) : ~list[i].noted}
<1>1. PICK A \in SUBSET (1..n), B \in SUBSET (1..n) : A = same /\ B = free
  BY <1>0
<1>2. Found(list, w) = IF A # {} THEN CHOOSE i \in A : \A j \in A : j <= i
                       ELSE IF B # {} THEN CHOOSE i \in B : \A j \in B : i <= j ELSE 1
  BY <1>1 DEF Found
<1>3. A # {} => \E i \in A : \A j \in A : j <= i
  <2> SUFFICES ASSUME A # {} PROVE \E i \in A : \A j \in A : j <= i
    OBVIOUS
  <2> DEFINE S == {k \in Nat : \E i \in A : k = n - i}
  <2>1. S \in SUBSET Nat /\ S # {}
    <3>1. PICK i \in A : i \in 1..n
      OBVIOUS
    <3>2. n - i \in S
      BY <3>1
    <3> QED BY <3>2
  <2>2. PICK m \in S : \A k \in S : m <= k
    BY <2>1, LeastNatural
  <2>3. PICK i \in A : m = n - i
    BY <2>2
  <2>4. ASSUME NEW j \in A PROVE j <= i
    <3>1. j \in 1..n /\ i \in 1..n
      OBVIOUS
    <3>2. n - j \in S
      BY <3>1
    <3>3. m <= n - j
      <4> HIDE DEF S
      <4> QED BY <2>2, <3>2
    <3> QED BY ONLY <2>3, <3>1, <3>3, n \in Nat
  <2> QED BY <2>4
<1>4. B # {} => \E i \in B : \A j \in B : i <= j
  BY LeastNatural
<1>5. CASE A # {}
  <2>1. Found(list, w) \in A
    BY <1>2, <1>3, <1>5
  <2>2. Found(list, w) \in 1..n
    BY <2>1
  <2> QED BY ONLY <2>2, <1>0, n \in Nat
<1>6. CASE A = {} /\ B # {}
  <2>1. Found(list, w) \in B
    BY <1>2, <1>4, <1>6
  <2>2. Found(list, w) \in 1..n
    BY <2>1
  <2> QED BY ONLY <2>2, <1>0, n \in Nat
<1>7. CASE A = {} /\ B = {}
  <2>1. Found(list, w) = 1
    BY <1>2, <1>7
  <2> QED BY <2>1, <1>0
<1> QED BY <1>5, <1>6, <1>7

LEMMA ScanKeeps ==
  ASSUME setup \in Setups, setup' = setup, NEW w \in WinRec, Scan(w)
  PROVE  WindowInv'
<1>1. PICK list \in setup.lists :
        LET found == [w EXCEPT !.disks = list, !.dsel = Found(list, w), !.msg = 1]
        IN  IF list = <<>> THEN Back(Load(found, NoTable)) ELSE OpenDisk(found, Found(list, w))
  BY DEF Scan
<1>2. list \in Seq(DiskRec)
  BY SetupFacts
<1>3. PICK i \in Nat \ {0} : i = Found(list, w) /\ (list # <<>> => i <= Len(list))
  BY <1>2, FoundIn
<1>4. PICK v : v = [w EXCEPT !.disks = list, !.dsel = i, !.msg = 1]
  OBVIOUS
<1>5. v \in WinRec /\ v.disks = list /\ v.dsel = i
  BY <1>2, <1>3, <1>4 DEF WinRec
<1>6. CASE list = <<>>
  <2>1. Back(Load(v, NoTable))
    BY <1>1, <1>3, <1>4, <1>6
  <2>2. WinOK(setup.text, Load(v, NoTable))
    BY <1>5, <1>6, LoadOK
  <2> QED BY <2>1, <2>2, BackKeeps
<1>7. CASE list # <<>>
  <2>1. OpenDisk(v, i)
    BY <1>1, <1>3, <1>4, <1>7
  <2>2. i \in 1..Len(v.disks)
    BY <1>2, <1>3, <1>5, <1>7, LenProperties
  <2> QED BY <2>1, <2>2, <1>5, OpenDiskKeeps
<1> QED BY <1>6, <1>7

LEMMA LeaveKeeps ==
  ASSUME WindowInv, setup' = setup, NEW w, WinOK(setup.text, w), NEW then \in {"quit", "rescan", "disk"},
         NEW to, then = "disk" => to \in 1..Len(w.disks), Leave(w, then, to)
  PROVE  WindowInv'
<1>0. setup \in Setups /\ w \in WinRec
  BY DEF WindowInv, WinOK
<1>1. CASE then = "quit"
  <2>1. dlg' = [NoDialog EXCEPT !.kind = "closed"] /\ UNCHANGED <<win, canvas, display, box>>
    BY <1>1 DEF Leave
  <2>2. PICK n : n = NoDialog /\ n \in DlgRec(n.saved) /\ FieldOK(n.field)
    BY NoDialogIs
  <2>3. dlg' \in DlgRec(n.saved) /\ dlg'.saved = n.saved /\ dlg'.kind = "closed" /\ dlg'.field = n.field
    BY <2>1, <2>2 DEF DlgRec
  <2>4. dlg'.kind \notin Kinds /\ dlg'.kind # "none" /\ dlg'.kind # "menu"
    BY <2>3 DEF Kinds
  <2>5. DlgOK(dlg', win', wipe')
    BY <2>2, <2>3, <2>4 DEF DlgOK, MenuOK
  <2> QED BY <2>1, <2>3, <2>4, <2>5 DEF WindowInv, InWindow, Starting, Wiping, Begun, BoxOver, Closed
<1>2. CASE then = "rescan"
  <2>1. Scan(w)
    BY <1>2 DEF Leave
  <2> QED BY <2>1, <1>0, ScanKeeps
<1>3. CASE then = "disk"
  <2>1. OpenDisk(w, to)
    BY <1>3 DEF Leave
  <2> QED BY <2>1, <1>0, <1>3, OpenDiskKeeps
<1> QED BY <1>1, <1>2, <1>3

LEMMA MayLeaveKeeps ==
  ASSUME WindowInv, setup' = setup, wipe = -1, NEW w, WinOK(setup.text, w),
         NEW then \in {"quit", "rescan", "disk"}, NEW to \in Nat, then = "disk" => to \in 1..Len(w.disks),
         MayLeave(w, then, to)
  PROVE  WindowInv'
<1>0. setup \in Setups
  BY DEF WindowInv
<1>1. CASE ~w.changed
  <2>1. Leave(w, then, to)
    BY <1>1 DEF MayLeave
  <2> QED BY <2>1, LeaveKeeps
<1>2. CASE w.changed
  <2>1. PICK cv : cv = IF setup.text THEN canvas ELSE Drawing(ToShow(w))
    OBVIOUS
  <2>2. /\ win' = IF setup.text THEN w ELSE ToShow(w)
        /\ Open(cv, YesNo(then, to)) /\ wipe' = -1
    BY <1>2, <2>1 DEF MayLeave, box
  <2>3. WinOK(setup.text, win') /\ win'.disks = w.disks
    BY <1>0, <2>2, ToShowOK
  <2>4. AskOK(YesNo(then, to), win', wipe') /\ YesNo(then, to).then # "stop"
    <3>1. then \in Reasons \ {"action"} /\ then # "stop"
      BY DEF Reasons
    <3> QED BY <2>2, <2>3, <3>1, YesNoAsks
  <2>5. ~setup.text => NoBox(cv)
    BY <1>0, <2>1, DrawingOK
  <2> QED BY <1>0, <2>2, <2>3, <2>4, <2>5, OpenKeeps
<1> QED BY <1>1, <1>2

LEMMA ChangeDiskKeeps ==
  ASSUME WindowInv, setup' = setup, wipe = -1, NEW w, WinOK(setup.text, w), NEW i, ChangeDisk(w, i)
  PROVE  WindowInv'
<1>0. setup \in Setups
  BY DEF WindowInv
<1>1. CASE i \notin 1..Len(w.disks) \/ i = w.dsel
  BY <1>0, <1>1, BackKeeps DEF ChangeDisk
<1>2. CASE i \in 1..Len(w.disks) /\ i # w.dsel
  <2>1. MayLeave(w, "disk", i)
    BY <1>2 DEF ChangeDisk
  <2> QED BY <1>2, <2>1, MayLeaveKeeps
<1> QED BY <1>1, <1>2

\* Changes of single parts of the window.
LEMMA PartsOK ==
  ASSUME NEW text, NEW w, WinOK(text, w)
  PROVE  /\ WinOK(text, [w EXCEPT !.msg = 0]) /\ WinOK(text, [w EXCEPT !.msg = 1])
         /\ [w EXCEPT !.msg = 0].disks = w.disks /\ [w EXCEPT !.msg = 0].loaded = w.loaded
         /\ \A x \in Int : WinOK(text, [w EXCEPT !.hover = x])
         /\ \A f \in {"disks", "rows"} : WinOK(text, [w EXCEPT !.focus = f]) /\ WinOK(text, [w EXCEPT !.focus = f, !.msg = 0])
         /\ \A i \in 1..Len(w.rows) : WinOK(text, [w EXCEPT !.sel = i]) /\ WinOK(text, [w EXCEPT !.sel = i, !.focus = "rows", !.msg = 0])
<1>0. w \in WinRec
  BY DEF WinOK
<1>1. WinOK(text, [w EXCEPT !.msg = 0]) /\ WinOK(text, [w EXCEPT !.msg = 1])
  <2>1. \A m \in Nat : [w EXCEPT !.msg = m] \in WinRec
    BY <1>0 DEF WinRec
  <2>2. ASSUME NEW m \in Nat, NEW u \in WinRec, u = [w EXCEPT !.msg = m] PROVE WinOK(text, u)
    <3>1. /\ u.disks = w.disks /\ u.dsel = w.dsel /\ u.rows = w.rows /\ u.sel = w.sel /\ u.notes = w.notes
          /\ u.loaded = w.loaded
      BY ONLY <2>2, <1>0 DEF WinRec
    <3> QED BY <3>1 DEF WinOK
  <2> QED BY <2>1, <2>2
<1>2. ASSUME NEW x \in Int PROVE WinOK(text, [w EXCEPT !.hover = x])
  <2>1. PICK u \in WinRec : u = [w EXCEPT !.hover = x]
    BY <1>0 DEF WinRec
  <2>2. /\ u.disks = w.disks /\ u.dsel = w.dsel /\ u.rows = w.rows /\ u.sel = w.sel /\ u.notes = w.notes
        /\ u.loaded = w.loaded
    BY ONLY <2>1, <1>0 DEF WinRec
  <2> QED BY <2>1, <2>2 DEF WinOK
<1>3. ASSUME NEW f \in {"disks", "rows"}
      PROVE  WinOK(text, [w EXCEPT !.focus = f]) /\ WinOK(text, [w EXCEPT !.focus = f, !.msg = 0])
  <2>1. PICK u \in WinRec : u = [w EXCEPT !.focus = f]
    BY <1>0 DEF WinRec
  <2>2. PICK v \in WinRec : v = [w EXCEPT !.focus = f, !.msg = 0]
    BY <1>0 DEF WinRec
  <2>3. /\ u.disks = w.disks /\ u.dsel = w.dsel /\ u.rows = w.rows /\ u.sel = w.sel /\ u.notes = w.notes
        /\ u.loaded = w.loaded
    BY ONLY <2>1, <1>0 DEF WinRec
  <2>4. /\ v.disks = w.disks /\ v.dsel = w.dsel /\ v.rows = w.rows /\ v.sel = w.sel /\ v.notes = w.notes
        /\ v.loaded = w.loaded
    BY ONLY <2>2, <1>0 DEF WinRec
  <2> QED BY <2>1, <2>2, <2>3, <2>4 DEF WinOK
<1>4. ASSUME NEW i \in 1..Len(w.rows)
      PROVE  WinOK(text, [w EXCEPT !.sel = i]) /\ WinOK(text, [w EXCEPT !.sel = i, !.focus = "rows", !.msg = 0])
  <2>0. i \in Nat \ {0} /\ i <= Len(w.rows)
    BY <1>0, LenProperties DEF WinRec
  <2>1. PICK u \in WinRec : u = [w EXCEPT !.sel = i]
    BY <1>0, <2>0 DEF WinRec
  <2>2. PICK v \in WinRec : v = [w EXCEPT !.sel = i, !.focus = "rows", !.msg = 0]
    BY <1>0, <2>0 DEF WinRec
  <2>3. /\ u.disks = w.disks /\ u.dsel = w.dsel /\ u.rows = w.rows /\ u.sel = i /\ u.notes = w.notes
        /\ u.loaded = w.loaded
    BY ONLY <2>1, <1>0 DEF WinRec
  <2>4. /\ v.disks = w.disks /\ v.dsel = w.dsel /\ v.rows = w.rows /\ v.sel = i /\ v.notes = w.notes
        /\ v.loaded = w.loaded
    BY ONLY <2>2, <1>0 DEF WinRec
  <2> QED BY <2>0, <2>1, <2>2, <2>3, <2>4 DEF WinOK
<1>5. [w EXCEPT !.msg = 0].disks = w.disks /\ [w EXCEPT !.msg = 0].loaded = w.loaded
  BY <1>0 DEF WinRec
<1> QED BY <1>1, <1>2, <1>3, <1>4, <1>5

\* The table changed: what is selected stays one of its rows.
LEMMA ChangedOK ==
  ASSUME setup \in Setups, NEW w, WinOK(setup.text, w), w.disks # <<>>,
         NEW t \in setup.tables, NEW sel \in {1, w.sel}, NEW changed \in BOOLEAN
  PROVE  WinOK(setup.text, Changed(w, t, sel, changed))
<1>0. w \in WinRec /\ sel \in Nat \ {0}
  BY DEF WinOK, WinRec
<1>1. t \in Loaded /\ t.notes < IF setup.text THEN TextRows - 1 ELSE BodyCells
  BY SetupFacts
<1>2. PICK a \in BOOLEAN, r \in Seq(RowRec), n \in Nat : a = t.loaded /\ r = t.rows /\ n = t.notes
  BY <1>1 DEF Loaded
<1>3. PICK s \in Nat \ {0} : s = (IF sel <= Len(r) THEN sel ELSE AtLeastOne(Len(r))) /\ (r # <<>> => s <= Len(r))
  <2>1. Len(r) \in Nat /\ (r # <<>> => Len(r) > 0)
    BY LenProperties, EmptySeq
  <2> QED BY <2>1, <1>0 DEF AtLeastOne
<1>4. PICK u : u = Changed(w, t, sel, changed)
               /\ u = [w EXCEPT !.loaded = a, !.rows = r, !.notes = n, !.changed = changed, !.msg = 1, !.sel = s]
  BY <1>2, <1>3 DEF Changed
<1>5. u \in WinRec
  <2>1. PICK z : z = [w EXCEPT !.loaded = a, !.rows = r, !.notes = n]
    OBVIOUS
  <2>2. z \in WinRec
    BY ONLY <1>0, <1>2, <2>1 DEF WinRec
  <2>3. u = [z EXCEPT !.changed = changed, !.msg = 1, !.sel = s]
    BY <1>4, <2>1
  <2>4. changed \in BOOLEAN /\ s \in Nat \ {0}
    OBVIOUS
  <2> QED BY ONLY <2>2, <2>3, <2>4 DEF WinRec
<1>6. u.disks = w.disks /\ u.dsel = w.dsel /\ u.rows = r /\ u.notes = n /\ u.sel = s
  BY <1>0, <1>4 DEF WinRec
<1> QED BY <1>1, <1>2, <1>3, <1>4, <1>5, <1>6 DEF WinOK

-----------------------------------------------------------------------------
(* Actions and keys.                                                       *)

LEMMA ContinueKeeps ==
  ASSUME setup \in Setups, setup' = setup, wipe = -1, NEW w, WinOK(setup.text, w), w.disks # <<>>,
         NEW cv, ~setup.text => NoBox(cv), Continue(w, cv)
  PROVE  WindowInv'
<1>1. CASE \E t \in setup.tables, sel \in {1, w.sel}, changed \in BOOLEAN : Back(Changed(w, t, sel, changed))
  BY <1>1, ChangedOK, BackKeeps
<1>2. CASE Back([w EXCEPT !.msg = 1])
  BY <1>2, PartsOK, BackKeeps
<1>3. ASSUME NEW ask \in setup.asks, win' = w, Open(cv, Dialog(ask, "action")), wipe' = -1
      PROVE  WindowInv'
  <2>1. WinOK(setup.text, win') /\ win'.disks # <<>>
    BY <1>3
  <2>2. AskOK(Dialog(ask, "action"), win', wipe') /\ Dialog(ask, "action").then # "stop"
    <3>1. PICK u, p : u = win' /\ p = wipe'
      OBVIOUS
    <3>2. AskOK(Dialog(ask, "action"), u, -1) /\ Dialog(ask, "action").then = "action"
      BY <2>1, <3>1, DialogAsks
    <3> QED BY <1>3, <3>1, <3>2
  <2> QED BY <1>3, <2>1, <2>2, OpenKeeps
<1>4. ASSUME NEW ask \in setup.asks, win' = ToShow(w), Open(Drawing(ToShow(w)), Dialog(ask, "action")), wipe' = -1
      PROVE  WindowInv'
  <2>1. WinOK(setup.text, win') /\ win'.disks # <<>>
    BY <1>4, ToShowOK
  <2>2. AskOK(Dialog(ask, "action"), win', wipe') /\ Dialog(ask, "action").then # "stop"
    <3>1. PICK u, p : u = win' /\ p = wipe'
      OBVIOUS
    <3>2. AskOK(Dialog(ask, "action"), u, -1) /\ Dialog(ask, "action").then = "action"
      BY <2>1, <3>1, DialogAsks
    <3> QED BY <1>4, <3>1, <3>2
  <2>3. ~setup.text => NoBox(Drawing(ToShow(w)))
    BY DrawingOK
  <2> QED BY <1>4, <2>1, <2>2, <2>3, OpenKeeps
<1> QED BY <1>1, <1>2, <1>3, <1>4 DEF Continue, box

LEMMA StartWipeKeeps ==
  ASSUME setup \in Setups, setup' = setup, NEW w, WinOK(setup.text, w), StartWipe(w)
  PROVE  WindowInv'
<1>1. /\ win' = ToShow(w) /\ dlg' = NoDialog /\ wipe' = Begun
      /\ canvas' = Drawing(win') /\ display' = Overlaid(canvas', px', setup.pointer)
  BY DEF StartWipe, Redraw, Show
<1>2. WinOK(setup.text, win') /\ OnCells(canvas')
  BY <1>1, ToShowOK, DrawingOK
<1>4. dlg'.kind = "none" /\ dlg'.kind \notin Kinds /\ dlg' \in DlgRec(dlg'.saved) /\ FieldOK(dlg'.field)
  BY <1>1, NoDialogIs
<1>5. DlgOK(dlg', win', wipe')
  BY <1>4 DEF DlgOK, MenuOK
<1>6. Drawing(win)' = Drawing(win')
  BY DEF Drawing
<1> QED BY <1>1, <1>2, <1>4, <1>5, <1>6 DEF WindowInv, InWindow, Wiping, Begun

LEMMA ActionKeeps ==
  ASSUME setup \in Setups, setup' = setup, wipe = -1, NEW w, WinOK(setup.text, w),
         NEW cv, ~setup.text => NoBox(cv), Action(w, cv)
  PROVE  WindowInv'
<1>1. CASE w.loaded
  <2>1. w.disks # <<>> /\ Continue(w, cv)
    BY <1>1 DEF Action, WinOK
  <2> QED BY <2>1, ContinueKeeps
<1>2. CASE ~w.loaded
  BY <1>2, BackKeeps DEF Action
<1> QED BY <1>1, <1>2

LEMMA MoveToKeeps ==
  ASSUME WindowInv, setup' = setup, wipe = -1, NEW w, WinOK(setup.text, w), NEW i, MoveTo(w, i)
  PROVE  WindowInv'
<1>0. setup \in Setups
  BY DEF WindowInv
<1>1. CASE i \notin 1..Count(w)
  BY <1>0, <1>1, BackKeeps DEF MoveTo
<1>2. CASE i \in 1..Count(w) /\ w.focus = "disks"
  BY <1>2, ChangeDiskKeeps DEF MoveTo
<1>3. CASE i \in 1..Count(w) /\ w.focus # "disks"
  <2>1. i \in 1..Len(w.rows) /\ Back([w EXCEPT !.sel = i])
    BY <1>3 DEF MoveTo, Count
  <2> QED BY <1>0, <2>1, PartsOK, BackKeeps
<1> QED BY <1>1, <1>2, <1>3

LEMMA KeyKeeps ==
  ASSUME WindowInv, setup' = setup, wipe = -1, NEW w, WinOK(setup.text, w),
         NEW cv, ~setup.text => NoBox(cv), NEW k, Key(w, k, cv)
  PROVE  WindowInv'
<1>0. setup \in Setups
  BY DEF WindowInv
<1>1. CASE k = "esc"
  BY <1>1, MayLeaveKeeps DEF Key
<1>2. CASE k = "tab"
  <2>1. PICK f \in {"disks", "rows"} : Back([w EXCEPT !.focus = f])
    BY <1>2 DEF Key
  <2> QED BY <1>0, <2>1, PartsOK, BackKeeps
<1>3. CASE k = "f5"
  BY <1>3, MayLeaveKeeps DEF Key
<1>4. CASE k = "pgup"
  BY <1>4, ChangeDiskKeeps DEF Key
<1>5. CASE k = "pgdn"
  BY <1>5, ChangeDiskKeeps DEF Key
<1>6. CASE k = "up"
  BY <1>6, MoveToKeeps DEF Key
<1>7. CASE k = "down"
  BY <1>7, MoveToKeeps DEF Key
<1>8. CASE k = "home"
  BY <1>8, MoveToKeeps DEF Key
<1>9. CASE k = "end"
  BY <1>9, MoveToKeeps DEF Key
<1>10. CASE k \notin {"esc", "tab", "f5", "pgup", "pgdn", "up", "down", "home", "end"}
  <2>1. Action(w, cv)
    BY <1>10 DEF Key
  <2> QED BY <1>0, <2>1, ActionKeeps
<1> QED BY <1>1, <1>2, <1>3, <1>4, <1>5, <1>6, <1>7, <1>8, <1>9, <1>10

LEMMA PressKeyKeeps ==
  ASSUME WindowInv, PressKey
  PROVE  WindowInv'
<1>0. setup \in Setups /\ setup' = setup /\ wipe = -1 /\ InWindow /\ WinOK(setup.text, win)
  BY DEF WindowInv, PressKey, InWindow
<1>1. PICK k \in Keys : Key(Cleared(win), k, canvas)
  BY DEF PressKey
<1>2. PICK w : w = Cleared(win) /\ WinOK(setup.text, w)
  BY <1>0, PartsOK DEF Cleared
<1>3. ~setup.text => NoBox(canvas)
  BY <1>0, DrawingOK DEF WindowInv
<1> QED BY <1>0, <1>1, <1>2, <1>3, KeyKeeps

-----------------------------------------------------------------------------
(* The mouse.                                                              *)

\* The arrow goes from one place to another and nothing else changes.
LEMMA ArrowMoved ==
  ASSUME NEW cv, NEW y, NEW old, old = Overlaid(cv, y, TRUE), NEW x
  PROVE  PointerShown(Shown(old, cv, Arrow(y)), cv, x) = Overlaid(cv, x, TRUE)
<1>1. PICK sh : sh = Shown(old, cv, Arrow(y))
  OBVIOUS
<1>3. ASSUME NEW c \in Cells, c \notin Arrow(x) PROVE sh[c] = Plain(cv[c])
  <2>1. old[c] = IF c \in Arrow(y) THEN Pointed(cv[c]) ELSE Plain(cv[c])
    BY DEF Overlaid
  <2> QED BY <1>1, <2>1 DEF Shown
<1>4. PointerShown(sh, cv, x) = [c \in Cells |-> IF c \in Arrow(x) THEN Pointed(cv[c]) ELSE sh[c]]
  BY DEF PointerShown
<1>5. Overlaid(cv, x, TRUE) = [c \in Cells |-> IF c \in Arrow(x) THEN Pointed(cv[c]) ELSE Plain(cv[c])]
  BY DEF Overlaid
<1> QED BY <1>1, <1>3, <1>4, <1>5

LEMMA MovePointerShows ==
  ASSUME display = Overlaid(canvas, px, TRUE), NEW x, MovePointer(x)
  PROVE  canvas' = canvas /\ display' = Overlaid(canvas, x, TRUE)
<1>1. canvas' = canvas /\ display' = PointerShown(Shown(display, canvas, Arrow(px)), canvas, x)
  BY DEF MovePointer
<1>2. PICK old, cv, y : old = display /\ cv = canvas /\ y = px
  OBVIOUS
<1>3. PointerShown(Shown(old, cv, Arrow(y)), cv, x) = Overlaid(cv, x, TRUE)
  BY <1>2, ArrowMoved
<1> QED BY <1>1, <1>2, <1>3

LEMMA MoveKeeps ==
  ASSUME WindowInv, setup' = setup, ~Closed, setup.pointer, NEW x, px' = x, MovePointer(x),
         win' = win, dlg' = dlg, wipe' = wipe
  PROVE  WindowInv'
<1>0. setup.pointer = TRUE /\ setup \in Setups
  BY SetupFacts DEF WindowInv
<1>1. canvas' = canvas /\ display' = Overlaid(canvas, x, TRUE)
  BY <1>0, MovePointerShows DEF WindowInv
<1>2. Drawing(win)' = Drawing(win)
  BY DEF Drawing, ToShow
<1> QED BY <1>0, <1>1, <1>2 DEF WindowInv, InWindow, Starting, Wiping, Begun, BoxOver, Closed

LEMMA MoveInWindowKeeps ==
  ASSUME WindowInv, MoveInWindow
  PROVE  WindowInv'
<1>0. setup.pointer /\ InWindow /\ setup' = setup /\ dlg' = dlg /\ wipe' = wipe
  BY DEF MoveInWindow, box
<1>1. PICK x \in setup.places : px' = x /\ IF ButtonAt(x) = win.hover THEN MovePointer(x) /\ UNCHANGED win
                                           ELSE Redraw([win EXCEPT !.hover = ButtonAt(x)])
  BY DEF MoveInWindow
<1>2. CASE ButtonAt(x) = win.hover
  BY <1>0, <1>1, <1>2, MoveKeeps DEF InWindow, Closed
<1>3. CASE ButtonAt(x) # win.hover
  <2>1. ButtonAt(x) \in Int
    BY DEF ButtonAt, Buttons, Quit, New, Rescan
  <2>2. PICK v : v = [win EXCEPT !.hover = ButtonAt(x)] /\ WinOK(setup.text, v) /\ setup \in Setups
    BY <2>1, PartsOK DEF WindowInv
  <2>3. win' = ToShow(v) /\ canvas' = Drawing(win') /\ display' = Overlaid(canvas', px', setup.pointer)
    BY <1>1, <1>3, <2>2 DEF Redraw, Show
  <2>4. WinOK(setup.text, win') /\ Scrolls(setup.text, win') /\ OnCells(canvas')
    BY <2>2, <2>3, ToShowOK, DrawingOK
  <2>5. dlg'.kind = "none" /\ dlg'.kind \notin Kinds /\ wipe' = -1
    BY <1>0 DEF InWindow, Kinds
  <2>6. DlgOK(dlg', win', wipe')
    BY <1>0, <2>5 DEF DlgOK, WindowInv
  <2>7. Drawing(win)' = Drawing(win')
    BY <1>0 DEF Drawing
  <2>8. ~Starting' /\ ~Wiping'
    BY <2>5 DEF Starting, Wiping, Begun
  <2> QED BY <1>0, <2>2, <2>3, <2>4, <2>5, <2>6, <2>7, <2>8 DEF WindowInv
<1> QED BY <1>2, <1>3

LEMMA MoveElsewhereKeeps ==
  ASSUME WindowInv, MoveElsewhere
  PROVE  WindowInv'
BY MoveKeeps DEF MoveElsewhere, box

LEMMA SelectRowKeeps ==
  ASSUME WindowInv, setup' = setup, NEW w, WinOK(setup.text, w), NEW rows, rows \subseteq 1..Len(w.rows),
         SelectRow(w, rows)
  PROVE  WindowInv'
<1>0. setup \in Setups
  BY DEF WindowInv
<1>1. CASE rows = {}
  BY <1>0, <1>1, BackKeeps DEF SelectRow
<1>2. CASE rows # {}
  <2>1. PICK i \in rows : Back([w EXCEPT !.sel = i, !.focus = "rows", !.msg = 0])
    BY <1>2 DEF SelectRow
  <2>2. i \in 1..Len(w.rows)
    BY <2>1
  <2> QED BY <1>0, <2>1, <2>2, PartsOK, BackKeeps
<1> QED BY <1>1, <1>2

LEMMA RowClickedIn ==
  ASSUME NEW w \in WinRec, NEW x \in Cells, x >= BodyTop
  PROVE  RowClicked(w, x) \subseteq 1..Len(w.rows)
<1>1. BodyTop \in Nat /\ x \in Nat /\ w.top \in Nat \ {0} /\ Len(w.rows) \in Nat
  BY Places, LenProperties DEF Cells, WinRec
<1>2. w.top + (x - BodyTop) \in Nat \ {0}
  BY <1>1
<1> QED BY <1>1, <1>2 DEF RowClicked

LEMMA ClickAtKeeps ==
  ASSUME WindowInv, InWindow, setup' = setup, setup.pointer, NEW w, WinOK(setup.text, w), NEW x \in setup.places,
         ClickAt(w, x)
  PROVE  WindowInv'
<1>0. setup \in Setups /\ wipe = -1 /\ w \in WinRec /\ x \in Cells /\ ~setup.text
  BY SetupFacts DEF WindowInv, InWindow, WinOK
<1>1. CASE x \in Buttons
  <2>1. PICK k : k = ButtonKey(x)
    OBVIOUS
  <2>2. PICK cv : cv = IF w = win THEN canvas ELSE Drawing(ToShow(w))
    OBVIOUS
  <2>3. Key(Cleared(w), k, cv)
    BY <1>1, <2>1, <2>2 DEF ClickAt
  <2>4. PICK v : v = Cleared(w) /\ WinOK(setup.text, v)
    BY PartsOK DEF Cleared
  <2>5. ~setup.text => NoBox(cv)
    BY <1>0, <2>2, DrawingOK DEF WindowInv
  <2> QED BY <1>0, <2>3, <2>4, <2>5, KeyKeeps
<1>2. CASE x \notin Buttons /\ x \in ListArea
  <2>1. CASE DiskClicked(w, x) = {}
    BY <1>0, <1>2, <2>1, BackKeeps DEF ClickAt
  <2>2. CASE DiskClicked(w, x) # {}
    <3>1. PICK i : ChangeDisk([w EXCEPT !.focus = "disks", !.msg = 0], i)
      BY <1>2, <2>2 DEF ClickAt
    <3>2. PICK v : v = [w EXCEPT !.focus = "disks", !.msg = 0] /\ WinOK(setup.text, v)
      BY PartsOK
    <3> QED BY <1>0, <3>1, <3>2, ChangeDiskKeeps
  <2> QED BY <2>1, <2>2
<1>3. CASE x \notin Buttons /\ x \notin ListArea /\ x \in BarArea
  <2>1. SelectRow(w, SpanClicked(w, x))
    BY <1>3 DEF ClickAt
  <2>2. SpanClicked(w, x) \subseteq 1..Len(w.rows)
    BY DEF SpanClicked
  <2> QED BY <2>1, <2>2, SelectRowKeeps
<1>4. CASE x \notin Buttons /\ x \notin ListArea /\ x \notin BarArea /\ x = Message
  BY <1>0, <1>4, BackKeeps DEF ClickAt
<1>5. CASE x \notin Buttons /\ x \notin ListArea /\ x \notin BarArea /\ x # Message
  <2>1. SelectRow(w, RowClicked(w, x))
    BY <1>5 DEF ClickAt
  <2>2. x >= BodyTop
    <3>1. /\ x \in Nat /\ x \notin {0, 1, 2}
          /\ x \notin 3..(3 + ListCells - 1) /\ x \notin BarTop..(BarTop + BarCells - 1)
      BY <1>0, <1>5 DEF Cells, Buttons, Quit, New, Rescan, ListArea, BarArea, Part, ListTop
    <3>2. ListCells \in Nat /\ BarCells \in Nat
      BY ScreenAssumption
    <3> QED BY <3>1, <3>2, Places
  <2> QED BY <1>0, <2>1, <2>2, RowClickedIn, SelectRowKeeps
<1> QED BY <1>1, <1>2, <1>3, <1>4, <1>5

LEMMA ClickInWindowKeeps ==
  ASSUME WindowInv, ClickInWindow
  PROVE  WindowInv'
<1>1. setup.pointer /\ InWindow /\ setup' = setup /\ WinOK(setup.text, win)
  BY DEF ClickInWindow, WindowInv
<1>2. PICK x \in setup.places : ClickAt(IF x = px THEN win ELSE [win EXCEPT !.hover = ButtonAt(x)], x)
  BY DEF ClickInWindow
<1>3. ButtonAt(x) \in Int
  BY DEF ButtonAt, Buttons, Quit, New, Rescan
<1>4. PICK w : w = (IF x = px THEN win ELSE [win EXCEPT !.hover = ButtonAt(x)]) /\ WinOK(setup.text, w)
  BY <1>1, <1>3, PartsOK
<1> QED BY <1>1, <1>2, <1>4, ClickAtKeeps

-----------------------------------------------------------------------------
(* Dialogs.                                                                *)

LEMMA AnsweredKeeps ==
  ASSUME WindowInv, setup' = setup, dlg.kind \in Kinds, NEW yes \in BOOLEAN, Answered(yes)
  PROVE  WindowInv'
<1>0. /\ setup \in Setups /\ WinOK(setup.text, win) /\ dlg.then \in Reasons
      /\ (wipe # -1 <=> dlg.then = "stop")
      /\ (dlg.then = "action" => win.disks # <<>>) /\ (dlg.then = "disk" => dlg.to \in 1..Len(win.disks))
  BY DEF WindowInv, DlgOK
<1>1. CASE dlg.then = "stop"
  <2>1. CASE yes
    <3>1. Back([win EXCEPT !.msg = 1])
      BY <1>1, <2>1 DEF Answered
    <3> QED BY <1>0, <3>1, PartsOK, BackKeeps
  <2>2. CASE ~yes
    <3>0. PICK p : p = IF wipe = Begun THEN 0 ELSE wipe
      OBVIOUS
    <3>1. PICK cv : cv = WipeDrawn(Uncovered, p)
      OBVIOUS
    <3>2. /\ dlg' = NoDialog /\ canvas' = cv /\ display' = Overlaid(canvas', px', setup.pointer)
          /\ win' = win /\ wipe' = p
      BY <1>1, <2>2, <3>0, <3>1 DEF Answered, Show
    <3>3. OnCells(Drawing(win))
      BY <1>0, DrawingOK
    <3>4. OnCells(Uncovered) /\ (~setup.text => cv = WipeDrawn(Drawing(win), p))
      <4>1. CASE setup.text
        BY <4>1 DEF Uncovered, WindowInv
      <4>2. CASE ~setup.text
        <5>1. Uncovered = BoxOver(win, wipe)
          BY <1>1, <4>2 DEF Uncovered, WindowInv
        <5> QED BY <3>1, <3>3, <5>1, WipeDrawnIs, WipeAgain DEF BoxOver
      <4> QED BY <4>1, <4>2
    <3>5. OnCells(canvas')
      BY <3>1, <3>2, <3>4, WipeDrawnIs
    <3>6. dlg'.kind = "none" /\ dlg'.kind \notin Kinds /\ dlg' \in DlgRec(dlg'.saved) /\ FieldOK(dlg'.field)
      BY <3>2, NoDialogIs
    <3>7. DlgOK(dlg', win', wipe')
      BY <3>6 DEF DlgOK, MenuOK
    <3>8. Drawing(win)' = Drawing(win)
      BY <3>2 DEF Drawing
    <3>9. wipe' # -1 /\ wipe' # Begun
      BY <1>0, <1>1, <3>0, <3>2 DEF Begun
    <3> QED BY <1>0, <3>2, <3>4, <3>5, <3>6, <3>7, <3>8, <3>9 DEF WindowInv, InWindow, Starting, Wiping
  <2> QED BY <2>1, <2>2
<1>2. CASE dlg.then = "action"
  <2>0. wipe = -1
    BY <1>0, <1>2
  <2>1. CASE Continue(win, Uncovered)
    <3>1. PICK cv : cv = Uncovered
      OBVIOUS
    <3>2. ~setup.text => NoBox(cv)
      BY <3>1 DEF Uncovered, WindowInv, DlgDrawn
    <3> QED BY <1>0, <1>2, <2>0, <2>1, <3>1, <3>2, ContinueKeeps
  <2>2. CASE StartWipe(win)
    BY <1>0, <2>2, StartWipeKeeps
  <2> QED BY <1>2, <2>1, <2>2 DEF Answered
<1>3. CASE dlg.then \notin {"stop", "action"}
  <2>1. dlg.then \in {"quit", "rescan", "disk"}
    BY <1>0, <1>3 DEF Reasons
  <2>2. CASE yes
    <3>1. Leave(win, dlg.then, dlg.to)
      BY <1>3, <2>2 DEF Answered
    <3>2. PICK r \in {"quit", "rescan", "disk"} : r = dlg.then
      BY <2>1
    <3>3. PICK to : to = dlg.to
      OBVIOUS
    <3> QED BY <1>0, <3>1, <3>2, <3>3, LeaveKeeps
  <2>3. CASE ~yes
    <3>1. Back(win)
      BY <1>3, <2>3 DEF Answered
    <3> QED BY <1>0, <3>1, BackKeeps
  <2> QED BY <2>2, <2>3
<1> QED BY <1>1, <1>2, <1>3

LEMMA AnswerKeyKeeps ==
  ASSUME WindowInv, AnswerKey
  PROVE  WindowInv'
BY AnsweredKeeps DEF AnswerKey

\* Some cells are drawn again and shown with the arrow over them: the display
\* is right again.
LEMMA PartShown ==
  ASSUME NEW cv, NEW dv, NEW S, NEW x, NEW pointer \in BOOLEAN, NEW old,
         old = Overlaid(dv, x, pointer), \A c \in Cells \ S : cv[c] = dv[c]
  PROVE  (IF pointer THEN PointerShown(Shown(old, cv, S), cv, x) ELSE Shown(old, cv, S)) = Overlaid(cv, x, pointer)
<1>1. \A c \in Cells : old[c] = IF pointer /\ c \in Arrow(x) THEN Pointed(dv[c]) ELSE Plain(dv[c])
  BY DEF Overlaid
<1>2. PICK s : s = Shown(old, cv, S)
  OBVIOUS
<1>3. s = [c \in Cells |-> IF c \in S THEN Plain(cv[c]) ELSE old[c]]
  BY <1>2 DEF Shown
<1>4. CASE pointer
  <2>1. PICK t : t = PointerShown(s, cv, x)
    OBVIOUS
  <2>2. t = [c \in Cells |-> IF c \in Arrow(x) THEN Pointed(cv[c]) ELSE s[c]]
    BY <2>1 DEF PointerShown
  <2>3. \A c \in Cells : t[c] = IF c \in Arrow(x) THEN Pointed(cv[c]) ELSE Plain(cv[c])
    BY <1>1, <1>3, <1>4, <2>2
  <2>4. t = [c \in Cells |-> IF pointer /\ c \in Arrow(x) THEN Pointed(cv[c]) ELSE Plain(cv[c])]
    BY <1>4, <2>2, <2>3
  <2> QED BY <1>2, <1>4, <2>1, <2>4 DEF Overlaid
<1>5. CASE ~pointer
  <2>1. \A c \in Cells : s[c] = Plain(cv[c])
    BY <1>1, <1>3, <1>5
  <2>2. s = [c \in Cells |-> IF pointer /\ c \in Arrow(x) THEN Pointed(cv[c]) ELSE Plain(cv[c])]
    BY <1>3, <1>5, <2>1
  <2> QED BY <1>2, <1>5, <2>2 DEF Overlaid
<1> QED BY <1>4, <1>5

\* A menu or a field is drawn again: the rest of the dialog is as it was.
LEMMA ExtraKeeps ==
  ASSUME WindowInv, setup' = setup, px' = px, win' = win, wipe' = wipe, dlg.kind \in {"menu", "input"},
         NEW d, d \in DlgRec(dlg.saved), d.saved = dlg.saved, d.kind = dlg.kind, d.items = dlg.items,
         d.then = dlg.then, d.to = dlg.to, FieldOK(d.field), MenuOK(d), dlg' = d, ExtraShown(d)
  PROVE  WindowInv'
<1>0. /\ setup \in Setups /\ setup.pointer \in BOOLEAN /\ setup.text \in BOOLEAN
      /\ d.kind \in Kinds /\ d.kind \notin {"none", "closed"} /\ dlg.kind \in Kinds /\ d.items \in Nat
      /\ ~Closed
  BY SetupFacts DEF WindowInv, Kinds, DlgRec, Closed
<1>1. PICK cv : cv = ExtraDrawn(canvas, d)
  OBVIOUS
<1>2. /\ canvas' = cv
      /\ display' = IF setup.pointer THEN PointerShown(Shown(display, cv, ExtraArea(d)), cv, px)
                                     ELSE Shown(display, cv, ExtraArea(d))
  BY <1>1 DEF ExtraShown
<1>3. OnCells(cv) /\ \A c \in Cells : cv[c] = IF c \in ExtraArea(d) THEN ExtraCell(d, c) ELSE canvas[c]
  BY <1>1 DEF ExtraDrawn, OnCells
<1>4. display' = Overlaid(canvas', px', setup.pointer)
  <2>1. display = Overlaid(canvas, px, setup.pointer)
    BY <1>0 DEF WindowInv
  <2>2. PICK b \in BOOLEAN : b = setup.pointer
    BY <1>0
  <2>9. PICK S : S = ExtraArea(d)
    OBVIOUS
  <2>3. \A c \in Cells \ S : cv[c] = canvas[c]
    BY <1>3, <2>9
  <2>4. PICK dv, x, old : dv = canvas /\ x = px /\ old = display
    OBVIOUS
  <2>5. old = Overlaid(dv, x, b) /\ \A c \in Cells \ S : cv[c] = dv[c]
    BY <2>1, <2>2, <2>3, <2>4, <2>9
  <2>6. (IF b THEN PointerShown(Shown(old, cv, S), cv, x) ELSE Shown(old, cv, S)) = Overlaid(cv, x, b)
    BY ONLY <2>5, b \in BOOLEAN, PartShown
  <2> QED BY <1>2, <2>2, <2>4, <2>6, <2>9
<1>5. /\ BoxTop(d) = BoxTop(dlg) /\ BoxArea(d) = BoxArea(dlg) /\ ExtraArea(d) = ExtraArea(dlg)
      /\ \A c : ButtonOf(d, c) = ButtonOf(dlg, c)
  <2>1. Extra(d) = Extra(dlg) /\ ButtonCount(d) = ButtonCount(dlg)
    BY DEF Extra, MenuHeight, ButtonCount
  <2>2. BoxTop(d) = BoxTop(dlg)
    BY <2>1 DEF BoxTop
  <2> QED BY <2>1, <2>2 DEF BoxArea, ExtraArea, ButtonOf
<1>6. ExtraArea(d) \subseteq BoxArea(d) /\ BoxArea(d) \subseteq Cells /\ BoxTop(d) \notin ExtraArea(d)
  <2>1. BoxTop(d) \in Nat
    BY <1>0, BoxOnScreen
  <2>2. ExtraArea(d) = (BoxTop(d) + 1)..(BoxTop(d) + Extra(d))
    BY <1>0, BoxOnScreen
  <2>3. BoxTop(d) \notin ExtraArea(d)
    BY ONLY <2>1, <2>2
  <2> QED BY <1>0, <2>3, BoxOnScreen
<1>7. DlgDrawn(setup.text, canvas, dlg)
  BY <1>0 DEF WindowInv
<1>8. DlgDrawn(setup.text, cv, d)
  <2>1. ASSUME NEW c \in BoxArea(d) PROVE cv[c] = BoxCell(d, c)
    <3>1. CASE c \in ExtraArea(d)
      <4>1. BoxCell(d, c) = ExtraCell(d, c)
        BY <1>6, <3>1 DEF BoxCell
      <4> QED BY <1>3, <1>6, <3>1, <4>1
    <3>2. CASE c \notin ExtraArea(d)
      <4>1. BoxCell(d, c) = BoxCell(dlg, c)
        BY <1>5, <3>2 DEF BoxCell
      <4>2. canvas[c] = BoxCell(dlg, c)
        BY <1>5, <1>7 DEF DlgDrawn
      <4> QED BY <1>3, <1>6, <3>2, <4>1, <4>2
    <3> QED BY <3>1, <3>2
  <2>2. ASSUME ~setup.text, NEW c \in Cells \ BoxArea(d) PROVE cv[c] = Dimmed(d.saved[c])
    <3>1. cv[c] = canvas[c]
      BY <1>3, <1>6
    <3>2. canvas[c] = Dimmed(dlg.saved[c])
      BY <1>5, <1>7, <2>2 DEF DlgDrawn
    <3> QED BY <3>1, <3>2
  <2>3. ~setup.text => NoBox(d.saved)
    BY <1>7 DEF DlgDrawn
  <2> QED BY <2>1, <2>2, <2>3 DEF DlgDrawn
<1>9. DlgOK(d, win, wipe)
  BY <1>0 DEF WindowInv, DlgOK
<1>10. Drawing(win)' = Drawing(win)
  BY DEF Drawing
<1> QED BY <1>0, <1>2, <1>3, <1>4, <1>8, <1>9, <1>10 DEF WindowInv, InWindow, Starting, Wiping, Begun, BoxOver, Closed

LEMMA MenuKeyKeeps ==
  ASSUME WindowInv, MenuKey
  PROVE  WindowInv'
<1>0. /\ dlg.kind = "menu" /\ dlg.kind \in Kinds /\ setup' = setup /\ win' = win /\ px' = px /\ wipe' = wipe
      /\ dlg \in DlgRec(dlg.saved) /\ FieldOK(dlg.field) /\ MenuOK(dlg)
  BY DEF MenuKey, box, InDialog, WindowInv, DlgOK, Kinds
<1>1. PICK n \in Nat \ {0}, s \in Nat \ {0}, t \in Int, h \in Nat \ {0} :
        n = dlg.items /\ s = dlg.sel /\ t = dlg.top /\ h = MenuHeight(dlg) /\ s <= n /\ t <= s /\ s < t + h
  <2>1. dlg.items \in Nat /\ dlg.sel \in Nat \ {0} /\ dlg.top \in Int
    BY <1>0 DEF DlgRec
  <2>2. MenuHeight(dlg) \in Nat \ {0}
    BY <1>0, <2>1, BoxOnScreen
  <2> QED BY <1>0, <2>1, <2>2 DEF MenuOK
<1>2. PICK to \in {s - 1, s + 1, s - h, s + h, 1, n} :
        LET sel == Within(to, n)
            d   == [dlg EXCEPT !.sel = sel, !.top = Scroll(sel, t, h)]
        IN  dlg' = d /\ ExtraShown(d)
  BY <1>1 DEF MenuKey
<1>3. PICK v \in Nat \ {0} : v = Within(to, n) /\ v <= n
  <2>1. to \in Int
    OBVIOUS
  <2>2. Within(to, n) \in 1..n
    BY ONLY <2>1, n \in Nat \ {0} DEF Within
  <2> QED BY <2>2
<1>4. PICK u \in Int : u = Scroll(v, t, h) /\ u <= v /\ v < u + h
  <2>1. Scroll(v, t, h) \in Int /\ Scroll(v, t, h) <= v /\ v < Scroll(v, t, h) + h
    BY ONLY v \in Nat \ {0}, t \in Int, h \in Nat \ {0} DEF Scroll
  <2> QED BY <2>1
<1>5. PICK d : d = [dlg EXCEPT !.sel = v, !.top = u]
  OBVIOUS
<1>6. dlg' = d /\ ExtraShown(d)
  BY <1>2, <1>3, <1>4, <1>5
<1>7. PICK z : z = dlg.saved
  OBVIOUS
<1>8. d \in DlgRec(z)
  <2>1. dlg \in DlgRec(z)
    BY <1>0, <1>7
  <2> QED BY ONLY <2>1, <1>5, v \in Nat \ {0}, u \in Int DEF DlgRec
<1>9. /\ d.saved = dlg.saved /\ d.kind = dlg.kind /\ d.items = dlg.items /\ d.then = dlg.then /\ d.to = dlg.to
      /\ d.field = dlg.field /\ d.sel = v /\ d.top = u
  BY ONLY <1>0, <1>5 DEF DlgRec
<1>10. MenuHeight(d) = h
  BY <1>1, <1>9 DEF MenuHeight
<1>11. MenuOK(d)
  BY <1>1, <1>3, <1>4, <1>9, <1>10 DEF MenuOK
<1> QED BY <1>0, <1>6, <1>7, <1>8, <1>9, <1>11, ExtraKeeps

LEMMA FieldInputKeeps ==
  ASSUME WindowInv, dlg.kind = "input", NEW f, FieldOK(f), FieldInput(f)
  PROVE  WindowInv'
<1>0. /\ dlg.kind \in Kinds /\ setup' = setup /\ win' = win /\ px' = px /\ wipe' = wipe
      /\ dlg \in DlgRec(dlg.saved) /\ f \in FieldRec
  BY DEF FieldInput, box, WindowInv, DlgOK, Kinds, FieldOK
<1>1. PICK d : d = [dlg EXCEPT !.field = f]
  OBVIOUS
<1>2. dlg' = d /\ ExtraShown(d)
  BY <1>1 DEF FieldInput
<1>3. d \in DlgRec(dlg.saved)
  <2>1. PICK z : z = dlg.saved
    OBVIOUS
  <2>2. dlg \in DlgRec(z)
    BY <1>0, <2>1
  <2>3. d \in DlgRec(z)
    BY ONLY <2>2, <1>0, <1>1 DEF DlgRec
  <2> QED BY <2>1, <2>3
<1>4. /\ d.saved = dlg.saved /\ d.kind = dlg.kind /\ d.items = dlg.items /\ d.then = dlg.then /\ d.to = dlg.to
      /\ d.field = f
  BY ONLY <1>0, <1>1 DEF DlgRec
<1>5. MenuOK(d)
  BY <1>4 DEF MenuOK
<1> QED BY <1>0, <1>2, <1>3, <1>4, <1>5, ExtraKeeps

LEMMA TypeCharKeeps ==
  ASSUME WindowInv, TypeChar
  PROVE  WindowInv'
<1>1. dlg.kind = "input" /\ FieldOK(dlg.field)
  BY DEF TypeChar, InDialog, WindowInv, DlgOK
<1>2. PICK c \in setup.chars : FieldInput(Insert(dlg.field, c))
  BY DEF TypeChar
<1>3. c \in CodePoints
  BY SetupFacts DEF WindowInv
<1>4. FieldOK(Insert(dlg.field, c))
  BY <1>1, <1>3, InsertKeepsField
<1> QED BY <1>1, <1>2, <1>4, FieldInputKeeps

LEMMA EditFieldKeeps ==
  ASSUME WindowInv, EditField
  PROVE  WindowInv'
<1>1. dlg.kind = "input" /\ FieldOK(dlg.field)
  BY DEF EditField, InDialog, WindowInv, DlgOK
<1>2. PICK k \in FieldKeys : TakesKey(dlg.field, k) /\ FieldInput(FieldKey(dlg.field, k))
  BY DEF EditField
<1>3. FieldOK(FieldKey(dlg.field, k))
  BY <1>1, <1>2, KeyKeepsField
<1> QED BY <1>1, <1>2, <1>3, FieldInputKeeps

LEMMA ClickInDialogKeeps ==
  ASSUME WindowInv, ClickInDialog
  PROVE  WindowInv'
<1>0. setup.pointer /\ dlg.kind \in Kinds /\ setup' = setup /\ ~Closed
  BY DEF ClickInDialog, Kinds, Closed
<1>1. PICK x \in setup.places :
        /\ px' = x
        /\ \/ \E yes \in BOOLEAN : Answered(yes)
           \/ /\ IF x = px THEN UNCHANGED <<canvas, display>> ELSE MovePointer(x)
              /\ UNCHANGED <<win, dlg, box>>
  BY DEF ClickInDialog
<1>2. CASE \E yes \in BOOLEAN : Answered(yes)
  BY <1>0, <1>2, AnsweredKeeps
<1>3. CASE x = px /\ UNCHANGED <<canvas, display, win, dlg, box>>
  <2>1. Drawing(win)' = Drawing(win)
    BY <1>0, <1>3 DEF Drawing
  <2> QED BY <1>0, <1>1, <1>3, <2>1 DEF box, WindowInv, InWindow, Starting, Wiping, BoxOver, Closed
<1>4. CASE MovePointer(x) /\ UNCHANGED <<win, dlg, box>>
  BY <1>0, <1>1, <1>4, MoveKeeps DEF box
<1> QED BY <1>1, <1>2, <1>3, <1>4

-----------------------------------------------------------------------------
(* The box of a wipe.                                                      *)

\* The box drawn over a screen that is shown, the arrow being at x.
LEMMA BoxShownKeeps ==
  ASSUME WindowInv, dlg.kind = "none", setup' = setup, win' = win, dlg' = dlg,
         NEW x, px' = x, NEW seen, seen = Overlaid(canvas, x, setup.pointer),
         NEW p \in Nat, BoxShown(seen, p, x),
         ~setup.text => WipeDrawn(canvas, p) = WipeDrawn(Drawing(win), p)
  PROVE  WindowInv'
<1>0. /\ setup \in Setups /\ setup.pointer \in BOOLEAN /\ dlg.kind \notin Kinds /\ OnCells(canvas)
      /\ WinOK(setup.text, win)
  BY SetupFacts DEF WindowInv, Kinds
<1>1. PICK cv : cv = WipeDrawn(canvas, p)
  OBVIOUS
<1>2. /\ wipe' = p /\ canvas' = cv
      /\ display' = IF setup.pointer THEN PointerShown(Shown(seen, cv, WipeArea), cv, x)
                                     ELSE Shown(seen, cv, WipeArea)
  BY <1>1 DEF BoxShown
<1>3. OnCells(cv) /\ \A c \in Cells \ WipeArea : cv[c] = canvas[c]
  <2>1. StopCell \in WipeArea /\ StopCell - 1 \in WipeArea
    BY DEF WipeArea
  <2> QED BY <1>0, <1>1, <2>1, WipeDrawnIs
<1>4. display' = Overlaid(canvas', px', setup.pointer)
  <2>0. PICK b \in BOOLEAN : b = setup.pointer
    BY <1>0
  <2>1. PICK S, dv : S = WipeArea /\ dv = canvas
    OBVIOUS
  <2>2. seen = Overlaid(dv, x, b) /\ \A c \in Cells \ S : cv[c] = dv[c]
    BY <1>3, <2>0, <2>1
  <2>3. (IF b THEN PointerShown(Shown(seen, cv, S), cv, x) ELSE Shown(seen, cv, S)) = Overlaid(cv, x, b)
    BY ONLY <2>2, b \in BOOLEAN, PartShown
  <2> QED BY <1>2, <2>0, <2>1, <2>3
<1>5. ~setup.text => cv = WipeDrawn(Drawing(win), p)
  BY <1>1
<1>6. p # -1 /\ p # Begun
  BY DEF Begun
<1>7. DlgOK(dlg', win', wipe')
  BY <1>0 DEF WindowInv, DlgOK
<1>8. Drawing(win)' = Drawing(win)
  BY DEF Drawing
<1> QED BY <1>0, <1>2, <1>3, <1>4, <1>5, <1>6, <1>7, <1>8 DEF WindowInv, InWindow, Starting, Wiping

LEMMA WipeBeginsKeeps ==
  ASSUME WindowInv, WipeBegins
  PROVE  WindowInv'
<1>1. /\ dlg.kind = "none" /\ setup' = setup /\ win' = win /\ dlg' = dlg /\ setup.pointer \in BOOLEAN
      /\ OnCells(canvas) /\ canvas = Drawing(win) /\ display = Overlaid(canvas, px, setup.pointer)
  BY SetupFacts DEF WipeBegins, WindowInv, Starting, Closed
<1>2. PICK x, seen :
        /\ x # px => setup.pointer
        /\ px' = x /\ BoxShown(seen, 0, x)
        /\ seen = IF x = px THEN display ELSE PointerShown(Shown(display, canvas, Arrow(px)), canvas, x)
  BY DEF WipeBegins
<1>3. seen = Overlaid(canvas, x, setup.pointer)
  <2>1. CASE x = px
    BY <1>1, <1>2, <2>1
  <2>2. CASE x # px
    <3>1. PICK old, cv, y : old = display /\ cv = canvas /\ y = px
      OBVIOUS
    <3>2. PointerShown(Shown(old, cv, Arrow(y)), cv, x) = Overlaid(cv, x, TRUE)
      BY <1>1, <1>2, <2>2, <3>1, ArrowMoved
    <3> QED BY <1>1, <1>2, <2>2, <3>1, <3>2
  <2> QED BY <2>1, <2>2
<1> QED BY <1>1, <1>2, <1>3, BoxShownKeeps

LEMMA WipeProgressKeeps ==
  ASSUME WindowInv, WipeProgress
  PROVE  WindowInv'
<1>0. /\ dlg.kind = "none" /\ setup' = setup /\ win' = win /\ px' = px /\ dlg' = dlg
      /\ setup \in Setups /\ display = Overlaid(canvas, px, setup.pointer)
  BY DEF WipeProgress, WindowInv, Wiping, Closed
<1>1. PICK p \in {50, 100} : BoxShown(display, p, px)
  BY DEF WipeProgress
<1>2. ASSUME ~setup.text PROVE WipeDrawn(canvas, p) = WipeDrawn(Drawing(win), p)
  <2>1. canvas = WipeDrawn(Drawing(win), wipe) /\ OnCells(Drawing(win))
    BY <1>0, <1>2, DrawingOK DEF WindowInv, WipeProgress
  <2> QED BY <2>1, WipeAgain
<1>3. PICK x, seen : x = px /\ seen = display
  OBVIOUS
<1>4. seen = Overlaid(canvas, x, setup.pointer) /\ BoxShown(seen, p, x) /\ px' = x /\ p \in Nat
  BY <1>0, <1>1, <1>3
<1> QED BY <1>0, <1>2, <1>4, BoxShownKeeps

LEMMA WipeEndsKeeps ==
  ASSUME WindowInv, WipeEnds
  PROVE  WindowInv'
<1>1. setup \in Setups /\ setup' = setup /\ WinOK(setup.text, win) /\ Back([win EXCEPT !.msg = 1])
  BY DEF WindowInv, WipeEnds
<1> QED BY <1>1, PartsOK, BackKeeps

LEMMA WipeStoppedKeeps ==
  ASSUME WindowInv, WipeStopped
  PROVE  WindowInv'
<1>1. /\ setup \in Setups /\ setup' = setup /\ WinOK(setup.text, win) /\ win' = win /\ wipe' = wipe
      /\ Wiping \/ Starting
      /\ wipe # -1 /\ Open(canvas, YesNo("stop", 0))
  BY DEF WindowInv, WipeStopped, Starting, Wiping, Begun, box
<1>2. AskOK(YesNo("stop", 0), win', wipe') /\ YesNo("stop", 0).then = "stop"
  <2>1. PICK u, p : u = win' /\ p = wipe' /\ p # -1
    BY <1>1
  <2>2. PICK r : r = "stop"
    OBVIOUS
  <2>3. r \in Reasons \ {"action"} /\ (p # -1 <=> r = "stop") /\ r # "disk" /\ 0 \in Nat
    BY <2>1, <2>2 DEF Reasons
  <2>4. AskOK(YesNo(r, 0), u, p) /\ YesNo(r, 0).then = r
    BY ONLY <2>3, YesNoAsks
  <2> QED BY <2>1, <2>2, <2>4
<1>3. ~setup.text => canvas = BoxOver(win, wipe)
  BY <1>1 DEF WindowInv, Starting, Wiping, Begun, BoxOver
<1>4. ~setup.text => NoBox(canvas)
  BY <1>1, <1>3, DrawingOK, WipeDrawnIs DEF BoxOver
<1>5. Drawing(win') = Drawing(win)
  BY <1>1
<1>6. WinOK(setup.text, win')
  BY <1>1
<1>7. PICK cv, d : cv = canvas /\ d = YesNo("stop", 0)
  OBVIOUS
<1>8. AskOK(d, win', wipe') /\ Open(cv, d) /\ (~setup.text => NoBox(cv))
      /\ (~setup.text /\ d.then = "stop" => cv = BoxOver(win', wipe'))
  BY <1>1, <1>2, <1>3, <1>4, <1>5, <1>7
<1> QED BY <1>1, <1>6, <1>8, OpenKeeps

-----------------------------------------------------------------------------
(* The invariant of every behaviour.                                       *)

LEMMA InitOK ==
  ASSUME Init
  PROVE  WindowInv
<1>0. /\ setup \in Setups /\ canvas = Drawing(win) /\ display = Overlaid(canvas, px, setup.pointer)
      /\ dlg = NoDialog /\ wipe = -1
  BY DEF Init
<1> DEFINE first(list) == [disks |-> list, dsel |-> 1, dtop |-> 1, loaded |-> FALSE, rows |-> <<>>, notes |-> 0,
                           sel |-> 1, top |-> 1, focus |-> "rows", changed |-> FALSE, msg |-> 0, hover |-> -1]
<1>1. PICK list \in setup.lists, t \in setup.tables :
        win = ToShow(IF list = <<>> THEN first(list)
                     ELSE Load([first(list) EXCEPT !.dsel = Found(list, [first(list) EXCEPT !.disks = <<>>])], t))
  BY DEF Init
<1>2. list \in Seq(DiskRec)
  BY <1>0, SetupFacts
<1>3. PICK w : w = first(list)
  OBVIOUS
<1>4. /\ w \in WinRec /\ w.disks = list /\ w.dsel = 1 /\ w.rows = <<>> /\ w.loaded = FALSE /\ w.notes = 0
  <2>1. <<>> \in Seq(RowRec) /\ 1 \in Nat \ {0} /\ FALSE \in BOOLEAN /\ -1 \in Int /\ "rows" \in {"disks", "rows"}
    OBVIOUS
  <2> QED BY <1>2, <1>3, <2>1 DEF WinRec
<1>5. PICK i \in Nat \ {0} : i = Found(list, [w EXCEPT !.disks = <<>>]) /\ (list # <<>> => i <= Len(list))
  BY <1>2, FoundIn
<1>6. win = ToShow(IF list = <<>> THEN w ELSE Load([w EXCEPT !.dsel = i], t))
  BY <1>1, <1>3, <1>5
<1>7. WinOK(setup.text, win) /\ Scrolls(setup.text, win)
  <2>1. CASE list = <<>>
    <3>1. 0 < IF setup.text THEN TextRows - 1 ELSE BodyCells
      BY ScreenAssumption DEF TextRows
    <3>2. WinOK(setup.text, w)
      BY <1>4, <2>1, <3>1 DEF WinOK
    <3> QED BY <1>0, <1>6, <2>1, <3>2, ToShowOK
  <2>2. CASE list # <<>>
    <3>1. PICK v : v = [w EXCEPT !.dsel = i]
      OBVIOUS
    <3>2. v \in WinRec /\ v.disks = list /\ v.dsel = i
      BY <1>4, <3>1 DEF WinRec
    <3>3. WinOK(setup.text, Load(v, t))
      BY <1>0, <1>5, <2>2, <3>2, LoadOK
    <3>4. win = ToShow(Load(v, t))
      BY <1>6, <2>2, <3>1
    <3> QED BY <1>0, <3>3, <3>4, ToShowOK
  <2> QED BY <2>1, <2>2
<1>8. dlg.kind = "none" /\ dlg.kind \notin Kinds /\ DlgOK(dlg, win, wipe)
  BY <1>0, NoDialogIs DEF DlgOK, MenuOK
<1>9. OnCells(canvas)
  BY <1>0, DrawingOK
<1> QED BY <1>0, <1>7, <1>8, <1>9 DEF WindowInv, Starting, Wiping, Begun, BoxOver

LEMMA StepKeeps ==
  ASSUME WindowInv, [Next]_vars
  PROVE  WindowInv'
<1>1. CASE PressKey
  BY <1>1, PressKeyKeeps
<1>2. CASE MoveInWindow
  BY <1>2, MoveInWindowKeeps
<1>3. CASE MoveElsewhere
  BY <1>3, MoveElsewhereKeeps
<1>4. CASE ClickInWindow
  BY <1>4, ClickInWindowKeeps
<1>5. CASE AnswerKey
  BY <1>5, AnswerKeyKeeps
<1>6. CASE MenuKey
  BY <1>6, MenuKeyKeeps
<1>7. CASE TypeChar
  BY <1>7, TypeCharKeeps
<1>8. CASE EditField
  BY <1>8, EditFieldKeeps
<1>9. CASE ClickInDialog
  BY <1>9, ClickInDialogKeeps
<1>10. CASE WipeProgress
  BY <1>10, WipeProgressKeeps
<1>11. CASE WipeEnds
  BY <1>11, WipeEndsKeeps
<1>12. CASE WipeStopped
  BY <1>12, WipeStoppedKeeps
<1>14. CASE WipeBegins
  BY <1>14, WipeBeginsKeeps
<1>13. CASE UNCHANGED vars
  <2>1. Drawing(win)' = Drawing(win)
    BY <1>13 DEF vars, Drawing
  <2> QED BY <1>13, <2>1 DEF vars, box, WindowInv, InWindow, Starting, Wiping, BoxOver, Closed
<1> QED BY <1>1, <1>2, <1>3, <1>4, <1>5, <1>6, <1>7, <1>8, <1>9, <1>10, <1>11, <1>12, <1>13, <1>14 DEF Next

\* What is selected exists, the lists are scrolled to it, and the display is
\* drawn from the window, the dialog and the wipe as they are.
THEOREM WindowInvariant == Spec => []WindowInv
<1>1. Init => WindowInv
  BY InitOK
<1>2. WindowInv /\ [Next]_vars => WindowInv'
  BY StepKeeps
<1> QED BY <1>1, <1>2, PTL DEF Spec

\* What is seen is what was drawn, with the arrow over it, whatever part of
\* the screen was brought up to date last (gui.c, diskview.c, ui.c).
THEOREM ScreenTheorem == Spec => []ScreenTrue
<1>1. WindowInv => ScreenTrue
  <2> SUFFICES ASSUME WindowInv PROVE ScreenTrue
    OBVIOUS
  <2>1. ASSUME dlg.kind \in Kinds, ~setup.text, NEW c \in Cells \ BoxArea(dlg)
        PROVE  canvas[c] = Dimmed(dlg.saved[c]) /\ dlg.saved[c].of \notin {"box", "item", "field", "dbutton"}
    BY <2>1 DEF WindowInv, DlgDrawn, NoBox, CellOK, BoxNames
  <2>2. ASSUME dlg.kind \in Kinds, NEW c \in BoxArea(dlg) PROVE canvas[c] = BoxCell(dlg, c)
    BY <2>2 DEF WindowInv, DlgDrawn
  <2> QED BY <2>1, <2>2 DEF ScreenTrue, WindowInv
<1> QED BY <1>1, WindowInvariant, PTL

\* The field of a dialog is whole characters at every key, and the part of it
\* that is shown begins with one and has the cursor in it (ui.c, gui.c).
THEOREM FieldTheorem == Spec => []FieldWhole
<1>1. WindowInv => FieldWhole
  BY FieldShown DEF WindowInv, DlgOK, FieldWhole
<1> QED BY <1>1, WindowInvariant, PTL

-----------------------------------------------------------------------------
(* Where the disks of the list are.                                        *)

\* The first cells of the disks t, t + 1, ... of a list.
TopsMade(f, disks, t, n) ==
  /\ f \in [t..n -> Int] /\ f[t] = ListTop
  /\ \A j \in (t + 1)..n : f[j] = f[j - 1] + disks[j - 1].height + 1

HeightOf(disks, i) == disks[i].height

LEMMA HeightIs ==
  ASSUME NEW disks \in Seq(DiskRec), NEW i \in 1..Len(disks)
  PROVE  disks[i].height \in Nat \ {0} /\ disks[i].id \in Nat
<1>1. disks[i] \in DiskRec
  BY ElementOfSeq
<1> QED BY <1>1 DEF DiskRec

LEMMA TopsExist ==
  ASSUME NEW disks \in Seq(DiskRec), NEW t \in 1..Len(disks)
  PROVE  \E f : TopsMade(f, disks, t, Len(disks))
<1>0. PICK n \in Nat : n = Len(disks) /\ t \in 1..n
  BY LenProperties
<1>1. PICK m \in Nat : m = n - t
  <2>1. n - t \in Nat
    BY <1>0
  <2> QED BY <2>1
<1> DEFINE step == [i \in 1..m |-> [x \in Int |-> x + disks[t + i - 1].height + 1]]
<1>2. step \in Steps(m, Int)
  <2> SUFFICES ASSUME NEW i \in 1..m PROVE [x \in Int |-> x + disks[t + i - 1].height + 1] \in [Int -> Int]
    BY DEF Steps
  <2>1. t + i - 1 \in 1..n
    BY <1>0, <1>1
  <2>2. disks[t + i - 1].height \in Nat
    BY <1>0, <2>1, HeightIs
  <2> QED BY <2>2
<1>3. ListTop \in Int
  BY DEF ListTop
<1>4. PICK g : Made(g, m, Int, ListTop, step)
  BY <1>2, <1>3, Recursion
<1> DEFINE f == [j \in t..n |-> g[j - t]]
<1>5. f \in [t..n -> Int] /\ f[t] = ListTop
  <2>1. \A j \in t..n : j - t \in 0..m
    BY <1>0, <1>1
  <2>2. t \in t..n /\ t - t = 0
    BY <1>0
  <2> QED BY <1>4, <2>1, <2>2 DEF Made
<1>6. ASSUME NEW j \in (t + 1)..n PROVE f[j] = f[j - 1] + disks[j - 1].height + 1
  <2>1. PICK i \in 1..m : i = j - t
    BY <1>0, <1>1
  <2>2. f[j] = g[i] /\ f[j - 1] = g[i - 1] /\ g[i - 1] \in Int /\ t + i - 1 = j - 1
    <3>1. j \in t..n /\ j - 1 \in t..n /\ j - 1 - t = i - 1 /\ i - 1 \in 0..m
      BY <1>0, <1>1, <2>1
    <3> QED BY <1>4, <2>1, <3>1 DEF Made
  <2>3. g[i] = step[i][g[i - 1]]
    BY <1>4, <2>1 DEF Made
  <2>4. step[i][g[i - 1]] = g[i - 1] + disks[t + i - 1].height + 1
    BY <2>2
  <2> QED BY <2>2, <2>3, <2>4
<1>7. TopsMade(f, disks, t, n)
  BY <1>5, <1>6 DEF TopsMade
<1> QED BY <1>0, <1>7

LEMMA TopsAre ==
  ASSUME NEW disks \in Seq(DiskRec), NEW t \in 1..Len(disks), NEW f, TopsMade(f, disks, t, Len(disks)),
         NEW i \in t..Len(disks)
  PROVE  Tops(disks, t, i) = f[i]
<1>0. PICK n \in Nat : n = Len(disks) /\ t \in 1..n /\ i \in t..n
  BY LenProperties
<1> DEFINE Body(h) == [j \in t..i |-> IF j = t THEN ListTop ELSE h[j - 1] + disks[j - 1].height + 1]
           r == [j \in t..i |-> f[j]]
<1>1. r = Body(r)
  <2> SUFFICES ASSUME NEW j \in t..i
               PROVE  f[j] = IF j = t THEN ListTop ELSE r[j - 1] + disks[j - 1].height + 1
    OBVIOUS
  <2>1. CASE j = t
    BY <2>1 DEF TopsMade
  <2>2. CASE j # t
    <3>1. j \in (t + 1)..n /\ j - 1 \in t..i
      BY <1>0, <2>2
    <3> QED BY <1>0, <2>2, <3>1 DEF TopsMade
  <2> QED BY <2>1, <2>2
<1>2. PICK h : h = (CHOOSE x : x = Body(x)) /\ h = Body(h)
  <2> HIDE DEF Body, r
  <2>1. \E x : x = Body(x)
    BY <1>1
  <2> QED BY <2>1
<1>3. Tops(disks, t, i) = h[i]
  BY <1>2 DEF Tops
<1> DEFINE S == {k \in Nat : t + k <= i => h[t + k] = f[t + k]}
<1>4. \A j \in t..i : h[j] = IF j = t THEN ListTop ELSE h[j - 1] + disks[j - 1].height + 1
  BY <1>2
<1>5. 0 \in S
  BY <1>0, <1>4 DEF TopsMade
<1>6. ASSUME NEW k \in Nat, k \in S PROVE k + 1 \in S
  <2> SUFFICES ASSUME t + (k + 1) <= i PROVE h[t + (k + 1)] = f[t + (k + 1)]
    OBVIOUS
  <2>1. PICK j \in (t + 1)..n : j = t + (k + 1) /\ j \in t..i /\ j # t /\ j - 1 = t + k
    BY <1>0
  <2>2. h[j - 1] = f[j - 1]
    BY <1>6, <2>1
  <2>3. h[j] = h[j - 1] + disks[j - 1].height + 1
    BY <1>4, <2>1
  <2>4. f[j] = f[j - 1] + disks[j - 1].height + 1
    BY <1>0, <2>1 DEF TopsMade
  <2> QED BY <2>1, <2>2, <2>3, <2>4
<1> HIDE DEF S
<1>7. i - t \in S
  BY <1>0, <1>5, <1>6, NatSet
<1>8. h[i] = f[i]
  <2>1. i - t \in Nat /\ t + (i - t) = i
    BY <1>0
  <2> QED BY <1>7, <2>1 DEF S
<1> QED BY <1>3, <1>8

\* A disk ends before the next one begins.
LEMMA TopsGrow ==
  ASSUME NEW disks \in Seq(DiskRec), NEW t \in 1..Len(disks), NEW f, TopsMade(f, disks, t, Len(disks)),
         NEW i \in t..Len(disks), NEW j \in (i + 1)..Len(disks)
  PROVE  f[i] + disks[i].height + 1 <= f[j]
<1>0. PICK n \in Nat : n = Len(disks) /\ t \in 1..n /\ i \in t..n /\ j \in (i + 1)..n
  BY LenProperties
<1>1. \A k \in t..n : f[k] \in Int /\ disks[k].height \in Nat
  <2>1. \A k \in t..n : k \in 1..n
    BY <1>0
  <2> QED BY <1>0, <2>1, HeightIs DEF TopsMade
<1>2. \A k \in (t + 1)..n : f[k] = f[k - 1] + disks[k - 1].height + 1
  BY <1>0 DEF TopsMade
<1> DEFINE S == {k \in Nat : i + 1 + k <= n => f[i] + disks[i].height + 1 <= f[i + 1 + k]}
<1>3. 0 \in S
  <2>1. i + 1 \in (t + 1)..n /\ (i + 1) - 1 = i
    BY <1>0
  <2>2. f[i + 1] = f[i] + disks[i].height + 1
    BY <1>2, <2>1
  <2> QED BY <1>0, <1>1, <2>2
<1>4. ASSUME NEW k \in Nat, k \in S PROVE k + 1 \in S
  <2> SUFFICES ASSUME i + 1 + (k + 1) <= n PROVE f[i] + disks[i].height + 1 <= f[i + 1 + (k + 1)]
    OBVIOUS
  <2>1. PICK a \in t..n : a = i + 1 + k
    BY <1>0
  <2>2. a + 1 \in (t + 1)..n /\ (a + 1) - 1 = a /\ a + 1 = i + 1 + (k + 1)
    BY <1>0, <2>1
  <2>3. f[a + 1] = f[a] + disks[a].height + 1
    BY <1>2, <2>2
  <2>4. f[i] + disks[i].height + 1 <= f[a]
    BY <1>4, <2>1, <2>2, <1>0
  <2>5. f[a] \in Int /\ disks[a].height \in Nat /\ f[i] \in Int /\ disks[i].height \in Nat
    BY <1>0, <1>1
  <2>6. PICK x \in Int, y \in Int, u \in Nat, v \in Nat :
          x = f[a] /\ y = f[i] /\ u = disks[i].height /\ v = disks[a].height
    BY <2>5
  <2>7. y + u + 1 <= x + v + 1
    <3>1. y + u + 1 <= x
      BY ONLY <2>4, <2>6
    <3> QED BY ONLY <3>1, x \in Int, y \in Int, u \in Nat, v \in Nat
  <2>8. y + u + 1 <= f[a + 1]
    BY <2>3, <2>6, <2>7
  <2> QED BY <2>2, <2>6, <2>8
<1> HIDE DEF S
<1>5. j - (i + 1) \in S
  BY <1>0, <1>3, <1>4, NatSet
<1>6. j - (i + 1) \in Nat /\ i + 1 + (j - (i + 1)) = j /\ j <= n
  BY <1>0
<1> QED BY <1>5, <1>6 DEF S

\* Each disk has its own cells of the list.
LEMMA DiskTopIs ==
  ASSUME NEW w \in WinRec, NEW t \in 1..Len(w.disks), NEW i \in t..Len(w.disks)
  PROVE  /\ DiskTop(w, t, i) \in Int /\ DiskTop(w, t, i) >= ListTop /\ DiskTop(w, t, t) = ListTop
         /\ w.disks[i].height \in Nat \ {0} /\ w.disks[i].id \in Nat
         /\ \A j \in (i + 1)..Len(w.disks) : DiskTop(w, t, i) + w.disks[i].height + 1 <= DiskTop(w, t, j)
<1>0. PICK d \in Seq(DiskRec), n \in Nat : d = w.disks /\ n = Len(d) /\ t \in 1..n /\ i \in t..n
  BY LenProperties DEF WinRec
<1>1. PICK f : TopsMade(f, d, t, n)
  BY <1>0, TopsExist
<1>2. \A j \in t..n : DiskTop(w, t, j) = f[j]
  BY <1>0, <1>1, TopsAre, TopsSame
<1>3. ASSUME NEW j \in (i + 1)..n PROVE f[i] + d[i].height + 1 <= f[j]
  BY <1>0, <1>1, TopsGrow
<1>4. f[i] \in Int /\ f[t] = ListTop /\ ListTop \in Int
  BY <1>0, <1>1 DEF TopsMade, ListTop
<1>5. f[i] >= ListTop
  <2>1. CASE i = t
    BY <1>4, <2>1
  <2>2. CASE i # t
    <3>1. t \in 1..Len(d) /\ t \in t..Len(d) /\ i \in (t + 1)..Len(d)
      BY <1>0, <2>2
    <3>2. f[t] + d[t].height + 1 <= f[i]
      BY <1>0, <1>1, <3>1, TopsGrow
    <3>3. d[t].height \in Nat
      BY <3>1, HeightIs
    <3> QED BY <1>4, <3>2, <3>3
  <2> QED BY <2>1, <2>2
<1>6. d[i].height \in Nat \ {0} /\ d[i].id \in Nat
  <2>1. i \in 1..Len(d)
    BY <1>0
  <2> QED BY <2>1, HeightIs
<1>7. \A j \in (i + 1)..n : j \in t..n
  BY <1>0
<1>8. i \in t..n /\ t \in t..n
  BY <1>0
<1>9. DiskTop(w, t, i) = f[i] /\ DiskTop(w, t, t) = f[t]
  BY <1>2, <1>8
<1>10. \A j \in (i + 1)..n : DiskTop(w, t, j) = f[j]
  BY <1>2, <1>7
<1> QED BY <1>0, <1>3, <1>4, <1>5, <1>6, <1>9, <1>10

LEMMA DisksApart ==
  ASSUME NEW w \in WinRec, NEW t \in 1..Len(w.disks), NEW i \in t..Len(w.disks), NEW j \in t..Len(w.disks), NEW c,
         c \in Part(DiskTop(w, t, i), w.disks[i].height), c \in Part(DiskTop(w, t, j), w.disks[j].height)
  PROVE  i = j
<1>0. PICK n \in Nat : n = Len(w.disks) /\ t \in 1..n /\ i \in t..n /\ j \in t..n
  BY LenProperties DEF WinRec
<1>1. PICK a \in Int, h \in Nat : a = DiskTop(w, t, i) /\ h = w.disks[i].height
  BY DiskTopIs
<1>2. PICK b \in Int, k \in Nat : b = DiskTop(w, t, j) /\ k = w.disks[j].height
  BY DiskTopIs
<1>3. c \in a..(a + h - 1) /\ c \in b..(b + k - 1)
  BY <1>1, <1>2 DEF Part
<1>4. CASE i < j
  <2>1. j \in (i + 1)..Len(w.disks)
    BY <1>0, <1>4
  <2>2. a + h + 1 <= b
    BY <1>1, <1>2, <2>1, DiskTopIs
  <2> QED BY <1>3, <2>2
<1>5. CASE j < i
  <2>1. i \in (j + 1)..Len(w.disks)
    BY <1>0, <1>5
  <2>2. b + k + 1 <= a
    BY <1>1, <1>2, <2>1, DiskTopIs
  <2> QED BY <1>3, <2>2
<1> QED BY <1>0, <1>4, <1>5

-----------------------------------------------------------------------------
(* What is seen of the lists.                                              *)

LEMMA Regions ==
  /\ \A c \in ListArea : c \in Cells /\ c \notin Buttons /\ c # Message
  /\ \A c \in BarArea : c \in Cells /\ c \notin Buttons /\ c \notin ListArea /\ c # Message
  /\ \A c \in BodyTop..(Message - 1) :
       c \in Cells /\ c \notin Buttons /\ c \notin ListArea /\ c \notin BarArea /\ c # Message
  /\ \A c \in Cells : c \in Buttons \/ c \in ListArea \/ c \in BarArea \/ c = Message \/ c \in BodyTop..(Message - 1)
  /\ Message \notin Buttons /\ Message \notin ListArea /\ ListTop \in ListArea
<1>1. PICK a \in Nat \ {0}, b \in Nat \ {0}, m \in Nat \ {0} : a = ListCells /\ b = BarCells /\ m = BodyCells
  BY ScreenAssumption
<1>2. BarTop = 3 + a /\ BodyTop = 3 + a + b /\ Message = 3 + a + b + m
  BY <1>1, Places
<1>3. /\ ListArea = 3..(3 + a - 1) /\ BarArea = (3 + a)..(3 + a + b - 1) /\ Buttons = {0, 1, 2}
      /\ Cells = 0..(3 + a + b + m) /\ ListTop = 3
  BY <1>1, <1>2 DEF ListArea, BarArea, Part, ListTop, Buttons, Quit, New, Rescan, Cells
<1> QED BY <1>2, <1>3

\* A cell of the list shows the disk that is there, and it only.
LEMMA DiskSeen ==
  ASSUME NEW w \in WinRec, NEW c \in ListArea, NEW i \in w.dtop..Len(w.disks),
         c \in Part(DiskTop(w, w.dtop, i), w.disks[i].height)
  PROVE  \E x : Picture(w)[c] = Cell("disk", w.disks[i].id, Look(i = w.dsel, w.focus = "disks"), x)
<1>0. PICK t \in Nat \ {0}, n \in Nat : t = w.dtop /\ n = Len(w.disks)
  BY LenProperties DEF WinRec
<1>1. t \in 1..n
  BY <1>0
<1> DEFINE shown == {j \in w.dtop..Len(w.disks) : c \in Part(DiskTop(w, w.dtop, j), w.disks[j].height)}
<1>2. i \in shown
  OBVIOUS
<1>3. ASSUME NEW j \in shown PROVE j = i
  BY <1>0, <1>1, DisksApart
<1>4. PICK k : k = (CHOOSE j \in shown : TRUE) /\ k = i
  <2> HIDE DEF shown
  <2>1. (CHOOSE j \in shown : TRUE) \in shown
    BY <1>2
  <2> QED BY <1>3, <2>1
<1>5. DiskCell(w, c) = Cell("disk", w.disks[k].id, Look(k = w.dsel, w.focus = "disks"),
                            IF k = w.dsel /\ w.changed THEN <<1>> ELSE <<>>)
  <2>1. shown # {}
    BY <1>2
  <2> QED BY <1>4, <2>1 DEF DiskCell
<1>6. Picture(w)[c] = DiskCell(w, c)
  BY Regions DEF Picture
<1> QED BY <1>4, <1>5, <1>6

LEMMA NoDiskSeen ==
  ASSUME NEW w, NEW c \in ListArea,
         {i \in w.dtop..Len(w.disks) : c \in Part(DiskTop(w, w.dtop, i), w.disks[i].height)} = {}
  PROVE  Picture(w)[c] = Blank
<1>1. Picture(w)[c] = DiskCell(w, c)
  BY Regions DEF Picture
<1> QED BY <1>1 DEF DiskCell

\* Disks are seen in the list only.
LEMMA DiskWhere ==
  ASSUME NEW w, NEW c \in Cells, Picture(w)[c].of = "disk"
  PROVE  c \in ListArea
<1> SUFFICES ASSUME c \notin ListArea PROVE FALSE
  OBVIOUS
<1>1. CASE c \in Buttons
  <2>1. Picture(w)[c] = Cell("button", c, Look(w.hover = c, TRUE), <<>>)
    BY <1>1 DEF Picture
  <2> QED BY <2>1 DEF Cell
<1>2. CASE c \notin Buttons /\ c = Message
  <2>1. Picture(w)[c] = Cell("message", w.msg, "plain", <<>>)
    BY <1>2 DEF Picture
  <2> QED BY <2>1 DEF Cell
<1>3. CASE c \notin Buttons /\ c # Message
  <2>1. Picture(w)[c] = Blank \/ Picture(w)[c] = BarCell(w, c) \/ Picture(w)[c] = RowCell(w, c)
    BY <1>3 DEF Picture
  <2> QED BY <2>1, BlankIs, BarCellOK, RowCellOK
<1> QED BY <1>1, <1>2, <1>3

LEMMA RowSeen ==
  ASSUME NEW w \in WinRec, w.disks # <<>>, w.notes < BodyCells, NEW i \in 1..Len(w.rows), NEW c,
         c = BodyTop + (i - w.top), c \in BodyTop..(Message - 1), c - BodyTop < VisibleRows(w)
  PROVE  Picture(w)[c] = Cell("row", w.rows[i].id, Look(i = w.sel, w.focus = "rows"), <<>>)
<1>1. Picture(w)[c] = RowCell(w, c)
  BY Regions DEF Picture
<1>2. PICK b \in Nat, m \in Nat, n \in Nat, t \in Nat \ {0}, k \in Nat, L \in Nat :
        b = BodyTop /\ m = BodyCells /\ n = w.notes /\ t = w.top /\ k = i /\ L = Len(w.rows)
  <2>1. BodyTop \in Nat /\ BodyCells \in Nat
    BY Places, ScreenAssumption
  <2>2. w.notes \in Nat /\ w.top \in Nat \ {0} /\ Len(w.rows) \in Nat /\ i \in Nat
    BY LenProperties DEF WinRec
  <2> QED BY <2>1, <2>2
<1>3. VisibleRows(w) = m - n /\ Message = b + m /\ n < m
  <2>1. n < m
    BY <1>2
  <2>2. Message = b + m
    BY ONLY <1>2, Places
  <2>3. VisibleRows(w) = m - n
    BY ONLY <1>2, <2>1, m \in Nat, n \in Nat DEF VisibleRows, AtLeastOne
  <2> QED BY <2>1, <2>2, <2>3
<1>4. c = b + (k - t) /\ c \in Int /\ c - b < m - n /\ k \in 1..L
  <2>1. c = b + (k - t) /\ k \in 1..L
    BY <1>2
  <2>2. c - b < m - n
    BY <1>2, <1>3
  <2> QED BY ONLY <2>1, <2>2, b \in Nat, k \in Nat, t \in Nat \ {0}
<1>5. ~(c >= Message - w.notes) /\ w.top + (c - BodyTop) = i /\ i <= Len(w.rows)
  <2>1. ~(c >= (b + m) - n) /\ t + (c - b) = k /\ k <= L
    BY ONLY <1>3, <1>4, b \in Nat, m \in Nat, n \in Nat, k \in Nat, t \in Nat \ {0}, L \in Nat
  <2> QED BY ONLY <2>1, <1>2, <1>3
<1>6. w.rows # <<>>
  BY <1>2, <1>4
<1>7. PICK j : j = w.top + (c - BodyTop) /\ j = i
  BY <1>5
<1>8. RowCell(w, c) = Cell("row", w.rows[j].id, Look(j = w.sel, w.focus = "rows"), <<>>)
  BY <1>5, <1>6, <1>7 DEF RowCell
<1> QED BY <1>1, <1>7, <1>8

LEMMA LookIs ==
  ASSUME NEW focused
  PROVE  Look(TRUE, focused) # "plain" /\ Look(FALSE, focused) = "plain"
BY DEF Look

\* What the list of disks shows of the selected one.
LEMMA DiskInView ==
  ASSUME NEW w, WinOK(FALSE, w), Scrolls(FALSE, w), w.disks # <<>>,
         NEW D, D = {c \in Cells : /\ Picture(w)[c].of = "disk" /\ Picture(w)[c].n = w.disks[w.dsel].id
                                   /\ Picture(w)[c].look # "plain"}
  PROVE  ListTop \in D \/ Cardinality(D) = w.disks[w.dsel].height
<1>0. PICK t \in Nat \ {0}, d \in Nat \ {0}, n \in Nat :
        t = w.dtop /\ d = w.dsel /\ n = Len(w.disks) /\ w \in WinRec /\ d <= n /\ t <= d
  BY LenProperties DEF WinOK, Scrolls, WinRec
<1>1. t \in 1..n /\ d \in t..n
  BY <1>0
<1>2. PICK a \in Int, h \in Nat \ {0} : a = DiskTop(w, t, d) /\ h = w.disks[d].height /\ a >= ListTop
  BY <1>0, <1>1, DiskTopIs
<1>3. ASSUME NEW c \in Part(a, h), c \in ListArea PROVE c \in D
  <2>1. PICK x : Picture(w)[c] = Cell("disk", w.disks[d].id, Look(TRUE, w.focus = "disks"), x)
    <3>1. \E x : Picture(w)[c] = Cell("disk", w.disks[d].id, Look(d = w.dsel, w.focus = "disks"), x)
      BY <1>0, <1>1, <1>2, <1>3, DiskSeen
    <3>2. (d = w.dsel) = TRUE
      BY <1>0
    <3> QED BY <3>1, <3>2
  <2>2. /\ Picture(w)[c].of = "disk" /\ Picture(w)[c].n = w.disks[d].id
        /\ Picture(w)[c].look = Look(TRUE, w.focus = "disks")
    BY ONLY <2>1 DEF Cell
  <2>3. Look(TRUE, w.focus = "disks") # "plain"
    BY LookIs
  <2> QED BY <1>0, <1>3, <2>2, <2>3, Regions
<1>4. CASE t = d
  <2>1. a = ListTop
    BY <1>0, <1>1, <1>2, <1>4, DiskTopIs
  <2>2. ListTop \in Part(a, h)
    BY <1>2, <2>1 DEF Part, ListTop
  <2> QED BY <1>3, <2>2, Regions
<1>5. CASE t # d
  <2>1. a + h + 1 <= BarTop
    BY <1>0, <1>2, <1>5 DEF Scrolls, ListFits
  <2>2. Part(a, h) \subseteq ListArea
    <3>1. ListArea = ListTop..(BarTop - 1) /\ BarTop \in Nat /\ ListTop \in Nat
      BY Places, ScreenAssumption DEF ListArea, Part, BarTop, ListTop
    <3>2. Part(a, h) = a..(a + h - 1)
      BY DEF Part
    <3>3. PICK f \in Nat, l \in Nat : f = ListTop /\ l = BarTop
      BY <3>1
    <3>4. f <= a /\ a + h + 1 <= l
      BY <1>2, <2>1, <3>3
    <3>5. a..(a + h - 1) \subseteq f..(l - 1)
      BY ONLY <3>4, a \in Int, h \in Nat \ {0}, f \in Nat, l \in Nat
    <3> QED BY ONLY <3>1, <3>2, <3>3, <3>5
  <2>3. ASSUME NEW c \in D PROVE c \in Part(a, h)
    <3>1. c \in Cells /\ Picture(w)[c].of = "disk" /\ Picture(w)[c].look # "plain"
      OBVIOUS
    <3>2. c \in ListArea
      BY <3>1, DiskWhere
    <3>3. PICK i \in w.dtop..Len(w.disks) : c \in Part(DiskTop(w, w.dtop, i), w.disks[i].height)
      <4> SUFFICES ASSUME {i \in w.dtop..Len(w.disks) :
                             c \in Part(DiskTop(w, w.dtop, i), w.disks[i].height)} = {}
                   PROVE  FALSE
        OBVIOUS
      <4>1. Picture(w)[c] = Blank
        BY <3>2, NoDiskSeen
      <4> QED BY <3>1, <4>1, BlankIs
    <3>4. CASE i = w.dsel
      BY <1>0, <1>2, <3>3, <3>4
    <3>5. CASE i # w.dsel
      <4>1. PICK x : Picture(w)[c] = Cell("disk", w.disks[i].id, Look(FALSE, w.focus = "disks"), x)
        <5>1. \E x : Picture(w)[c] = Cell("disk", w.disks[i].id, Look(i = w.dsel, w.focus = "disks"), x)
          BY <1>0, <3>2, <3>3, DiskSeen
        <5>2. (i = w.dsel) = FALSE
          BY <3>5
        <5> QED BY <5>1, <5>2
      <4>2. Picture(w)[c].look = Look(FALSE, w.focus = "disks")
        BY ONLY <4>1 DEF Cell
      <4>3. Look(FALSE, w.focus = "disks") = "plain"
        BY LookIs
      <4> QED BY <3>1, <4>2, <4>3
    <3> QED BY <3>4, <3>5
  <2>4. D = Part(a, h)
    BY <1>3, <2>2, <2>3
  <2>5. Cardinality(a..(a + h - 1)) = h
    <3>1. a + h - 1 \in Int /\ ~(a > a + h - 1) /\ (a + h - 1) - a + 1 = h
      BY <1>2
    <3> QED BY <3>1, FS_Interval
  <2> QED BY <1>0, <1>2, <2>4, <2>5 DEF Part
<1> QED BY <1>4, <1>5

\* The selected row is seen.
LEMMA RowInView ==
  ASSUME setup \in Setups, NEW w, WinOK(setup.text, w), Scrolls(setup.text, w), w.disks # <<>>, w.rows # <<>>
  PROVE  \E c \in Cells : /\ Drawing(w)[c].of = "row" /\ Drawing(w)[c].n = w.rows[w.sel].id
                          /\ Drawing(w)[c].look # "plain"
<1>0. PICK s \in Nat \ {0}, t \in Nat \ {0}, n \in Nat, L \in Nat :
        /\ s = w.sel /\ t = w.top /\ n = w.notes /\ L = Len(w.rows) /\ s <= L /\ t <= s
        /\ w \in WinRec /\ setup.text \in BOOLEAN
  BY SetupFacts, LenProperties DEF WinOK, Scrolls, WinRec
<1>1. CASE setup.text
  <2>1. TextRows = 3 /\ TextTop = 1 /\ TextStatus = 4 /\ n < 2
    BY <1>0, <1>1 DEF WinOK, TextRows, TextTop, TextStatus
  <2>2. PICK v \in Nat \ {0} : v = TextVisible(w) /\ s < t + v /\ v = 3 - (IF n = 0 THEN 0 ELSE n + 1)
    BY <1>0, <1>1, <2>1 DEF TextVisible, AtLeastOne, Scrolls
  <2>3. PICK c \in Cells : c = 1 + (s - t) /\ c \in 1..v
    <3>1. 1 + (s - t) \in 1..v /\ v <= 3
      <4>1. t <= s /\ s < t + v /\ v = 3 - (IF n = 0 THEN 0 ELSE n + 1)
        BY <1>0, <2>2
      <4> QED BY ONLY <4>1, s \in Nat \ {0}, t \in Nat \ {0}, n \in Nat, v \in Nat \ {0}
    <3>2. 1..3 \subseteq Cells
      BY ONLY Places DEF Cells
    <3>3. 1 + (s - t) \in Cells
      BY ONLY <3>1, <3>2, v \in Nat \ {0}
    <3> QED BY <3>1, <3>3
  <2>4. /\ c # 0 /\ c # TextStatus /\ c \notin (TextStatus - w.notes)..(TextStatus - 1)
        /\ c \in Part(TextTop, TextVisible(w)) /\ w.top + (c - TextTop) = s
    <3>1. c # 0 /\ c # 4 /\ c \notin (4 - n)..3 /\ c \in 1..(1 + v - 1) /\ t + (c - 1) = s
      <4>1. c \in 1..v /\ c = 1 + (s - t) /\ v = 3 - (IF n = 0 THEN 0 ELSE n + 1)
        BY <2>2, <2>3
      <4> QED BY ONLY <4>1, s \in Nat \ {0}, t \in Nat \ {0}, n \in Nat, v \in Nat \ {0}
    <3>2. TextStatus - w.notes = 4 - n /\ TextStatus - 1 = 3
      BY ONLY <1>0, <2>1
    <3>3. Part(TextTop, TextVisible(w)) = 1..(1 + v - 1)
      BY ONLY <2>1, <2>2 DEF Part
    <3> QED BY ONLY <1>0, <2>1, <3>1, <3>2, <3>3
  <2>5. PICK i : i = w.top + (c - TextTop) /\ i = s
    BY <2>4
  <2>6. TextPicture(w)[c] = Cell("row", w.rows[i].id, Look(i = w.sel, TRUE), <<>>)
    BY <1>0, <2>4, <2>5 DEF TextPicture
  <2>7. (i = w.sel) = TRUE
    BY <1>0, <2>5
  <2>8. TextPicture(w)[c] = Cell("row", w.rows[w.sel].id, Look(TRUE, TRUE), <<>>)
    BY <1>0, <2>5, <2>6, <2>7
  <2>9. Drawing(w)[c] = Cell("row", w.rows[w.sel].id, Look(TRUE, TRUE), <<>>)
    BY <1>1, <2>8 DEF Drawing
  <2>10. /\ Drawing(w)[c].of = "row" /\ Drawing(w)[c].n = w.rows[w.sel].id
         /\ Drawing(w)[c].look = Look(TRUE, TRUE)
    BY ONLY <2>9 DEF Cell
  <2>11. Look(TRUE, TRUE) # "plain"
    BY LookIs
  <2> QED BY <2>10, <2>11
<1>2. CASE ~setup.text
  <2>1. n < BodyCells /\ BodyCells \in Nat /\ BodyTop \in Nat /\ Message = BodyTop + BodyCells
    BY <1>0, <1>2, ScreenAssumption, Places DEF WinOK
  <2>2. PICK v \in Nat : v = VisibleRows(w) /\ s < t + v /\ v = BodyCells - n
    BY <1>0, <1>2, <2>1 DEF VisibleRows, AtLeastOne, Scrolls
  <2>3. PICK c : c = BodyTop + (s - t)
    OBVIOUS
  <2>4. c \in BodyTop..(Message - 1) /\ c - BodyTop < v
    <3>1. PICK b \in Nat, m \in Nat : b = BodyTop /\ m = BodyCells
      BY <2>1
    <3>2. t <= s /\ s < t + v /\ v = m - n /\ n < m
      BY <1>0, <2>1, <2>2, <3>1
    <3>3. b + (s - t) \in b..(b + m - 1) /\ (b + (s - t)) - b < v
      BY ONLY <3>2, b \in Nat, m \in Nat, s \in Nat \ {0}, t \in Nat \ {0}, n \in Nat, v \in Nat
    <3> QED BY ONLY <2>1, <2>3, <3>1, <3>3
  <2>5. s \in 1..L
    BY <1>0
  <2>6. Picture(w)[c] = Cell("row", w.rows[s].id, Look(s = w.sel, w.focus = "rows"), <<>>)
    BY <1>0, <2>1, <2>2, <2>3, <2>4, <2>5, RowSeen
  <2>7. (s = w.sel) = TRUE
    BY <1>0
  <2>8. Picture(w)[c] = Cell("row", w.rows[w.sel].id, Look(TRUE, w.focus = "rows"), <<>>)
    BY <1>0, <2>6, <2>7
  <2>9. c \in Cells
    BY <2>4, Regions
  <2>10. Drawing(w)[c] = Cell("row", w.rows[w.sel].id, Look(TRUE, w.focus = "rows"), <<>>)
    BY <1>2, <2>8 DEF Drawing
  <2>11. /\ Drawing(w)[c].of = "row" /\ Drawing(w)[c].n = w.rows[w.sel].id
         /\ Drawing(w)[c].look = Look(TRUE, w.focus = "rows")
    BY ONLY <2>10 DEF Cell
  <2>12. Look(TRUE, w.focus = "rows") # "plain"
    BY LookIs
  <2> QED BY <2>9, <2>11, <2>12
<1> QED BY <1>0, <1>1, <1>2

LEMMA ItemInView ==
  ASSUME WindowInv, dlg.kind = "menu"
  PROVE  \E c \in Cells : canvas[c].of = "item" /\ canvas[c].n = dlg.sel /\ canvas[c].look # "plain"
<1>0. /\ dlg.kind \in Kinds /\ dlg \in DlgRec(dlg.saved) /\ MenuOK(dlg)
      /\ \A c \in BoxArea(dlg) : canvas[c] = BoxCell(dlg, c)
  BY DEF WindowInv, DlgOK, DlgDrawn, Kinds
<1>1. PICK s \in Nat \ {0}, t \in Int, h \in Nat \ {0}, b \in Nat :
        /\ s = dlg.sel /\ t = dlg.top /\ h = MenuHeight(dlg) /\ b = BoxTop(dlg)
        /\ t <= s /\ s < t + h /\ Extra(dlg) = h
  <2>1. dlg.items \in Nat /\ dlg.sel \in Nat \ {0} /\ dlg.top \in Int
    BY <1>0 DEF DlgRec
  <2> QED BY <1>0, <2>1, BoxOnScreen DEF MenuOK
<1>2. PICK c : c = b + 1 + (s - t)
  OBVIOUS
<1>3. c \in ExtraArea(dlg) /\ c \in BoxArea(dlg) /\ c \in Cells /\ c # BoxTop(dlg)
  <2>1. dlg.items \in Nat
    BY <1>0 DEF DlgRec
  <2>2. c \in (b + 1)..(b + h) /\ c # b
    BY <1>1, <1>2
  <2> QED BY <1>0, <1>1, <2>1, <2>2, BoxOnScreen
<1>4. PICK i : i = dlg.top + (c - BoxTop(dlg) - 1) /\ i = s
  BY <1>1, <1>2
<1>5. canvas[c] = Cell("item", i, Look(i = dlg.sel, TRUE), <<>>)
  BY <1>0, <1>3, <1>4 DEF BoxCell, ExtraCell
<1>6. (i = dlg.sel) = TRUE
  BY <1>1, <1>4
<1>7. canvas[c] = Cell("item", dlg.sel, Look(TRUE, TRUE), <<>>)
  BY <1>1, <1>4, <1>5, <1>6
<1>8. canvas[c].of = "item" /\ canvas[c].n = dlg.sel /\ canvas[c].look = Look(TRUE, TRUE)
  BY ONLY <1>7 DEF Cell
<1>9. Look(TRUE, TRUE) # "plain"
  BY LookIs
<1> QED BY <1>3, <1>8, <1>9

\* The selected disk, row and item are on the screen whenever it waits
\* (draw_disks and draw_table of gui.c, diskview.c, ui_menu).
THEOREM InViewTheorem == Spec => []SelectedInView
<1>1. WindowInv => SelectedInView
  <2> SUFFICES ASSUME WindowInv PROVE SelectedInView
    OBVIOUS
  <2> DEFINE drawn(of, n) == {c \in Cells : canvas[c].of = of /\ canvas[c].n = n /\ canvas[c].look # "plain"}
  <2>1. ASSUME InWindow, win.disks # <<>>
        PROVE  /\ win.rows # <<>> => drawn("row", win.rows[win.sel].id) # {}
               /\ ~setup.text => ListTop \in drawn("disk", win.disks[win.dsel].id)
                                 \/ Cardinality(drawn("disk", win.disks[win.dsel].id)) = win.disks[win.dsel].height
    <3>1. setup \in Setups /\ WinOK(setup.text, win) /\ Scrolls(setup.text, win) /\ canvas = Drawing(win)
      BY <2>1 DEF WindowInv
    <3>2. win.rows # <<>> => drawn("row", win.rows[win.sel].id) # {}
      BY <2>1, <3>1, RowInView
    <3>3. ASSUME ~setup.text
          PROVE  ListTop \in drawn("disk", win.disks[win.dsel].id)
                 \/ Cardinality(drawn("disk", win.disks[win.dsel].id)) = win.disks[win.dsel].height
      <4>1. setup.text = FALSE /\ canvas = Picture(win)
        BY <3>1, <3>3, SetupFacts DEF Drawing
      <4>2. PICK D : D = drawn("disk", win.disks[win.dsel].id)
        OBVIOUS
      <4>3. D = {c \in Cells : /\ Picture(win)[c].of = "disk" /\ Picture(win)[c].n = win.disks[win.dsel].id
                               /\ Picture(win)[c].look # "plain"}
        BY <4>1, <4>2
      <4>4. WinOK(FALSE, win) /\ Scrolls(FALSE, win)
        BY <3>1, <4>1
      <4> QED BY <2>1, <4>2, <4>3, <4>4, DiskInView
    <3> QED BY <3>2, <3>3
  <2>2. InDialog("menu") => drawn("item", dlg.sel) # {}
    BY ItemInView DEF InDialog
  <2> QED BY <2>1, <2>2 DEF SelectedInView
<1> QED BY <1>1, WindowInvariant, PTL

-----------------------------------------------------------------------------
(* Clicks.                                                                 *)

Taking == {"row", "disk", "button", "dbutton", "item", "stop"}

LEMMA NamedIs ==
  ASSUME NEW of, NEW n, NEW look, NEW text
  PROVE  Named(Cell(of, n, look, text)) = IF of \in Taking THEN <<of, n>> ELSE Nothing
BY DEF Named, Cell, Taking

LEMMA NamedNone ==
  ASSUME NEW x, x.of \notin Taking \/ x.dim
  PROVE  Named(x) = Nothing
BY DEF Named, Taking

\* The lists of two windows are shown alike.
SameLists(w, v) ==
  w.disks = v.disks /\ w.dtop = v.dtop /\ w.rows = v.rows /\ w.top = v.top /\ w.notes = v.notes

LEMMA DiskClickTakes ==
  ASSUME NEW v \in WinRec, NEW w, SameLists(w, v), NEW x \in ListArea
  PROVE  /\ DiskClicked(w, x) = {} => Named(Picture(v)[x]) = Nothing
         /\ \A i \in DiskClicked(w, x) : Named(Picture(v)[x]) = <<"disk", w.disks[i].id>>
<1>0. \A i : DiskTop(w, w.dtop, i) = DiskTop(v, v.dtop, i)
  BY TopsSame DEF SameLists
<1>1. DiskClicked(w, x) = {i \in v.dtop..Len(v.disks) : x \in Part(DiskTop(v, v.dtop, i), v.disks[i].height)}
  BY <1>0 DEF DiskClicked, SameLists
<1>2. ASSUME DiskClicked(w, x) = {} PROVE Named(Picture(v)[x]) = Nothing
  <2>1. Picture(v)[x] = Blank
    BY <1>1, <1>2, NoDiskSeen
  <2> QED BY <2>1, BlankIs, NamedNone DEF Taking
<1>3. ASSUME NEW i \in DiskClicked(w, x) PROVE Named(Picture(v)[x]) = <<"disk", w.disks[i].id>>
  <2>1. i \in v.dtop..Len(v.disks) /\ x \in Part(DiskTop(v, v.dtop, i), v.disks[i].height)
    BY <1>1
  <2>2. PICK t : Picture(v)[x] = Cell("disk", v.disks[i].id, Look(i = v.dsel, v.focus = "disks"), t)
    BY <2>1, DiskSeen
  <2>3. PICK n, l : n = v.disks[i].id /\ l = Look(i = v.dsel, v.focus = "disks")
    OBVIOUS
  <2>4. Named(Cell("disk", n, l, t)) = <<"disk", n>>
    BY NamedIs DEF Taking
  <2> QED BY <2>2, <2>3, <2>4 DEF SameLists
<1> QED BY <1>2, <1>3

LEMMA SpanClickTakes ==
  ASSUME NEW v, WinOK(FALSE, v), NEW w, SameLists(w, v), NEW x \in BarArea, SpanClicked(w, x) # {}
  PROVE  Picture(v)[x].of = "span"
<1>1. PICK i \in 1..Len(v.rows) : ~v.rows[i].ext /\ Covers(v, i, x)
  BY DEF SpanClicked, SameLists, Covers
<1>2. v.disks # <<>>
  <2>1. v.rows # <<>>
    BY <1>1
  <2> QED BY <2>1 DEF WinOK
<1>3. Picture(v)[x] = BarCell(v, x)
  BY <1>2, Regions DEF Picture
<1> DEFINE here == {j \in 1..Len(v.rows) : Covers(v, j, x)}
           front == {j \in here : ~v.rows[j].ext}
<1>4. front # {}
  BY <1>1
<1>5. \E n, l : BarCell(v, x) = Cell("span", n, l, <<>>)
  BY <1>4 DEF BarCell
<1> QED BY <1>3, <1>5 DEF Cell

LEMMA RowClickTakes ==
  ASSUME NEW v, WinOK(FALSE, v), NEW w, SameLists(w, v), NEW x \in BodyTop..(Message - 1)
  PROVE  /\ RowClicked(w, x) = {} => Named(Picture(v)[x]) = Nothing
         /\ \A i \in RowClicked(w, x) : Named(Picture(v)[x]) = <<"row", w.rows[i].id>>
<1>0. v \in WinRec /\ VisibleRows(w) = VisibleRows(v) /\ w.top = v.top /\ w.rows = v.rows
  BY DEF WinOK, SameLists, VisibleRows
<1>1. RowClicked(w, x) = {i \in {v.top + (x - BodyTop)} : x - BodyTop < VisibleRows(v) /\ i <= Len(v.rows)}
  BY <1>0 DEF RowClicked
<1>a. BodyTop \in Nat /\ BodyCells \in Nat /\ Message = BodyTop + BodyCells
  BY Places, ScreenAssumption
<1>b. v.notes \in Nat /\ v.top \in Nat \ {0} /\ Len(v.rows) \in Nat /\ v.notes < BodyCells
  BY <1>0, LenProperties DEF WinRec, WinOK
<1>c. PICK b \in Nat, m \in Nat, n \in Nat : b = BodyTop /\ m = BodyCells /\ n = v.notes
  BY ONLY <1>a, <1>b
<1>d. PICK t \in Nat \ {0}, L \in Nat : t = v.top /\ L = Len(v.rows)
  BY ONLY <1>b
<1>e. n < m /\ Message = b + m
  BY ONLY <1>a, <1>b, <1>c
<1>f. x \in b..(b + m - 1)
  BY ONLY <1>c, <1>e, x \in BodyTop..(Message - 1), m \in Nat, b \in Nat
<1>2. /\ b = BodyTop /\ m = BodyCells /\ n = v.notes /\ t = v.top /\ L = Len(v.rows)
      /\ n < m /\ Message = b + m /\ x \in b..(b + m - 1)
  BY ONLY <1>c, <1>d, <1>e, <1>f
<1>3. VisibleRows(v) = m - n
  BY ONLY <1>2, m \in Nat, n \in Nat DEF VisibleRows, AtLeastOne
<1>4. PICK i \in Nat \ {0} : i = v.top + (x - BodyTop) /\ i = t + (x - b)
  <2>1. t + (x - b) \in Nat \ {0}
    BY ONLY <1>2, b \in Nat, m \in Nat, t \in Nat \ {0}
  <2> QED BY <1>2, <2>1
<1>5. RowClicked(w, x) = IF x - b < m - n /\ i <= L THEN {i} ELSE {}
  BY <1>1, <1>2, <1>3, <1>4
<1>6. CASE x - b < m - n /\ i <= L
  <2>1. v.disks # <<>>
    <3>1. v.rows # <<>>
      BY <1>2, <1>4, <1>6
    <3> QED BY <3>1 DEF WinOK
  <2>2. i \in 1..Len(v.rows)
    BY <1>2, <1>6
  <2>3. x = BodyTop + (i - v.top) /\ x - BodyTop < VisibleRows(v) /\ v.notes < BodyCells
    <3>1. x = b + (i - t)
      BY ONLY <1>2, <1>4, b \in Nat, m \in Nat, t \in Nat \ {0}
    <3> QED BY <1>2, <1>3, <1>6, <3>1
  <2>4. Picture(v)[x] = Cell("row", v.rows[i].id, Look(i = v.sel, v.focus = "rows"), <<>>)
    BY <1>0, <2>1, <2>2, <2>3, RowSeen
  <2>5. PICK r, l : r = v.rows[i].id /\ l = Look(i = v.sel, v.focus = "rows")
    OBVIOUS
  <2>6. Named(Cell("row", r, l, <<>>)) = <<"row", r>>
    BY NamedIs DEF Taking
  <2>7. Named(Picture(v)[x]) = <<"row", w.rows[i].id>>
    BY <1>0, <2>4, <2>5, <2>6
  <2> QED BY <1>5, <1>6, <2>7
<1>7. CASE ~(x - b < m - n /\ i <= L)
  <2>1. Picture(v)[x].of # "row" /\ Picture(v)[x].of \notin Taking
    <3>1. Picture(v)[x] = Blank \/ Picture(v)[x] = RowCell(v, x)
      BY Regions DEF Picture
    <3>2. x - BodyTop < VisibleRows(v) /\ v.top + (x - BodyTop) <= Len(v.rows) <=> x - b < m - n /\ i <= L
      BY <1>2, <1>3, <1>4
    <3>3. RowCell(v, x) = Blank \/ \E of \in {"note", "norows"} : \E n2 : RowCell(v, x) = Cell(of, n2, "plain", <<>>)
      BY <1>7, <3>2 DEF RowCell
    <3>4. Blank.of \notin Taking
      BY BlankIs DEF Taking
    <3>5. ASSUME NEW of \in {"note", "norows"}, NEW n2 PROVE Cell(of, n2, "plain", <<>>).of \notin Taking
      BY DEF Cell, Taking
    <3>6. Picture(v)[x].of \notin Taking
      <4>1. CASE Picture(v)[x] = Blank
        BY <4>1, <3>4
      <4>2. CASE Picture(v)[x] # Blank
        <5>1. PICK of \in {"note", "norows"} : \E n2 : RowCell(v, x) = Cell(of, n2, "plain", <<>>)
          BY <3>1, <3>3, <4>2
        <5>2. PICK n2 : RowCell(v, x) = Cell(of, n2, "plain", <<>>)
          BY <5>1
        <5>3. Picture(v)[x] = Cell(of, n2, "plain", <<>>)
          BY <3>1, <4>2, <5>2
        <5> QED BY <3>5, <5>3
      <4> QED BY <4>1, <4>2
    <3> QED BY <3>6 DEF Taking
  <2>2. Named(Picture(v)[x]) = Nothing
    BY <2>1, NamedNone
  <2> QED BY <1>5, <1>7, <2>2
<1> QED BY <1>6, <1>7

\* What a click at x should take.
Takes(x) ==
  IF InWindow /\ x \in BarArea THEN took' = Nothing \/ canvas[x].of = "span"
                               ELSE took' = Named(canvas[x])

LEMMA ClickAtTakes ==
  ASSUME WindowInv, InWindow, setup.pointer, NEW w, SameLists(w, win), NEW x \in setup.places, ClickAt(w, x)
  PROVE  Takes(x)
<1>0. /\ setup \in Setups /\ x \in Cells /\ setup.text = FALSE /\ WinOK(FALSE, win) /\ win \in WinRec
      /\ canvas = Picture(win)
  BY SetupFacts DEF WindowInv, WinOK, Drawing
<1>1. CASE x \in Buttons
  <2>1. took' = <<"button", x>> /\ x \notin BarArea
    BY <1>1, Regions DEF ClickAt
  <2>2. Picture(win)[x] = Cell("button", x, Look(win.hover = x, TRUE), <<>>)
    BY <1>0, <1>1 DEF Picture
  <2>3. PICK l : l = Look(win.hover = x, TRUE)
    OBVIOUS
  <2>4. Named(Cell("button", x, l, <<>>)) = <<"button", x>>
    BY NamedIs DEF Taking
  <2> QED BY <1>0, <2>1, <2>2, <2>3, <2>4 DEF Takes
<1>2. CASE x \notin Buttons /\ x \in ListArea
  <2>1. x \notin BarArea
    BY <1>2, Regions
  <2>2. CASE DiskClicked(w, x) = {}
    <3>1. took' = Nothing
      BY <1>2, <2>2 DEF ClickAt
    <3> QED BY <1>0, <1>2, <2>1, <2>2, <3>1, DiskClickTakes DEF Takes
  <2>3. CASE DiskClicked(w, x) # {}
    <3>1. PICK i \in DiskClicked(w, x) : took' = <<"disk", w.disks[i].id>>
      BY <1>2, <2>3 DEF ClickAt
    <3> QED BY <1>0, <1>2, <2>1, <3>1, DiskClickTakes DEF Takes
  <2> QED BY <2>2, <2>3
<1>3. CASE x \notin Buttons /\ x \notin ListArea /\ x \in BarArea
  <2>1. SelectRow(w, SpanClicked(w, x))
    BY <1>3 DEF ClickAt
  <2>2. CASE SpanClicked(w, x) = {}
    BY <1>3, <2>1, <2>2 DEF SelectRow, Takes
  <2>3. CASE SpanClicked(w, x) # {}
    BY <1>0, <1>3, <2>3, SpanClickTakes DEF Takes
  <2> QED BY <2>2, <2>3
<1>4. CASE x \notin Buttons /\ x \notin ListArea /\ x \notin BarArea /\ x = Message
  <2>1. took' = Nothing
    BY <1>4 DEF ClickAt
  <2>2. Picture(win)[x] = Cell("message", win.msg, "plain", <<>>)
    BY <1>0, <1>4 DEF Picture
  <2>3. PICK m : m = win.msg
    OBVIOUS
  <2>4. Named(Cell("message", m, "plain", <<>>)) = Nothing
    BY NamedIs DEF Taking
  <2> QED BY <1>0, <1>4, <2>1, <2>2, <2>3, <2>4 DEF Takes
<1>5. CASE x \notin Buttons /\ x \notin ListArea /\ x \notin BarArea /\ x # Message
  <2>1. SelectRow(w, RowClicked(w, x)) /\ x \in BodyTop..(Message - 1)
    BY <1>0, <1>5, Regions DEF ClickAt
  <2>2. CASE RowClicked(w, x) = {}
    <3>1. took' = Nothing
      BY <2>1, <2>2 DEF SelectRow
    <3> QED BY <1>0, <1>5, <2>1, <2>2, <3>1, RowClickTakes DEF Takes
  <2>3. CASE RowClicked(w, x) # {}
    <3>1. PICK i \in RowClicked(w, x) : took' = <<"row", w.rows[i].id>>
      BY <2>1, <2>3 DEF SelectRow
    <3>2. Named(Picture(win)[x]) = <<"row", w.rows[i].id>>
      BY ONLY <1>0, <2>1, <3>1, RowClickTakes, SameLists(w, win)
    <3>3. took' = Named(canvas[x])
      BY ONLY <1>0, <3>1, <3>2
    <3> QED BY <1>5, <3>3 DEF Takes
  <2> QED BY <2>2, <2>3
<1> QED BY <1>1, <1>2, <1>3, <1>4, <1>5

LEMMA ClickInWindowTakes ==
  ASSUME WindowInv, ClickInWindow
  PROVE  Takes(px')
<1>1. PICK x \in setup.places :
        px' = x /\ ClickAt(IF x = px THEN win ELSE [win EXCEPT !.hover = ButtonAt(x)], x)
  BY DEF ClickInWindow
<1>2. PICK w : w = IF x = px THEN win ELSE [win EXCEPT !.hover = ButtonAt(x)]
  OBVIOUS
<1>3. SameLists(w, win)
  <2>1. win \in WinRec
    BY DEF WindowInv, WinOK
  <2> QED BY <1>2, <2>1 DEF SameLists, WinRec
<1>4. setup.pointer /\ InWindow
  BY DEF ClickInWindow
<1> QED BY <1>1, <1>2, <1>3, <1>4, ClickAtTakes

LEMMA ClickInDialogTakes ==
  ASSUME WindowInv, ClickInDialog
  PROVE  Takes(px')
<1>0. /\ setup.pointer /\ dlg.kind \in Kinds /\ ~InWindow /\ setup.text = FALSE /\ setup.places \subseteq Cells
      /\ dlg.items \in Nat
  BY SetupFacts DEF ClickInDialog, WindowInv, DlgOK, DlgRec, InWindow, Kinds
<1>a. PICK x \in setup.places :
        /\ px' = x
        /\ CASE ButtonOf(dlg, x) \in 1..ButtonCount(dlg) ->
                  Answered(ButtonOf(dlg, x) = 1) /\ took' = <<"dbutton", ButtonOf(dlg, x)>>
             [] InDialog("menu") /\ x \in ExtraArea(dlg) ->
                  Answered(TRUE) /\ took' = <<"item", dlg.top + (x - BoxTop(dlg) - 1)>>
             [] OTHER ->
                  /\ IF x = px THEN UNCHANGED <<canvas, display>> ELSE MovePointer(x)
                  /\ took' = Nothing /\ UNCHANGED <<win, dlg, box>>
  BY DEF ClickInDialog
<1>b. ASSUME ButtonOf(dlg, x) \in 1..ButtonCount(dlg)
      PROVE  took' = <<"dbutton", ButtonOf(dlg, x)>>
  <2>1. PICK n : n = ButtonOf(dlg, x)
    OBVIOUS
  <2>2. ~(InDialog("menu") /\ x \in ExtraArea(dlg))
    <3>1. PICK bt \in Nat, e \in Nat, k \in 1..2 :
            /\ bt = BoxTop(dlg) /\ e = Extra(dlg) /\ k = ButtonCount(dlg)
            /\ BoxArea(dlg) = bt..(bt + e + k) /\ ExtraArea(dlg) = (bt + 1)..(bt + e)
      BY <1>0, BoxOnScreen
    <3>2. PICK y \in Int : y = x
      BY <1>0 DEF Cells
    <3>3. ButtonOf(dlg, x) = y - (bt + e)
      BY <3>1, <3>2 DEF ButtonOf
    <3>4. y \in (bt + 1)..(bt + e) /\ y - (bt + e) \in 1..k => FALSE
      BY ONLY e \in Nat, k \in 1..2, bt \in Nat, y \in Int
    <3> QED BY <1>b, <3>1, <3>2, <3>3, <3>4
  <2>3. Answered(ButtonOf(dlg, x) = 1) /\ took' = <<"dbutton", n>>
    BY ONLY <1>a, <1>b, <2>1, <2>2
  <2> QED BY ONLY <2>1, <2>3
<1>c. ASSUME ButtonOf(dlg, x) \notin 1..ButtonCount(dlg), dlg.kind = "menu", x \in ExtraArea(dlg)
      PROVE  took' = <<"item", dlg.top + (x - BoxTop(dlg) - 1)>>
  BY ONLY <1>a, <1>c DEF InDialog
<1>d. ASSUME ButtonOf(dlg, x) \notin 1..ButtonCount(dlg), ~(dlg.kind = "menu" /\ x \in ExtraArea(dlg))
      PROVE  took' = Nothing
  BY ONLY <1>a, <1>d DEF InDialog
<1>1. px' = x
  BY <1>a
<1>2. PICK b \in Nat, e \in Nat, k \in 1..2 :
        /\ b = BoxTop(dlg) /\ e = Extra(dlg) /\ k = ButtonCount(dlg)
        /\ BoxArea(dlg) = b..(b + e + k) /\ ExtraArea(dlg) = (b + 1)..(b + e)
  BY <1>0, BoxOnScreen
<1>3. PICK y \in Int : y = x
  BY <1>0 DEF Cells
<1>4. ButtonOf(dlg, x) = y - (b + e)
  BY <1>2, <1>3 DEF ButtonOf
<1>5. \A c \in BoxArea(dlg) : canvas[c] = BoxCell(dlg, c)
  BY <1>0 DEF WindowInv, DlgDrawn
<1>6. CASE ButtonOf(dlg, x) \in 1..ButtonCount(dlg)
  <2>1. y - (b + e) \in 1..k
    BY <1>2, <1>4, <1>6
  <2>2. y # b /\ y \notin (b + 1)..(b + e) /\ y \in b..(b + e + k)
    BY ONLY <2>1, y \in Int, b \in Nat, e \in Nat, k \in 1..2
  <2>3. x # BoxTop(dlg) /\ x \notin ExtraArea(dlg) /\ x \in BoxArea(dlg)
    BY <1>2, <1>3, <2>2
  <2>4. canvas[x] = Cell("dbutton", ButtonOf(dlg, x), "plain", <<>>)
    BY <1>5, <2>3 DEF BoxCell
  <2>5. PICK n : n = ButtonOf(dlg, x)
    OBVIOUS
  <2>6. Named(Cell("dbutton", n, "plain", <<>>)) = <<"dbutton", n>>
    BY NamedIs DEF Taking
  <2>7. took' = <<"dbutton", ButtonOf(dlg, x)>>
    BY ONLY <1>b, <1>6
  <2> QED BY <1>0, <1>1, <2>4, <2>5, <2>6, <2>7 DEF Takes
<1>7. CASE ButtonOf(dlg, x) \notin 1..ButtonCount(dlg) /\ dlg.kind = "menu" /\ x \in ExtraArea(dlg)
  <2>1. y \in (b + 1)..(b + e)
    BY <1>2, <1>3, <1>7
  <2>2. y # b /\ y \in b..(b + e + k)
    BY ONLY <2>1, y \in Int, b \in Nat, e \in Nat, k \in 1..2
  <2>3. x # BoxTop(dlg) /\ x \in BoxArea(dlg)
    BY <1>2, <1>3, <2>2
  <2>4. PICK i : i = dlg.top + (x - BoxTop(dlg) - 1)
    OBVIOUS
  <2>5. canvas[x] = Cell("item", i, Look(i = dlg.sel, TRUE), <<>>)
    BY <1>5, <1>7, <2>3, <2>4 DEF BoxCell, ExtraCell
  <2>6. PICK l : l = Look(i = dlg.sel, TRUE)
    OBVIOUS
  <2>7. Named(Cell("item", i, l, <<>>)) = <<"item", i>>
    BY NamedIs DEF Taking
  <2>8. took' = <<"item", i>>
    BY ONLY <1>c, <1>7, <2>4
  <2> QED BY <1>0, <1>1, <2>5, <2>6, <2>7, <2>8 DEF Takes
<1>8. CASE ButtonOf(dlg, x) \notin 1..ButtonCount(dlg) /\ ~(dlg.kind = "menu" /\ x \in ExtraArea(dlg))
  <2>1. took' = Nothing
    BY ONLY <1>d, <1>8
  <2>2. CASE x \in BoxArea(dlg)
    <3>1. y \in b..(b + e + k) /\ y - (b + e) \notin 1..k
      BY <1>2, <1>3, <1>4, <1>8, <2>2
    <3>2. y = b \/ y \in (b + 1)..(b + e)
      BY ONLY <3>1, y \in Int, b \in Nat, e \in Nat, k \in 1..2
    <3>3. canvas[x] = BoxCell(dlg, x)
      BY <1>5, <2>2
    <3>4. CASE y = b
      <4>1. canvas[x] = Cell("box", 0, dlg.kind, <<>>)
        BY <1>2, <1>3, <3>3, <3>4 DEF BoxCell
      <4>2. PICK l : l = dlg.kind
        OBVIOUS
      <4>3. Named(Cell("box", 0, l, <<>>)) = Nothing
        BY NamedIs DEF Taking
      <4> QED BY <1>0, <1>1, <2>1, <4>1, <4>2, <4>3 DEF Takes
    <3>5. CASE y # b
      <4>1. x \in ExtraArea(dlg) /\ x # BoxTop(dlg) /\ dlg.kind # "menu" /\ e # 0
        BY <1>2, <1>3, <1>8, <3>2, <3>5
      <4>2. dlg.kind = "input"
        BY <1>0, <1>2, <4>1 DEF Extra, Kinds
      <4>3. PICK n, l, t : canvas[x] = Cell("field", n, l, t)
        BY <3>3, <4>1, <4>2 DEF BoxCell, ExtraCell
      <4>4. Named(Cell("field", n, l, t)) = Nothing
        BY NamedIs DEF Taking
      <4> QED BY <1>0, <1>1, <2>1, <4>3, <4>4 DEF Takes
    <3> QED BY <3>4, <3>5
  <2>3. CASE x \notin BoxArea(dlg)
    <3>1. canvas[x] = Dimmed(dlg.saved[x]) /\ CellOK(dlg.saved[x])
      BY <1>0, <2>3 DEF WindowInv, DlgDrawn, NoBox
    <3>2. canvas[x].dim = TRUE
      BY <3>1, DimmedIs
    <3> QED BY <1>0, <1>1, <2>1, <3>2, NamedNone DEF Takes
  <2> QED BY <2>2, <2>3
<1> QED BY <1>6, <1>7, <1>8

LEMMA WipeStoppedTakes ==
  ASSUME WindowInv, WipeStopped, took' # NoClick
  PROVE  IF Starting THEN stopSet /\ px' = StopCell /\ wipe' = wipe /\ dlg'.then = "stop"
                     ELSE Takes(px')
<1>1. /\ setup.pointer /\ px' = StopCell /\ took' = <<"stop", 0>> /\ wipe' = wipe
      /\ Open(canvas, YesNo("stop", 0)) /\ (Starting => stopSet) /\ (Wiping \/ Starting)
  BY DEF WipeStopped, box
<1>2. setup \in Setups /\ ~setup.text
  BY <1>1, SetupFacts DEF WindowInv
<1>3. CASE Starting
  <2>1. PICK n : n = NoDialog /\ n \in DlgRec(n.saved)
    BY NoDialogIs
  <2>2. PICK d : d = YesNo("stop", 0) /\ d = [n EXCEPT !.kind = "yesno", !.then = "stop", !.to = 0]
    BY <2>1 DEF YesNo
  <2>3. d.then = "stop" /\ DOMAIN d = DOMAIN n /\ "then" \in DOMAIN n
    BY <2>1, <2>2 DEF DlgRec
  <2>5. PICK t, s : dlg' = [d EXCEPT !.top = t, !.saved = s]
    BY <1>1, <2>2 DEF Open
  <2>4. dlg'.then = d.then
    BY <2>3, <2>5
  <2> QED BY <1>1, <1>3, <2>3, <2>4
<1>4. CASE ~Starting
  <2>1. Wiping /\ ~InWindow
    BY <1>1, <1>4 DEF Wiping, InWindow
  <2>2. canvas = WipeDrawn(Drawing(win), wipe) /\ OnCells(Drawing(win))
    BY <1>2, <2>1, DrawingOK DEF WindowInv
  <2>3. canvas[StopCell] = Cell("stop", 0, "plain", <<>>)
    BY <2>2, WipeDrawnIs, Places
  <2>4. Named(Cell("stop", 0, "plain", <<>>)) = <<"stop", 0>>
    BY NamedIs DEF Taking
  <2> QED BY <1>1, <1>4, <2>1, <2>3, <2>4 DEF Takes
<1> QED BY <1>3, <1>4

\* A click takes what is seen under the tip of the pointer and nothing where
\* there is nothing to take (click, gui.c:786), but for the look a wipe begins
\* with, which may take the place of an earlier Stop and then asks whether to
\* stop (gui.c:1209).
THEOREM ClickTheorem == Spec => ClickTakesShown
<1>1. WindowInv /\ [Next]_vars => [took' # NoClick =>
        IF Starting THEN stopSet /\ px' = StopCell /\ wipe' = wipe /\ dlg'.then = "stop"
        ELSE IF InWindow /\ px' \in BarArea THEN took' = Nothing \/ canvas[px'].of = "span"
        ELSE took' = Named(canvas[px'])]_vars
  <2> SUFFICES ASSUME WindowInv, Next, took' # NoClick
               PROVE  IF Starting THEN stopSet /\ px' = StopCell /\ wipe' = wipe /\ dlg'.then = "stop"
                                  ELSE Takes(px')
    BY DEF Takes
  <2>1. CASE ClickInWindow
    BY <2>1, ClickInWindowTakes DEF ClickInWindow, InWindow, Starting, Begun
  <2>2. CASE ClickInDialog
    BY <2>2, ClickInDialogTakes DEF ClickInDialog, Kinds, Starting
  <2>3. CASE WipeStopped
    BY <2>3, WipeStoppedTakes
  <2>4. CASE ~ClickInWindow /\ ~ClickInDialog /\ ~WipeStopped
    BY <2>4 DEF Next, PressKey, MoveInWindow, MoveElsewhere, AnswerKey, MenuKey, TypeChar, EditField, FieldInput,
                WipeBegins, WipeProgress, WipeEnds
  <2> QED BY <2>1, <2>2, <2>3, <2>4
<1> QED BY <1>1, WindowInvariant, PTL DEF Spec, ClickTakesShown

=============================================================================

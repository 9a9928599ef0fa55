---------------------------- MODULE MCTableWrite ----------------------------
(***************************************************************************)
(* TableWrite on twelve blocks with entry arrays of two blocks, so that an *)
(* array can be half written: a GPT has blocks 4 to 8 for partitions. The  *)
(* disks are blank, sound, damaged, enlarged, hybrid, with copies of two   *)
(* tables, or have a GPT left behind an MBR. The tables include chains of  *)
(* up to three logical partitions in several places of one extended        *)
(* partition, their records near them or further away: records of earlier  *)
(* tables stay on the disk, also inside the partitions of later ones.      *)
(***************************************************************************)
EXTENDS TableWrite, TLC

P(num, role, start, size, type, ebr) ==
  [num |-> num, role |-> role, start |-> start, size |-> size, type |-> type,
   active |-> FALSE, ebr |-> ebr, name |-> "unnamed"]

T(kind, parts) ==
  [kind |-> kind, parts |-> parts, first |-> IF kind = "gpt" THEN 4 ELSE 0,
   last |-> IF kind = "gpt" THEN NewLast ELSE 0]

GptOne  == {P(1, "primary", 4, 1, 7, 0)}
GptTwo  == GptOne \cup {P(2, "primary", 5, 2, 11, 0)}
Whole   == {P(1, "primary", 1, NBlocks - 1, 7, 0)}
Simple  == {P(2, "primary", 4, 2, 7, 0)}

Around == P(1, "extended", 2, NBlocks - 2, 5, 0)
L(n, start, size, ebr) == P(n, "logical", start, size, 7, ebr)

Chains ==
  {{Around}, {Around, L(5, 4, 2, 2)},
   {Around, L(5, 4, 1, 2), L(6, 8, 1, 6)},
   {Around, L(5, 3, 2, 2), L(6, 7, 2, 5), L(7, 10, 1, 9)}}

MCTables ==
  {T("none", {}), T("gpt", GptOne), T("mbr", Whole), T("mbr", Simple)}
    \cup {T("mbr", S) : S \in Chains}

Blank == [b \in Blocks |-> IF b \in {0, 1} THEN Zero ELSE Data]

With(t) == AfterAll(Blank, Writes(Blank, t @@ [hybrid |-> FALSE, blba |-> 0]))

SoundGpt == With(T("gpt", GptTwo))
HybridSector == Sector(ProtectiveSector.entries \cup {Entry(P(2, "primary", 4, 1, 7, 0))})

\* A disk that was copied from one of nine blocks.
Enlarged ==
  [Blank EXCEPT ![0] = ProtectiveSector,
     ![1] = Header(1, 8, 2, 4, 5, GptOne), ![2] = ArrayBlock(GptOne, 0), ![3] = ArrayBlock(GptOne, 1),
     ![8] = Header(8, 1, 6, 4, 5, GptOne), ![6] = ArrayBlock(GptOne, 0), ![7] = ArrayBlock(GptOne, 1)]

\* A write was cut between the two copies.
TwoTables ==
  LET old == With(T("gpt", {}))
  IN  [b \in Blocks |-> IF b > NewLast THEN old[b] ELSE SoundGpt[b]]

MCDisks ==
  {Blank, SoundGpt, Enlarged, TwoTables,
   [SoundGpt EXCEPT ![1] = BadGpt],              \* the primary header is damaged
   [SoundGpt EXCEPT ![NBlocks - 2] = Data],      \* the backup array is damaged
   [SoundGpt EXCEPT ![0] = Zero],                \* the protective MBR is missing
   [SoundGpt EXCEPT ![0] = HybridSector],
   [SoundGpt EXCEPT ![0] = With(T("mbr", Simple))[0]],    \* a GPT left behind an MBR
   [SoundGpt EXCEPT ![0] = With(T("mbr", Whole))[0]]}     \* or inside its partition
=============================================================================

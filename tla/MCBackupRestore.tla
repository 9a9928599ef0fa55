-------------------------- MODULE MCBackupRestore --------------------------
(***************************************************************************)
(* BackupRestore on ten blocks, with the disks of MCTableWrite and one     *)
(* that was cut short: MBRs whose partitions lie where a GPT has its       *)
(* copies, chains that break off or have an empty record, and GPTs with a  *)
(* copy damaged or in an unusual place.                                    *)
(***************************************************************************)
EXTENDS BackupRestore, TLC

P(num, role, start, size, type, ebr) ==
  [num |-> num, role |-> role, start |-> start, size |-> size, type |-> type,
   active |-> FALSE, ebr |-> ebr, name |-> "unnamed"]

T(kind, parts) ==
  [kind |-> kind, parts |-> parts, first |-> IF kind = "gpt" THEN 4 ELSE 0,
   last |-> IF kind = "gpt" THEN 6 ELSE 0]

GptTwo  == {P(1, "primary", 4, 1, 7, 0), P(2, "primary", 5, 2, 11, 0)}
OnePart == {P(1, "primary", 1, 9, 7, 0)}
TwoLogs == {P(1, "extended", 3, 6, 5, 0), P(5, "logical", 4, 2, 7, 3), P(6, "logical", 7, 1, 7, 6)}

Blank == [b \in Blocks |-> IF b \in {0, 1} THEN Zero ELSE Data]
With(t) == AfterAll(Blank, Writes(Blank, t @@ [hybrid |-> FALSE, blba |-> 0]))

SoundGpt == With(T("gpt", GptTwo))

\* A GPT made on a disk of size blocks, its backup copy there when it fits.
MadeOn(size, S) ==
  [b \in Blocks |->
     CASE b = 0             -> ProtectiveSector
       [] b = 1             -> Header(1, size - 1, 2, 4, 5, S)
       [] b \in {2, 3}      -> ArrayBlock(S, b - 2)
       [] b \in (size - 3)..(size - 2) -> ArrayBlock(S, b - size + 3)
       [] b = size - 1      -> Header(size - 1, 1, size - 3, 4, 5, S)
       [] OTHER             -> Data]

\* Another program emptied the record between two logical partitions.
Emptied ==
  [With(T("mbr", TwoLogs)) EXCEPT
     ![3] = Record({[off |-> 1, size |-> 1, type |-> 7, active |-> FALSE]}, 2),
     ![5] = Record({}, 3)]

MCDisks ==
  {Blank, SoundGpt,
   MadeOn(9, {P(1, "primary", 4, 1, 7, 0)}),       \* the disk was enlarged
   MadeOn(12, {P(1, "primary", 4, 2, 7, 0)}),      \* or cut short
   [SoundGpt EXCEPT ![1] = BadGpt],                \* the primary header is damaged
   [SoundGpt EXCEPT ![8] = Data],                  \* the backup array is damaged
   With(T("mbr", OnePart)), With(T("mbr", TwoLogs)),
   [With(T("mbr", TwoLogs)) EXCEPT ![6] = Data],   \* the chain breaks off
   Emptied}

\* The primary header is gone, signature and all.
MCHeaderGone == {SoundGpt, [SoundGpt EXCEPT ![1] = Zero]}
=============================================================================

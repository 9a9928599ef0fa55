------------------------------- MODULE PtWipe -------------------------------
(***************************************************************************)
(* Wipe (wipe_partition of diskview.c, pt_wipe of ptwrite.c): random data, *)
(* then zeros over every block of a partition, chunk by chunk, with a      *)
(* progress call in between that may ask whether to stop (WipeScreen says  *)
(* when). The disk may refuse a chunk after some of its blocks; the power  *)
(* may go.                                                                 *)
(***************************************************************************)
EXTENDS Integers

CONSTANTS
  NBlocks,   \* blocks of the disk
  Chunk,     \* blocks written at a time (WIPE_CHUNK)
  Ranges     \* partitions on it, also ones that reach beyond its end: start, count

ASSUME SizesAssumption ==
  NBlocks \in Nat \ {0} /\ Chunk \in Nat \ {0} /\ Ranges \subseteq [start: Nat, count: Nat]

Blocks == 0..(NBlocks - 1)

VARIABLES
  data,      \* what is in each block
  at,        \* where the wipe is: "idle", "progress", "ask" or "write"
  range,     \* the partition being wiped
  pass, done,
  wpass,     \* the pass last shown
  said       \* the message: which pass it stopped in, or how it ended

vars == <<data, at, range, pass, done, wpass, said>>

Content == {"old", "random", "zero"}
Outcomes == {"nothing", "wiped", "failed"} \cup {"stopped in 0", "stopped in 1", "stopped in 2"}

-----------------------------------------------------------------------------
Init ==
  /\ data = [b \in Blocks |-> "old"]
  /\ at = "idle"
  /\ range \in Ranges
  /\ pass = 0 /\ done = 0 /\ wpass = 0
  /\ said = "nothing"

\* Fault: a range that only starts on the disk is taken.
OnDiskStart(r) == r.count > 0 /\ r.start < NBlocks

\* Any range inside the disk; a sum of start and count is never made.
OnDisk(r) == r.count > 0 /\ r.start < NBlocks /\ r.count <= NBlocks - r.start

Begin(r) ==
  /\ at = "idle" /\ range' = r
  /\ IF OnDisk(r) THEN at' = "progress" /\ said' = "nothing" ELSE at' = "idle" /\ said' = "failed"
  /\ pass' = 1 /\ done' = 0 /\ wpass' = 0
  /\ UNCHANGED data

\* pt_wipe returns.
End(message) == at' = "idle" /\ said' = message

\* Fault: the random pass is all of it.
GoOnOnce ==
  /\ wpass' = pass
  /\ IF done < range.count THEN at' = "write" /\ UNCHANGED <<pass, done, said>>
     ELSE End("wiped") /\ UNCHANGED <<pass, done>>

\* Fault: a pass ends one block early.
GoOnShort ==
  /\ wpass' = pass
  /\ IF done + 1 < range.count THEN at' = "write" /\ UNCHANGED <<pass, done, said>>
     ELSE IF pass = 1 THEN at' = "progress" /\ pass' = 2 /\ done' = 0 /\ UNCHANGED said
     ELSE End("wiped") /\ UNCHANGED <<pass, done>>

\* After the progress call: the next chunk, the next pass, or the end.
GoOn ==
  /\ wpass' = pass
  /\ IF done < range.count THEN at' = "write" /\ UNCHANGED <<pass, done, said>>
     ELSE IF pass = 1 THEN at' = "progress" /\ pass' = 2 /\ done' = 0 /\ UNCHANGED said
     ELSE End("wiped") /\ UNCHANGED <<pass, done>>

\* The progress call: the user asked to stop, or the progress is drawn.
AskStop ==
  /\ at = "progress" /\ at' = "ask"
  /\ UNCHANGED <<data, range, pass, done, wpass, said>>

GoOnWriting == at = "progress" /\ GoOn /\ UNCHANGED <<data, range>>

StoppedIn(p) == IF p = 0 THEN "stopped in 0" ELSE IF p = 1 THEN "stopped in 1" ELSE "stopped in 2"

\* "Stop the wipe? (Y/N)": Y stops it, N goes on.
Stop ==
  /\ at = "ask"
  /\ End(StoppedIn(wpass))
  /\ UNCHANGED <<data, range, pass, done, wpass>>

KeepOn ==
  /\ at = "ask"
  /\ GoOn
  /\ UNCHANGED <<data, range>>

ChunkAt == range.start + done
\* Fault: the last chunk is as long as the others.
LengthWhole == Chunk
Length  == IF Chunk < range.count - done THEN Chunk ELSE range.count - done
Fill    == IF pass = 1 THEN "random" ELSE "zero"

Overwritten(n) == [b \in Blocks |-> IF b \in ChunkAt..(ChunkAt + n - 1) THEN Fill ELSE data[b]]

\* Fault: the blocks done are not counted.
WriteStays ==
  /\ at = "write"
  /\ data' = Overwritten(Length)
  /\ at' = "progress"
  /\ UNCHANGED <<range, pass, done, wpass, said>>

Write ==
  /\ at = "write"
  /\ data' = Overwritten(Length)
  /\ done' = done + Length
  /\ at' = "progress"
  /\ UNCHANGED <<range, pass, wpass, said>>

\* The disk refuses the chunk, after n of its blocks.
Refused ==
  /\ at = "write"
  /\ \E n \in 0..Length : data' = Overwritten(n)
  /\ End("failed")
  /\ UNCHANGED <<range, pass, done, wpass>>

PowerCut ==
  /\ at' = "idle" /\ said' = "nothing"
  /\ UNCHANGED <<data, range, pass, done, wpass>>

\* The blocks of a wiped partition are used again.
Use ==
  /\ at = "idle" /\ said' = "nothing"
  /\ data' = [b \in Blocks |-> "old"]
  /\ UNCHANGED <<at, range, pass, done, wpass>>

Next ==
  \/ \E r \in Ranges : Begin(r)
  \/ AskStop \/ GoOnWriting \/ Stop \/ KeepOn \/ Write \/ Refused \/ PowerCut \/ Use

\* The program runs on while the disk answers and the user answers the
\* question one way or the other; whether to ask to stop is up to the user.
Fairness == WF_vars(AskStop \/ GoOnWriting) /\ WF_vars(Write \/ Refused) /\ WF_vars(Stop \/ KeepOn)

Spec == Init /\ [][Next]_vars /\ Fairness

-----------------------------------------------------------------------------
(* Properties                                                              *)

InRange(b) == b >= range.start /\ b - range.start < range.count

TypeOK ==
  /\ data \in [Blocks -> Content] /\ at \in {"idle", "progress", "ask", "write"}
  /\ range \in Ranges /\ pass \in 0..2 /\ wpass \in 0..pass
  /\ done \in 0..range.count /\ said \in Outcomes

\* A wipe changes no block outside its partition and goes beyond no end of the
\* disk, also when the table names blocks the disk does not have.
NeighboursKept ==
  [][at = "write" => /\ ChunkAt + Length <= NBlocks
                     /\ \A b \in Blocks : InRange(b) \/ data'[b] = data[b]]_vars

\* "Wiped" is said only when the partition reads as empty.
WipedIsEmpty == said = "wiped" => \A b \in Blocks : InRange(b) => data[b] = "zero"

\* No zeros before the random pass has been over every block: while zeros are
\* written, and wherever that stops, nothing of the old contents is left.
RandomFirst ==
  (at # "idle" /\ pass = 2) \/ said = "stopped in 2" =>
    \A b \in Blocks : InRange(b) => data[b] # "old"

\* A wipe ends, however often it is asked to stop and the answer is N.
Ends == at # "idle" ~> at = "idle"

=============================================================================

---------------------------- MODULE PtWipeProofs ----------------------------
(***************************************************************************)
(* Proofs about PtWipe, for every disk, size of chunk and set of ranges,   *)
(* and about WipeScreen: a wipe on its screen is a wipe, so what is proved *)
(* of a wipe holds with keys and mice around it; and with one mouse no     *)
(* press clicks twice.                                                     *)
(***************************************************************************)
EXTENDS WipeScreen, TLAPS

\* The position of the loops: a wipe is of a range on the disk, the pass on the
\* screen is the one being written or, before its first chunk, the one before.
Position ==
  at # "idle" =>
    /\ OnDisk(range) /\ said = "nothing"
    /\ pass \in {1, 2} /\ wpass \in {pass - 1, pass}
    /\ wpass < pass => done = 0
    /\ at = "write" => done < range.count /\ wpass = pass

\* What the loops have done: in the first pass the blocks before the position
\* are no longer old, in the second none is and those before it are zero.
Progressed ==
  \A b \in Blocks :
    /\ at # "idle" /\ pass = 1 /\ b >= range.start /\ b - range.start < done => data[b] # "old"
    /\ at # "idle" /\ pass = 2 /\ b >= range.start /\ b - range.start < done => data[b] = "zero"

IInv == TypeOK /\ Position /\ Progressed /\ WipedIsEmpty /\ RandomFirst

-----------------------------------------------------------------------------
LEMMA RangeType ==
  ASSUME NEW r \in Ranges
  PROVE  r.start \in Nat /\ r.count \in Nat
BY SizesAssumption

LEMMA LengthBounds ==
  ASSUME TypeOK, at = "write", Position
  PROVE  /\ Length \in Nat /\ 1 <= Length /\ Length <= range.count - done
         /\ ChunkAt \in Nat /\ ChunkAt + Length <= NBlocks
<1>1. range.start \in Nat /\ range.count \in Nat
  BY RangeType DEF TypeOK
<1> QED BY <1>1, SizesAssumption DEF TypeOK, Position, Length, ChunkAt, OnDisk

LEMMA OverwrittenType ==
  ASSUME TypeOK, NEW n
  PROVE  /\ Overwritten(n) \in [Blocks -> Content]
         /\ \A b \in Blocks : Overwritten(n)[b] =
              IF b \in ChunkAt..(ChunkAt + n - 1) THEN Fill ELSE data[b]
BY DEF TypeOK, Overwritten, Fill, Content

-----------------------------------------------------------------------------
LEMMA InitInv == Init => IInv
<1> SUFFICES ASSUME Init PROVE IInv
  OBVIOUS
<1>1. range.count \in Nat
  BY RangeType DEF Init
<1>2. data \in [Blocks -> Content]
  BY DEF Init, Content
<1>3. pass \in 0..2 /\ wpass \in 0..pass /\ done \in 0..range.count
  BY <1>1 DEF Init
<1>4. TypeOK
  BY <1>2, <1>3 DEF Init, TypeOK, Outcomes
<1> QED BY <1>4 DEF Init, IInv, Position, Progressed, WipedIsEmpty, RandomFirst

\* The progress call went on: GoOn, in either of its two places.
LEMMA GoOnInv ==
  ASSUME IInv, GoOn, at \in {"progress", "ask"}, UNCHANGED <<data, range>>
  PROVE  IInv'
<1> USE DEF IInv
<1>1. range.start \in Nat /\ range.count \in Nat /\ range' = range /\ data' = data
  BY RangeType DEF TypeOK
<1>2. pass \in {1, 2} /\ wpass' = pass /\ OnDisk(range) /\ said = "nothing"
  BY DEF Position, GoOn
<1>3. CASE done < range.count
  <2>1. at' = "write" /\ pass' = pass /\ done' = done /\ said' = said
    BY <1>3 DEF GoOn
  <2>2. TypeOK'
    BY <1>1, <1>2, <2>1 DEF TypeOK
  <2>3. Position'
    BY <1>1, <1>2, <1>3, <2>1 DEF Position, OnDisk
  <2>4. Progressed'
    BY <1>1, <1>2, <2>1 DEF Progressed
  <2>5. WipedIsEmpty' /\ RandomFirst'
    BY <1>1, <1>2, <2>1 DEF WipedIsEmpty, RandomFirst, InRange
  <2> QED BY <2>2, <2>3, <2>4, <2>5
<1>4. CASE ~(done < range.count) /\ pass = 1
  <2>1. at' = "progress" /\ pass' = 2 /\ done' = 0 /\ said' = said
    BY <1>4 DEF GoOn
  <2>2. TypeOK'
    BY <1>1, <1>2, <1>4, <2>1 DEF TypeOK
  <2>3. Position'
    BY <1>1, <1>2, <1>4, <2>1 DEF Position, OnDisk
  <2>4. \A b \in Blocks : InRange(b) => data[b] # "old"
    BY <1>1, <1>4 DEF Progressed, InRange, TypeOK, Blocks
  <2>5. Progressed'
    BY <1>1, <2>1, SizesAssumption DEF Progressed, Blocks
  <2>6. WipedIsEmpty' /\ RandomFirst'
    BY <1>1, <1>2, <2>1, <2>4 DEF WipedIsEmpty, RandomFirst, InRange
  <2> QED BY <2>2, <2>3, <2>5, <2>6
<1>5. CASE ~(done < range.count) /\ pass = 2
  <2>1. at' = "idle" /\ said' = "wiped" /\ pass' = pass /\ done' = done
    BY <1>5 DEF GoOn, End
  <2>2. TypeOK'
    BY <1>1, <1>2, <2>1 DEF TypeOK, Outcomes
  <2>3. \A b \in Blocks : InRange(b) => data[b] = "zero"
    BY <1>1, <1>5 DEF Progressed, InRange, TypeOK, Blocks
  <2>4. WipedIsEmpty'
    BY <1>1, <2>3 DEF WipedIsEmpty, InRange
  <2> QED BY <2>1, <2>2, <2>4 DEF Position, Progressed, RandomFirst
<1> QED BY <1>2, <1>3, <1>4, <1>5

\* A chunk, or the first n blocks of one, are written.
LEMMA ChunkInv ==
  ASSUME IInv, at = "write", NEW n \in 0..Length, data' = Overwritten(n), range' = range
  PROVE  /\ data' \in [Blocks -> Content]
         /\ \A b \in Blocks : InRange(b) \/ data'[b] = data[b]
         /\ pass = 2 => \A b \in Blocks : InRange(b) => data'[b] # "old"
         /\ \A b \in Blocks : b >= range.start /\ b - range.start < done + n =>
              (pass = 1 => data'[b] # "old") /\ (pass = 2 => data'[b] = "zero")
<1>1. range.start \in Nat /\ range.count \in Nat /\ done \in Nat
  BY RangeType DEF IInv, TypeOK
<1>2. Length \in Nat /\ Length <= range.count - done
  BY LengthBounds DEF IInv
<1>3. pass \in {1, 2} /\ Fill = IF pass = 1 THEN "random" ELSE "zero"
  BY DEF IInv, Position, Fill
<1>4. \A b \in Blocks : data'[b] = IF b \in ChunkAt..(ChunkAt + n - 1) THEN Fill ELSE data[b]
  BY OverwrittenType DEF IInv
<1>5. ChunkAt = range.start + done /\ Blocks \subseteq Int
  BY SizesAssumption DEF ChunkAt, Blocks
<1>6. \A b \in Blocks : b \in ChunkAt..(ChunkAt + n - 1) => InRange(b)
  BY <1>1, <1>2, <1>5 DEF InRange
<1>7. pass = 2 => \A b \in Blocks : InRange(b) => data'[b] # "old"
  BY <1>3, <1>4 DEF IInv, RandomFirst
<1>8. \A b \in Blocks : b >= range.start /\ b - range.start < done + n =>
        b \in ChunkAt..(ChunkAt + n - 1) \/ b - range.start < done
  BY <1>1, <1>2, <1>5
<1>9. \A b \in Blocks : b >= range.start /\ b - range.start < done =>
        (pass = 1 => data[b] # "old") /\ (pass = 2 => data[b] = "zero")
  BY DEF IInv, Progressed
<1>10. \A b \in Blocks : b >= range.start /\ b - range.start < done + n =>
         (pass = 1 => data'[b] # "old") /\ (pass = 2 => data'[b] = "zero")
  BY <1>3, <1>4, <1>8, <1>9
<1> QED BY <1>4, <1>6, <1>7, <1>10, OverwrittenType DEF IInv

LEMMA NextInv == IInv /\ [Next]_vars => IInv'
<1> SUFFICES ASSUME IInv, [Next]_vars PROVE IInv'
  OBVIOUS
<1> USE DEF IInv
<1>0. range.start \in Nat /\ range.count \in Nat
  BY RangeType DEF TypeOK
<1>1. ASSUME NEW r \in Ranges, Begin(r) PROVE IInv'
  <2>1. r.start \in Nat /\ r.count \in Nat
    BY RangeType
  <2>2. /\ range' = r /\ data' = data /\ pass' = 1 /\ done' = 0 /\ wpass' = 0
        /\ \/ OnDisk(r) /\ at' = "progress" /\ said' = "nothing"
           \/ at' = "idle" /\ said' = "failed"
    BY <1>1 DEF Begin
  <2>3. pass' \in 0..2 /\ wpass' \in 0..pass' /\ done' \in 0..range'.count
    BY <2>1, <2>2
  <2>4. TypeOK'
    BY <2>2, <2>3 DEF TypeOK, Outcomes
  <2>5. Position'
    BY <2>1, <2>2 DEF Position, OnDisk
  <2>6. pass' # 2
    BY <2>2
  <2>7. said' # "wiped" /\ said' # "stopped in 2"
    BY <2>2
  <2>8. WipedIsEmpty'
    BY <2>7 DEF WipedIsEmpty
  <2>9. RandomFirst'
    BY <2>6, <2>7 DEF RandomFirst
  <2>10. Progressed'
    BY <1>1, <2>1, SizesAssumption DEF Begin, Progressed, Blocks
  <2> QED BY <2>4, <2>5, <2>10, <2>8, <2>9
<1>2. CASE AskStop
  <2>1. at' = "ask" /\ at = "progress" /\ UNCHANGED <<data, range, pass, done, wpass, said>>
    BY <1>2 DEF AskStop
  <2>2. TypeOK'
    BY <2>1 DEF TypeOK
  <2> QED BY <2>1, <2>2 DEF Position, Progressed, WipedIsEmpty, RandomFirst, InRange, OnDisk
<1>3. CASE GoOnWriting
  <2>1. GoOn /\ at = "progress" /\ UNCHANGED <<data, range>>
    BY <1>3 DEF GoOnWriting
  <2> QED BY <2>1, GoOnInv
<1>4. CASE Stop
  <2>1. /\ at = "ask" /\ at' = "idle" /\ said' = StoppedIn(wpass)
        /\ UNCHANGED <<data, range, pass, done, wpass>>
    BY <1>4 DEF Stop, End
  <2>2. wpass \in {0, 1, 2} /\ (wpass = 2 => pass = 2)
    BY <2>1 DEF Position, TypeOK
  <2>3. said' \in {"stopped in 0", "stopped in 1", "stopped in 2"} /\ (said' = "stopped in 2" => wpass = 2)
    BY <2>1, <2>2 DEF StoppedIn
  <2>4. TypeOK'
    BY <2>1, <2>3, <2>2 DEF TypeOK, Outcomes
  <2>5. RandomFirst' /\ WipedIsEmpty'
    BY <2>1, <2>3, <2>2 DEF RandomFirst, WipedIsEmpty, InRange
  <2> QED BY <2>1, <2>4, <2>5 DEF Position, Progressed
<1>5. CASE KeepOn
  <2>1. GoOn /\ at = "ask" /\ UNCHANGED <<data, range>>
    BY <1>5 DEF KeepOn
  <2> QED BY <2>1, GoOnInv
<1>6. CASE Write
  <2>1. /\ at = "write" /\ data' = Overwritten(Length) /\ done' = done + Length /\ at' = "progress"
        /\ UNCHANGED <<range, pass, wpass, said>>
    BY <1>6 DEF Write
  <2>2. Length \in Nat /\ 1 <= Length /\ Length <= range.count - done /\ Length \in 0..Length
    BY <2>1, LengthBounds
  <2>3. /\ data' \in [Blocks -> Content]
        /\ pass = 2 => \A b \in Blocks : InRange(b) => data'[b] # "old"
        /\ \A b \in Blocks : b >= range.start /\ b - range.start < done + Length =>
             (pass = 1 => data'[b] # "old") /\ (pass = 2 => data'[b] = "zero")
    BY <2>1, <2>2, ChunkInv
  <2>4. TypeOK'
    BY <1>0, <2>1, <2>2, <2>3 DEF TypeOK
  <2>5. Position'
    BY <2>1 DEF Position, OnDisk, TypeOK
  <2>6. Progressed'
    BY <2>1, <2>3 DEF Progressed
  <2>7. said = "nothing"
    BY <2>1 DEF Position
  <2>8. RandomFirst' /\ WipedIsEmpty'
    BY <2>1, <2>3, <2>7 DEF RandomFirst, WipedIsEmpty, InRange
  <2> QED BY <2>4, <2>5, <2>6, <2>8
<1>7. CASE Refused
  <2>1. PICK n \in 0..Length : data' = Overwritten(n)
    BY <1>7 DEF Refused
  <2>2. /\ at = "write" /\ at' = "idle" /\ said' = "failed"
        /\ UNCHANGED <<range, pass, done, wpass>>
    BY <1>7 DEF Refused, End
  <2>3. data' \in [Blocks -> Content]
    BY <2>1, OverwrittenType
  <2>4. TypeOK'
    BY <2>2, <2>3 DEF TypeOK, Outcomes
  <2> QED BY <2>2, <2>4 DEF Position, Progressed, RandomFirst, WipedIsEmpty
<1>8. CASE PowerCut
  <2>1. TypeOK'
    BY <1>8 DEF PowerCut, TypeOK, Outcomes
  <2> QED BY <1>8, <2>1 DEF PowerCut, Position, Progressed, RandomFirst, WipedIsEmpty
<1>9. CASE Use
  <2>1. TypeOK'
    BY <1>9 DEF Use, TypeOK, Content, Outcomes
  <2> QED BY <1>9, <2>1 DEF Use, Position, Progressed, RandomFirst, WipedIsEmpty
<1>10. CASE UNCHANGED vars
  <2>1. TypeOK'
    BY <1>10 DEF vars, TypeOK
  <2> QED BY <1>10, <2>1 DEF vars, Position, Progressed, RandomFirst, WipedIsEmpty, InRange, OnDisk
<1> QED BY <1>1, <1>2, <1>3, <1>4, <1>5, <1>6, <1>7, <1>8, <1>9, <1>10 DEF Next

LEMMA InvCorrect == Spec => []IInv
BY InitInv, NextInv, PTL DEF Spec

\* Every variable of a wipe has its type in every state.
THEOREM WipeTypes == Spec => []TypeOK
<1>1. IInv => TypeOK
  BY DEF IInv
<1> QED BY <1>1, InvCorrect, PTL

\* The message that a partition was wiped is true: it reads as zeros.
THEOREM WipedEmpty == Spec => []WipedIsEmpty
<1>1. IInv => WipedIsEmpty
  BY DEF IInv
<1> QED BY <1>1, InvCorrect, PTL

\* While zeros are written nothing of the old contents is left.
THEOREM RandomBeforeZeros == Spec => []RandomFirst
<1>1. IInv => RandomFirst
  BY DEF IInv
<1> QED BY <1>1, InvCorrect, PTL

LEMMA WriteKeepsNeighbours ==
  ASSUME IInv, [Next]_vars, at = "write"
  PROVE  /\ ChunkAt + Length <= NBlocks
         /\ \A b \in Blocks : InRange(b) \/ data'[b] = data[b]
<1>1. Length \in Nat /\ ChunkAt + Length <= NBlocks
  BY LengthBounds DEF IInv
<1>2. CASE data' = data
  BY <1>1, <1>2
<1>3. CASE Write \/ Refused
  <2>1. range' = range /\ \E n \in 0..Length : data' = Overwritten(n)
    BY <1>1, <1>3 DEF Write, Refused
  <2> QED BY <1>1, <2>1, ChunkInv
<1> QED BY <1>2, <1>3 DEF Next, vars, Begin, AskStop, GoOnWriting, Stop, KeepOn, PowerCut, Use

\* No step of a wipe changes a block beside the partition or writes beyond the
\* end of the disk.
THEOREM NeighboursSafe == Spec => NeighboursKept
<1>1. IInv /\ [Next]_vars =>
        [at = "write" => /\ ChunkAt + Length <= NBlocks
                         /\ \A b \in Blocks : InRange(b) \/ data'[b] = data[b]]_vars
  BY WriteKeepsNeighbours
<1> QED BY <1>1, InvCorrect, PTL DEF Spec, NeighboursKept

-----------------------------------------------------------------------------
(* The wipe on its screen.                                                 *)

LEMMA ScreenStep == [ScreenNext]_all => [Next]_vars
<1> SUFFICES ASSUME [ScreenNext]_all PROVE [Next]_vars
  OBVIOUS
<1>1. ASSUME NEW k \in Keys, Type(k) PROVE UNCHANGED vars
  BY <1>1 DEF Type, vars
<1>2. ASSUME NEW m \in Mice, Mouse(m) PROVE UNCHANGED vars
  BY <1>2 DEF Mouse, vars
<1>3. CASE Look
  BY <1>3 DEF Look, Next
<1>4. CASE Question
  <2>1. ASSUME NEW k \in Keys, CASE k = "Y" -> Stop [] k = "Esc" -> KeepOn [] OTHER -> Waiting
        PROVE  Stop \/ KeepOn \/ Waiting
    BY <2>1 DEF Keys
  <2>2. Stop \/ KeepOn \/ Waiting
    BY <1>4, <2>1 DEF Question
  <2> QED BY <2>2 DEF Waiting, Next
<1>5. CASE Elsewhere
  BY <1>5 DEF Elsewhere
<1>6. CASE Off
  BY <1>6 DEF Off, Next
<1>7. CASE (\E r \in Ranges : Begin(r)) \/ Write \/ Refused \/ Use
  BY <1>7 DEF Next
<1>8. CASE UNCHANGED all
  BY <1>8 DEF all
<1> QED BY <1>1, <1>2, <1>3, <1>4, <1>5, <1>6, <1>7, <1>8 DEF ScreenNext

LEMMA ScreenInvCorrect == ScreenSpec => []IInv
<1>1. ScreenInit => IInv
  BY InitInv DEF ScreenInit
<1>2. IInv /\ [ScreenNext]_all => IInv'
  BY ScreenStep, NextInv
<1> QED BY <1>1, <1>2, PTL DEF ScreenSpec

\* A wipe on its screen is a wipe: whatever keys and clicks come, and whenever
\* they are read, each step is one of pt_wipe's or leaves the disk and the wipe
\* alone.
THEOREM ScreenWipes == ScreenSpec => Init /\ [][Next]_vars
<1>1. ScreenInit => Init
  BY DEF ScreenInit
<1> QED BY <1>1, ScreenStep, PTL DEF ScreenSpec

\* Every variable of a wipe has its type in every state of its screen.
THEOREM ScreenWipeTypes == ScreenSpec => []TypeOK
<1>1. IInv => TypeOK
  BY DEF IInv
<1> QED BY <1>1, ScreenInvCorrect, PTL

\* "Wiped" on the screen is true: the partition reads as zeros.
THEOREM ScreenWipedEmpty == ScreenSpec => []WipedIsEmpty
<1>1. IInv => WipedIsEmpty
  BY DEF IInv
<1> QED BY <1>1, ScreenInvCorrect, PTL

\* Wherever a key or a click stops a wipe in its second pass, nothing of the old
\* contents is left.
THEOREM ScreenRandomBeforeZeros == ScreenSpec => []RandomFirst
<1>1. IInv => RandomFirst
  BY DEF IInv
<1> QED BY <1>1, ScreenInvCorrect, PTL

\* No step on the screen of a wipe changes a block beside the partition.
THEOREM ScreenNeighboursSafe == ScreenSpec => NeighboursKept
<1>1. IInv /\ [Next]_vars =>
        [at = "write" => /\ ChunkAt + Length <= NBlocks
                         /\ \A b \in Blocks : InRange(b) \/ data'[b] = data[b]]_vars
  BY WriteKeepsNeighbours
<1>2. IInv /\ [ScreenNext]_all =>
        [at = "write" => /\ ChunkAt + Length <= NBlocks
                         /\ \A b \in Blocks : InRange(b) \/ data'[b] = data[b]]_vars
  BY <1>1, ScreenStep
<1> QED BY <1>2, ScreenInvCorrect, PTL DEF ScreenSpec, NeighboursKept

-----------------------------------------------------------------------------
(* The pointer.                                                            *)

OneMouse == \A m, n \in Mice : m = n

PointerType ==
  /\ reader \in [Mice -> {"firmware", "partmgr", "nobody"}]
  /\ button \in [Mice -> BOOLEAN] /\ fresh \in [Mice -> BOOLEAN]
  /\ acc \in [left: BOOLEAN, changed: BOOLEAN]
  /\ down \in BOOLEAN /\ unclicked \in BOOLEAN

\* What was collected comes from a mouse read that way.
Collected ==
  /\ \A m \in Mice : fresh[m] => reader[m] = "firmware"
  /\ acc.left \/ acc.changed => \E m \in Mice : reader[m] = "partmgr"

\* When every press has had its click, a button that is down was seen down at
\* the last read, and so was what report has collected.
Clicked ==
  ~unclicked =>
    /\ \A m \in Mice : button[m] => down
    /\ \A m \in Mice : button[m] /\ reader[m] = "partmgr" => acc.left
    /\ acc.left => down

PointerInv == PointerType /\ Collected /\ Clicked

LEMMA PointerInit == PointerOpen => PointerInv
<1> SUFFICES ASSUME PointerOpen PROVE PointerInv
  OBVIOUS
<1>1. reader \in [Mice -> {"firmware", "partmgr", "nobody"}]
  BY DEF PointerOpen
<1> QED BY <1>1 DEF PointerOpen, PointerInv, PointerType, Collected, Clicked

LEMMA HandInv ==
  ASSUME OneMouse, PointerInv, NEW m \in Mice, reader[m] # "nobody", NEW b \in BOOLEAN, Hand(m, b)
  PROVE  PointerInv'
<1> USE DEF PointerInv
<1>1. /\ reader' = reader /\ acc' = acc /\ down' = down
      /\ button' = [button EXCEPT ![m] = b]
      /\ fresh' = [fresh EXCEPT ![m] = reader[m] = "firmware"]
      /\ unclicked' = (unclicked \/ (b /\ ~button[m]))
  BY DEF Hand
<1>2. PointerType'
  BY <1>1 DEF PointerType
<1>3. Collected'
  BY <1>1 DEF Collected, PointerType
<1>4. ASSUME ~unclicked' PROVE ~unclicked /\ \A n \in Mice : button'[n] => button[n]
  BY <1>1, <1>4 DEF PointerType
<1>5. Clicked'
  BY <1>1, <1>4 DEF Clicked
<1> QED BY <1>2, <1>3, <1>5

LEMMA ReportInv ==
  ASSUME OneMouse, PointerInv, NEW m \in Mice, Report(m)
  PROVE  PointerInv'
<1> USE DEF PointerInv
<1>1. /\ reader[m] = "partmgr" /\ acc' = [left |-> button[m], changed |-> TRUE]
      /\ UNCHANGED <<reader, button, fresh, down, unclicked>>
  BY DEF Report
<1>2. button[m] \in BOOLEAN
  BY DEF PointerType
<1>3. PointerType'
  BY <1>1, <1>2 DEF PointerType
<1>4. Collected'
  BY <1>1 DEF Collected
<1>5. Clicked'
  BY <1>1 DEF Clicked, OneMouse
<1> QED BY <1>3, <1>4, <1>5

\* A read clicks for a press that has had no click.
LEMMA ReadInv ==
  ASSUME OneMouse, PointerInv, Read
  PROVE  PointerInv' /\ (~down /\ down' => unclicked)
<1> USE DEF PointerInv
<1>1. /\ fresh' = [m \in Mice |-> FALSE] /\ acc' = [acc EXCEPT !.changed = FALSE]
      /\ down' = IF Got THEN Left ELSE down
      /\ unclicked' = (unclicked /\ ~Pressed)
      /\ reader' = reader /\ button' = button
  BY DEF Read
<1>2. acc'.left = acc.left /\ acc'.changed = FALSE /\ acc' \in [left: BOOLEAN, changed: BOOLEAN]
  BY <1>1 DEF PointerType
<1>3. Got \in BOOLEAN /\ Left \in BOOLEAN
  BY DEF Got, Left, PointerType
<1>4. PointerType'
  BY <1>1, <1>2, <1>3 DEF PointerType
<1>5. Collected'
  BY <1>1, <1>2 DEF Collected
\* All that came is of one mouse.
<1>6. ASSUME NEW m \in Mice, reader[m] = "partmgr"
      PROVE  Got = acc.changed /\ Left = acc.left
  BY <1>6 DEF Got, Left, Collected, OneMouse, PointerType
<1>7. ASSUME NEW m \in Mice, reader[m] # "partmgr"
      PROVE  Got = fresh[m] /\ Left = (fresh[m] /\ button[m]) /\ ~acc.left
  BY <1>7 DEF Got, Left, Collected, OneMouse, PointerType
<1>8. ~down /\ down' => unclicked
  BY <1>1, <1>6, <1>7 DEF Clicked, Got, Left, Collected
<1>9. Clicked'
  BY <1>1, <1>2, <1>6, <1>7 DEF Clicked, Pressed, Collected, PointerType
<1> QED BY <1>4, <1>5, <1>8, <1>9

LEMMA OffInv ==
  ASSUME PointerInv, Off
  PROVE  PointerInv' /\ ~down'
BY DEF Off, PointerInv, PointerType, Collected, Clicked

LEMMA PointerStays ==
  ASSUME PointerInv, UNCHANGED pointer
  PROVE  PointerInv'
BY DEF pointer, PointerInv, PointerType, Collected, Clicked

LEMMA PointerStep ==
  ASSUME OneMouse, PointerInv, [ScreenNext]_all
  PROVE  PointerInv' /\ [~down /\ down' => unclicked]_pointer
<1> DEFINE Good == PointerInv' /\ [~down /\ down' => unclicked]_pointer
<1> SUFFICES Good
  OBVIOUS
<1>a. ASSUME UNCHANGED pointer PROVE Good
  BY <1>a, PointerStays
<1>b. ASSUME Read PROVE Good
  BY <1>b, ReadInv
<1>c. ASSUME NEW m \in Mice, Mouse(m) PROVE Good
  <2>1. reader[m] # "nobody" /\ (Report(m) \/ \E b \in BOOLEAN : Hand(m, b))
    BY <1>c DEF Mouse
  <2>2. PointerInv'
    BY <2>1, ReportInv, HandInv
  <2>3. down' = down
    BY <2>1 DEF Report, Hand
  <2> QED BY <2>2, <2>3
<1>d. CASE Off
  BY <1>d, OffInv
<1> HIDE DEF Good
<1>1. ASSUME NEW k \in Keys, Type(k) PROVE Good
  BY <1>1, <1>a DEF Type
<1>2. ASSUME NEW k \in Keys, ReadKey(k) PROVE Good
  BY <1>2, <1>a DEF ReadKey
<1>3. ASSUME ReadPointer PROVE Good
  BY <1>3, <1>b DEF ReadPointer
<1>4. ASSUME ReadNothing PROVE Good
  BY <1>4, <1>a DEF ReadNothing, input
<1>5. CASE Look
  BY <1>2, <1>3, <1>4, <1>5 DEF Look
<1>6. CASE Question
  BY <1>2, <1>3, <1>6 DEF Question
<1>7. CASE Elsewhere
  BY <1>2, <1>3, <1>7 DEF Elsewhere
<1>8. CASE UNCHANGED input \/ UNCHANGED all
  BY <1>8, <1>a DEF input, all
<1> QED BY <1>1, <1>c, <1>d, <1>5, <1>6, <1>7, <1>8 DEF ScreenNext

\* With one mouse, read through the firmware or by partmgr, every click is of a
\* press of its own, however presses, releases, reports, reads and restarts are
\* ordered.
THEOREM OneClick == OneMouse /\ ScreenSpec => OnePressOneClick
<1> SUFFICES ASSUME OneMouse PROVE ScreenSpec => OnePressOneClick
  OBVIOUS
<1>1. ScreenInit => PointerInv
  BY PointerInit DEF ScreenInit
<1>2. PointerInv /\ [ScreenNext]_all => PointerInv' /\ [~down /\ down' => unclicked]_pointer
  BY PointerStep
<1> QED BY <1>1, <1>2, PTL DEF ScreenSpec, OnePressOneClick
=============================================================================

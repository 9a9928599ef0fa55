--------------------------- MODULE SessionProofs ---------------------------
(***************************************************************************)
(* Proofs about DiskSession, for every set of disks, tables and machines:  *)
(* what may reach a disk and what may be lost.                             *)
(***************************************************************************)
EXTENDS DiskSession, Induction

Writing == {"write", "file", "restore", "wipe", "extended"}

\* What a question that waits tells of the view behind it. A disk is never
\* left with changes but by a question, the list of disks asks none, and a
\* question that can be answered with Y was not asked by that key.
QuestionsHold ==
  /\ ReadOnly(shown) => ~changed /\ dialog.ask \notin Writing
  /\ screen = "list" => ~changed /\ dialog.ask = "none"
  /\ dialog.ask \notin {"none", "file"} => last # "Y"
  /\ dialog.ask = "write" => changed
  /\ dialog.ask = "wipe" => table = on[shown] /\ IsPart(rows[sel])

\* Without changes the table in the view is the one on the disk, or none.
TableTrue ==
  ~changed => IF loaded THEN table = on[shown] ELSE table = NoTable

IInv ==
  /\ changed \in BOOLEAN /\ loaded \in BOOLEAN
  /\ QuestionsHold
  /\ TableTrue

\* What every step may do.
StepKeeps ==
  /\ changed /\ ~changed' => last' = "Y" /\ dialog.ask # "none"
  /\ media' # media => last' # last
  /\ data' # data => table = on[shown] /\ IsPart(rows[sel])

-----------------------------------------------------------------------------
LEMMA InitInv == Init => IInv
<1> SUFFICES ASSUME Init PROVE IInv
  OBVIOUS
<1>1. changed = FALSE /\ dialog.ask = "none"
  BY DEF Init, NoDialog
<1>2. loaded \in BOOLEAN /\ TableTrue
  BY DEF Init, TableTrue
<1>3. QuestionsHold
  BY <1>1 DEF QuestionsHold, Writing
<1> QED BY <1>1, <1>2, <1>3 DEF IInv

\* A disk that is opened or read again shows its table without changes.
Fresh ==
  /\ changed' = FALSE /\ loaded' \in BOOLEAN
  /\ IF loaded' THEN table' = on'[shown'] ELSE table' = NoTable

LEMMA OpenFresh ==
  ASSUME NEW d, NEW there \in BOOLEAN, Open(d, there), UNCHANGED media
  PROVE  Fresh
BY DEF Open, Fresh, media

LEMMA ReloadFresh ==
  ASSUME Reload
  PROVE  Fresh /\ shown' = shown
BY DEF Reload, Fresh

LEMMA LeaveFresh ==
  ASSUME NEW ask \in Leaving, NEW to, Leave(ask, to), UNCHANGED media
  PROVE  Fresh /\ screen' \in {screen, "list"}
<1>1. CASE ask \in {"quit", "rescan"}
  <2>1. PICK name : Scan(name)
    BY <1>1 DEF Leave
  <2>2. Open(NoDisk, FALSE) \/ Open(Listed(plugged)[dsel'], TRUE)
    BY <2>1 DEF Scan
  <2>3. UNCHANGED screen
    BY <2>1 DEF Scan
  <2> QED BY <2>2, <2>3, OpenFresh
<1>2. CASE ask = "change"
  <2>1. OpenListed(to)
    BY <1>2 DEF Leave
  <2>2. Answers(list[to]) \in BOOLEAN
    BY DEF Answers
  <2> QED BY <2>1, <2>2, OpenFresh DEF OpenListed
<1>3. CASE ask = "back"
  <2>1. ListDisks(dsel)
    BY <1>3 DEF Leave
  <2> QED BY <2>1, OpenFresh DEF ListDisks
<1> QED BY <1>1, <1>2, <1>3 DEF Leaving

-----------------------------------------------------------------------------
(* The kinds of steps. In each, IInv holds afterwards.                     *)

\* A disk is opened or read again and no question waits.
LEMMA FreshStep ==
  ASSUME Fresh, dialog'.ask = "none"
  PROVE  IInv'
<1>1. changed' = FALSE /\ loaded' \in BOOLEAN /\ TableTrue'
  BY DEF Fresh, TableTrue
<1>2. QuestionsHold'
  BY <1>1 DEF QuestionsHold, Writing
<1> QED BY <1>1, <1>2 DEF IInv

\* The view, its disk and the question stay, or no question waits any more.
LEMMA QuietStep ==
  ASSUME IInv, UNCHANGED <<media, view>>, screen' = screen,
         dialog'.ask = "none" \/ (UNCHANGED dialog /\ last' # "Y") \/ (UNCHANGED <<dialog, last>>)
  PROVE  IInv'
<1>1. changed' \in BOOLEAN /\ loaded' \in BOOLEAN /\ TableTrue'
  BY DEF IInv, TableTrue, media, view
<1>2. QuestionsHold'
  BY DEF IInv, QuestionsHold, media, view, ReadOnly, Writing
<1> QED BY <1>1, <1>2 DEF IInv

\* Leaving a disk, from the window or the screen of one.
LEMMA MayLeaveStep ==
  ASSUME IInv, dialog.ask = "none", screen # "list", NEW ask \in Leaving, NEW to,
         MayLeave(ask, to), UNCHANGED media, last' # "Y"
  PROVE  IInv' /\ (changed => changed')
<1>1. CASE changed
  <2>1. dialog'.ask = ask /\ UNCHANGED <<window, view, media>>
    BY <1>1 DEF MayLeave, Ask
  <2>2. ~ReadOnly(shown)
    BY <1>1 DEF IInv, QuestionsHold
  <2>3. QuestionsHold'
    BY <2>1, <2>2 DEF QuestionsHold, Leaving, Writing, window, view, ReadOnly
  <2>4. TableTrue' /\ changed' \in BOOLEAN /\ loaded' \in BOOLEAN
    BY <2>1 DEF IInv, TableTrue, view, media
  <2> QED BY <1>1, <2>1, <2>3, <2>4 DEF IInv, view
<1>2. CASE ~changed
  <2>1. Leave(ask, to) /\ UNCHANGED dialog
    BY <1>2 DEF MayLeave
  <2> QED BY <1>2, <2>1, LeaveFresh, FreshStep
<1> QED BY <1>1, <1>2

\* The table on the screen is changed.
LEMMA EditStep ==
  ASSUME IInv, dialog'.ask = "none", screen # "list", ~ReadOnly(shown),
         changed' = TRUE, UNCHANGED <<shown, loaded, screen>>
  PROVE  IInv'
<1>1. TableTrue' /\ loaded' \in BOOLEAN
  BY DEF IInv, TableTrue
<1>2. QuestionsHold'
  BY DEF QuestionsHold, ReadOnly
<1> QED BY <1>1, <1>2 DEF IInv

\* A question is asked of what is shown.
LEMMA AskStep ==
  ASSUME IInv, screen # "list", ~ReadOnly(shown), UNCHANGED <<media, window, view>>,
         dialog'.ask \in Writing, last' # "Y",
         dialog'.ask = "write" => changed,
         dialog'.ask = "wipe" => table = on[shown] /\ IsPart(rows[sel])
  PROVE  IInv'
<1>1. TableTrue' /\ changed' \in BOOLEAN /\ loaded' \in BOOLEAN
  BY DEF IInv, TableTrue, view, media
<1>2. QuestionsHold'
  BY DEF QuestionsHold, window, view, media, ReadOnly
<1> QED BY <1>1, <1>2 DEF IInv

LEMMA SummariseScreenStays == ASSUME Summarise PROVE screen' = screen
BY DEF Summarise

-----------------------------------------------------------------------------
(* The answer Y.                                                           *)

LEMMA YesStep ==
  ASSUME IInv, dialog.ask \notin {"none", "file"}, Yes, last' = "Y"
  PROVE  IInv' /\ StepKeeps
<1>1. dialog'.ask = "none" /\ last' # last
  BY DEF Yes, NoDialog, IInv, QuestionsHold
<1>2. CASE dialog.ask \in Leaving
  <2>1. Leave(dialog.ask, dialog.to) /\ UNCHANGED media
    BY <1>2 DEF Yes, Leaving
  <2>2. IInv'
    BY <1>1, <1>2, <2>1, LeaveFresh, FreshStep
  <2> QED BY <1>1, <2>1, <2>2 DEF StepKeeps, media
<1>3. CASE dialog.ask = "write"
  <2>1. WriteTable /\ UNCHANGED data /\ screen' = screen
    BY <1>3, SummariseScreenStays DEF Yes, Leaving
  <2>2. changed /\ ~ReadOnly(shown) /\ screen # "list"
    BY <1>3 DEF IInv, QuestionsHold, Writing
  <2>3. CASE UNCHANGED view
    <3>1. changed' = TRUE /\ UNCHANGED <<shown, loaded, screen>>
      BY <2>1, <2>2, <2>3 DEF view, IInv
    <3>2. IInv'
      BY <1>1, <2>2, <3>1, EditStep
    <3> QED BY <1>1, <1>3, <2>1, <3>2 DEF StepKeeps
  <2>4. CASE Reload
    <3>1. IInv'
      BY <1>1, <2>4, ReloadFresh, FreshStep
    <3> QED BY <1>1, <1>3, <2>1, <3>1 DEF StepKeeps
  <2> QED BY <2>1, <2>3, <2>4 DEF WriteTable
<1>4. CASE dialog.ask = "restore"
  <2>1. Reload /\ UNCHANGED data
    BY <1>4 DEF Yes, Leaving, Restore
  <2>2. IInv'
    BY <1>1, <2>1, ReloadFresh, FreshStep
  <2> QED BY <1>1, <1>4, <2>1, <2>2 DEF StepKeeps
<1>5. CASE dialog.ask = "wipe"
  <2>1. UNCHANGED <<on, view>> /\ screen' = screen
    BY <1>5, SummariseScreenStays DEF Yes, Leaving, Wipe
  <2>2. table = on[shown] /\ IsPart(rows[sel])
    BY <1>5 DEF IInv, QuestionsHold
  <2>3. TableTrue' /\ changed' \in BOOLEAN /\ loaded' \in BOOLEAN
    BY <2>1 DEF IInv, TableTrue, view
  <2>4. QuestionsHold'
    BY <1>1, <1>5, <2>1 DEF IInv, QuestionsHold, Writing, ReadOnly, view
  <2> QED BY <1>1, <1>5, <2>1, <2>2, <2>3, <2>4 DEF StepKeeps, IInv, view
<1>6. CASE dialog.ask = "extended"
  <2>1. changed' = TRUE /\ UNCHANGED <<media, shown, loaded, screen>>
    BY <1>6, SummariseScreenStays DEF Yes, Leaving, DeleteExtended
  <2>2. ~ReadOnly(shown) /\ screen # "list"
    BY <1>6 DEF IInv, QuestionsHold, Writing
  <2>3. IInv'
    BY <1>1, <2>1, <2>2, EditStep
  <2> QED BY <1>1, <1>6, <2>1, <2>3 DEF StepKeeps, media
<1> QED BY <1>2, <1>3, <1>4, <1>5, <1>6 DEF Yes

-----------------------------------------------------------------------------
(* Every step.                                                             *)

LEMMA UnwrittenStep ==
  ASSUME UNCHANGED media, changed => changed'
  PROVE  StepKeeps
BY DEF StepKeeps, media

LEMMA NextInv == IInv /\ [Next]_vars => IInv' /\ StepKeeps
<1> SUFFICES ASSUME IInv, [Next]_vars PROVE IInv' /\ StepKeeps
  OBVIOUS
<1> DEFINE Good == IInv' /\ StepKeeps
<1> SUFFICES Good
  OBVIOUS
<1>0. NoDialog.ask = "none"
  BY DEF NoDialog
<1> HIDE DEF Good
\* What leaves the disk and asks nothing new.
<1>a. ASSUME UNCHANGED <<media, view>>, screen' = screen,
             dialog'.ask = "none" \/ (UNCHANGED dialog /\ last' # "Y") \/ UNCHANGED <<dialog, last>>
      PROVE  Good
  BY <1>a, QuietStep, UnwrittenStep DEF view, Good
<1>b. ASSUME dialog.ask = "none", screen # "list", NEW ask \in Leaving, NEW to,
             MayLeave(ask, to), UNCHANGED media, last' # "Y"
      PROVE  Good
  BY <1>b, MayLeaveStep, UnwrittenStep DEF Good
<1>c. ASSUME dialog.ask = "none", screen # "list", MayChange, changed' = TRUE,
             UNCHANGED <<media, shown, loaded, dialog, screen>>
      PROVE  Good
  BY <1>c, EditStep, UnwrittenStep DEF MayChange, Good
<1>d. ASSUME NEW key, NEW ask \in Writing, Action(key), key # "Y", MayChange,
             Ask(ask, 0), UNCHANGED <<machine, media, window, view>>,
             ask = "write" => changed,
             ask = "wipe" => table = on[shown] /\ IsPart(rows[sel])
      PROVE  Good
  <2>1. dialog'.ask = ask
    BY <1>d DEF Ask
  <2>2. screen # "list" /\ last' # "Y"
    BY <1>d DEF Action
  <2>3. IInv'
    BY <1>d, <2>1, <2>2, AskStep DEF MayChange
  <2> QED BY <1>d, <2>3, UnwrittenStep DEF view, Good
<1>e. ASSUME NEW j, ListDisks(j), ~changed, UNCHANGED <<media, dialog>>, dialog.ask = "none"
      PROVE  Good
  <2>1. Fresh
    BY <1>e, OpenFresh DEF ListDisks
  <2> QED BY <1>e, <2>1, FreshStep, UnwrittenStep DEF Good
<1>1. CASE Plug
  BY <1>1, <1>a DEF Plug, window
<1>2. CASE Quit
  BY <1>2, <1>b DEF Quit, InWindow, Closed, Leaving
<1>3. CASE Rescan
  BY <1>3, <1>b DEF Rescan, InWindow, Closed, Leaving
<1>4. CASE Back
  BY <1>4, <1>b DEF Back, Closed, Leaving
<1>5. CASE ListKey
  <2>1. screen = "list" /\ UNCHANGED <<media, dialog>> /\ dialog.ask = "none"
    BY <1>5 DEF ListKey, Closed
  <2>2. ~changed
    BY <2>1 DEF IInv, QuestionsHold
  <2>3. \E j : ListDisks(j)
    BY <1>5 DEF ListKey
  <2> QED BY <1>e, <2>1, <2>2, <2>3
<1>6. CASE OpenSelected
  <2>1. screen = "list" /\ UNCHANGED <<media, dialog>> /\ dialog.ask = "none"
    BY <1>6 DEF OpenSelected, Closed
  <2>2. ~changed
    BY <2>1 DEF IInv, QuestionsHold
  <2>3. Open(list[dsel], TRUE) \/ ListDisks(dsel)
    BY <1>6 DEF OpenSelected
  <2>4. CASE Open(list[dsel], TRUE)
    BY <2>1, <2>2, <2>4, OpenFresh, FreshStep, UnwrittenStep DEF Good
  <2> QED BY <1>e, <2>1, <2>2, <2>3, <2>4
<1>7. ASSUME NEW i, ChangeDisk(i) PROVE Good
  BY <1>7, <1>b DEF ChangeDisk, To, InWindow, Closed, Leaving
<1>8. ASSUME NEW i, Select(i), last' = "other", dialog.ask = "none", screen # "list"
      PROVE  Good
  <2>1. UNCHANGED <<media, shown, loaded, table, changed, rows, dialog, screen>>
    BY <1>8 DEF Select, window
  <2>2. TableTrue' /\ changed' \in BOOLEAN /\ loaded' \in BOOLEAN
    BY <2>1 DEF IInv, TableTrue, media
  <2>3. QuestionsHold'
    BY <1>8, <2>1 DEF IInv, QuestionsHold, media, ReadOnly, Writing
  <2> QED BY <2>1, <2>2, <2>3, UnwrittenStep DEF IInv, Good
<1>9. ASSUME NEW i, SelectRow(i) PROVE Good
  BY <1>8, <1>9 DEF SelectRow, Closed
<1>10. CASE Click
  <2>1. dialog.ask = "none" /\ screen = "window" /\ last' = "other"
    BY <1>10 DEF Click, InWindow, Closed
  <2>2. (\E i : To(i)) \/ (\E i : Select(i))
    BY <1>10 DEF Click
  <2>3. ASSUME NEW i, To(i) PROVE Good
    BY <1>b, <2>1, <2>3 DEF To, Leaving
  <2> QED BY <1>8, <2>1, <2>2, <2>3
<1>11. ASSUME NEW t, Edited(t, 1) \/ (\E s : Edited(t, s)), MayChange, NEW key, Action(key)
       PROVE  Good
  <2>1. changed' = TRUE /\ UNCHANGED <<media, shown, loaded, dialog, screen>>
    BY <1>11, SummariseScreenStays DEF Edited
  <2>2. dialog.ask = "none" /\ screen # "list"
    BY <1>11 DEF Action, Closed
  <2> QED BY <1>11, <1>c, <2>1, <2>2
<1>12. ASSUME NEW t \in Tables, NewPartition(t) PROVE Good
  <2>1. Action("Enter") /\ MayChange /\ \E s : Edited(t, s)
    BY <1>12 DEF NewPartition
  <2> QED BY <1>11, <2>1
<1>13. ASSUME NEW t \in Tables, DeletePartition(t) PROVE Good
  <2>1. Action("other") /\ MayChange
    BY <1>13 DEF DeletePartition
  <2>2. \/ Ask("extended", 0) /\ UNCHANGED <<machine, media, window, view>>
        \/ Edited(t, sel)
    BY <1>13 DEF DeletePartition
  <2>3. CASE Edited(t, sel)
    BY <1>11, <2>1, <2>3
  <2>4. CASE Ask("extended", 0) /\ UNCHANGED <<machine, media, window, view>>
    BY <1>d, <2>1, <2>4 DEF Writing
  <2> QED BY <2>2, <2>3, <2>4
<1>14. ASSUME NEW t \in Tables, SetPartition(t) PROVE Good
  <2>1. changed' = TRUE /\ UNCHANGED <<media, shown, loaded, dialog, screen>> /\ MayChange
    BY <1>14, SummariseScreenStays DEF SetPartition
  <2>2. dialog.ask = "none" /\ screen # "list"
    BY <1>14 DEF SetPartition, Action, Closed
  <2> QED BY <1>c, <2>1, <2>2
<1>15. ASSUME NEW t \in Tables, NewTable(t) PROVE Good
  BY <1>11, <1>15 DEF NewTable
<1>16. CASE DeleteTable
  BY <1>11, <1>16 DEF DeleteTable
<1>17. CASE NothingDone
  <2>1. last' # "Y" /\ UNCHANGED <<media, view, dialog, screen>>
    BY <1>17, SummariseScreenStays DEF NothingDone, Action
  <2> QED BY <1>a, <2>1
<1>18. CASE AskWrite
  <2>1. Action("Enter") /\ MayChange /\ Ask("write", 0) /\ UNCHANGED <<machine, media, window, view>> /\ changed
    BY <1>18 DEF AskWrite, Question
  <2> QED BY <1>d, <2>1 DEF Writing
<1>19. CASE AskFile
  <2>1. Action("S") /\ MayChange /\ Ask("file", 0) /\ UNCHANGED <<machine, media, window, view>>
    BY <1>19 DEF AskFile, Question
  <2> QED BY <1>d, <2>1 DEF Writing
<1>20. CASE AskWipe
  <2>1. Action("W") /\ MayChange /\ Ask("wipe", 0) /\ UNCHANGED <<machine, media, window, view>>
    BY <1>20 DEF AskWipe, Question
  <2>2. IsPart(rows[sel]) /\ ~changed /\ 1..Len(table.rows) # {}
    BY <1>20 DEF AskWipe, OnPart, CanWipe
  <2>3. loaded
    <3>1. 1..Len(NoTable.rows) = {}
      BY DEF NoTable
    <3> QED BY <2>2, <3>1 DEF IInv, TableTrue
  <2>4. table = on[shown]
    BY <2>2, <2>3 DEF IInv, TableTrue
  <2> QED BY <1>d, <2>1, <2>2, <2>4 DEF Writing
<1>21. ASSUME No PROVE Good
  <2>1. UNCHANGED <<media, view, screen>> /\ dialog'.ask = "none"
    BY <1>0, <1>21, SummariseScreenStays DEF No, window
  <2> QED BY <1>a, <2>1
<1>22. ASSUME NEW key \in Keys, Answer(key) PROVE Good
  <2>1. dialog.ask \notin {"none", "file"} /\ last' = key
    BY <1>22 DEF Answer, Closed
  <2>2. CASE Confirms(key)
    <3>1. Yes /\ last' = "Y"
      BY <1>22, <2>1, <2>2 DEF Answer, Confirms
    <3> QED BY <2>1, <3>1, YesStep DEF Good
  <2>3. CASE ~Confirms(key) /\ Refuses(key)
    BY <1>21, <1>22, <2>3 DEF Answer
  <2>4. CASE ~Confirms(key) /\ ~Refuses(key)
    <3>1. UNCHANGED <<media, view, screen, dialog>> /\ last' # "Y"
      BY <1>22, <2>1, <2>4 DEF Answer, Confirms, window
    <3> QED BY <1>a, <3>1
  <2> QED BY <2>2, <2>3, <2>4
<1>23. ASSUME NEW key \in Keys, FileNamed(key) PROVE Good
  <2>1. dialog.ask = "file" /\ last' = key
    BY <1>23 DEF FileNamed
  <2>2. CASE Ask("restore", 0) /\ key = "Enter" /\ UNCHANGED <<machine, media, window, view>>
    <3>1. dialog'.ask = "restore" /\ last' # "Y"
      BY <2>1, <2>2 DEF Ask
    <3>2. ~ReadOnly(shown) /\ screen # "list"
      BY <2>1 DEF IInv, QuestionsHold, Writing
    <3>3. IInv'
      BY <2>2, <3>1, <3>2, AskStep DEF Writing
    <3> QED BY <2>2, <3>3, UnwrittenStep DEF view, Good
  <2>3. CASE No
    BY <1>21, <2>3
  <2>4. CASE UNCHANGED <<machine, media, window, view, dialog>>
    <3>1. IInv'
      <4>1. TableTrue' /\ changed' \in BOOLEAN /\ loaded' \in BOOLEAN
        BY <2>4 DEF IInv, TableTrue, view, media
      <4>2. QuestionsHold'
        BY <2>1, <2>4 DEF IInv, QuestionsHold, window, view, media, ReadOnly
      <4> QED BY <4>1, <4>2 DEF IInv
    <3> QED BY <2>4, <3>1, UnwrittenStep DEF view, Good
  <2>5. \/ Ask("restore", 0) /\ key = "Enter" /\ UNCHANGED <<machine, media, window, view>>
        \/ No
        \/ UNCHANGED <<machine, media, window, view, dialog>>
    BY <1>23 DEF FileNamed, Taken, GivenUp
  <2> QED BY <2>2, <2>3, <2>4, <2>5
<1>24. CASE UNCHANGED vars
  BY <1>a, <1>24 DEF vars, window
<1> QED BY <1>1, <1>2, <1>3, <1>4, <1>5, <1>6, <1>7, <1>9, <1>10, <1>12, <1>13, <1>14, <1>15,
           <1>16, <1>17, <1>18, <1>19, <1>20, <1>22, <1>23, <1>24 DEF Next, Edit

LEMMA InvCorrect == Spec => []IInv
<1> QED BY InitInv, NextInv, PTL DEF Spec

-----------------------------------------------------------------------------
(* The list of disks.                                                      *)

\* The places of the disks among the first k handles, in their order.
Among(m, k, p) ==
  /\ p \in Seq(1..k)
  /\ \A a, b \in 1..Len(p) : a < b => p[a] < p[b]
  /\ \A i \in 1..k : IsDisk(m[i]) <=> \E a \in 1..Len(p) : p[a] = i

LEMMA PlacesStep ==
  ASSUME NEW m, NEW k \in Nat, NEW p, Among(m, k, p)
  PROVE  Among(m, k + 1, WithDisk(p, m[k + 1], k + 1))
<1>1. p \in Seq(1..k) /\ p \in Seq(1..(k + 1)) /\ Len(p) \in Nat /\ \A a \in 1..Len(p) : p[a] \in 1..k
  BY DEF Among
<1>2. CASE ~IsDisk(m[k + 1])
  <2>1. \A i \in 1..(k + 1) : IsDisk(m[i]) <=> \E a \in 1..Len(p) : p[a] = i
    BY <1>1, <1>2 DEF Among
  <2> QED BY <1>1, <1>2, <2>1 DEF Among, WithDisk
<1>3. CASE IsDisk(m[k + 1])
  <2> DEFINE q == Append(p, k + 1)
  <2>1. /\ q \in Seq(1..(k + 1)) /\ Len(q) = Len(p) + 1 /\ q[Len(p) + 1] = k + 1
        /\ \A a \in 1..Len(p) : q[a] = p[a]
    BY <1>1
  <2> HIDE DEF q
  <2>2. ASSUME NEW a \in 1..Len(q), NEW b \in 1..Len(q), a < b PROVE q[a] < q[b]
    <3>1. a \in 1..Len(p)
      BY <2>1, <2>2, <1>1
    <3>2. CASE b = Len(p) + 1
      <4>1. q[a] = p[a] /\ p[a] \in 1..k /\ q[b] = k + 1
        BY <1>1, <2>1, <3>1, <3>2
      <4> QED BY <4>1
    <3>3. CASE b # Len(p) + 1
      <4>1. b \in 1..Len(p)
        BY <2>1, <3>3, <1>1
      <4> QED BY <2>1, <2>2, <3>1, <4>1 DEF Among
    <3> QED BY <3>2, <3>3
  <2>3. ASSUME NEW i \in 1..(k + 1) PROVE IsDisk(m[i]) <=> \E a \in 1..Len(q) : q[a] = i
    <3>1. CASE i = k + 1
      <4>1. Len(p) + 1 \in 1..Len(q)
        BY <1>1, <2>1
      <4> QED BY <1>3, <2>1, <3>1, <4>1
    <3>2. CASE i # k + 1
      <4>1. i \in 1..k
        BY <3>2
      <4>2. ASSUME NEW a \in 1..Len(q), q[a] = i PROVE a \in 1..Len(p)
        BY <1>1, <2>1, <3>2, <4>2
      <4>3. \A a \in 1..Len(p) : a \in 1..Len(q)
        BY <1>1, <2>1
      <4>4. (\E a \in 1..Len(q) : q[a] = i) <=> (\E a \in 1..Len(p) : p[a] = i)
        BY <2>1, <4>2, <4>3
      <4> QED BY <4>1, <4>4 DEF Among
    <3> QED BY <3>1, <3>2
  <2> QED BY <1>3, <2>1, <2>2, <2>3 DEF Among, WithDisk, q
<1> QED BY <1>2, <1>3

LEMMA PlacesAmong ==
  ASSUME NEW m, Len(m) \in Nat
  PROVE  Among(m, Len(m), Places(m))
<1>0. PICK n \in Nat : n = Len(m)
  OBVIOUS
<1> DEFINE Rest(g) == [i \in 0..n |-> IF i = 0 THEN <<>> ELSE WithDisk(g[i - 1], m[i], i)]
           upto == CHOOSE g : g = Rest(g)
<1>1. Places(m) = upto[n]
  BY <1>0 DEF Places
<1>2. \E g : g = Rest(g)
  <2>1. PICK V : V = Seq(Nat)
    OBVIOUS
  <2>2. PICK e : e = <<>>
    OBVIOUS
  <2>3. e \in V /\ \A s \in V, i \in 1..n : WithDisk(s, m[i], i) \in V
    BY <2>1, <2>2 DEF WithDisk
  <2>4. PICK step : step = [i \in 1..n |-> [s \in V |-> WithDisk(s, m[i], i)]]
    OBVIOUS
  <2>5. step \in Steps(n, V)
    BY <2>3, <2>4 DEF Steps
  <2>6. PICK g : Made(g, n, V, e, step)
    BY <2>3, <2>5, Recursion
  <2>7. g \in [0..n -> V] /\ g[0] = <<>>
    BY <2>2, <2>6 DEF Made
  <2>8. ASSUME NEW i \in 1..n PROVE g[i] = WithDisk(g[i - 1], m[i], i)
    <3>1. g[i - 1] \in V
      BY <2>7
    <3> QED BY <2>4, <2>6, <3>1 DEF Made
  <2>9. g = Rest(g)
    BY <2>7, <2>8
  <2> QED BY <2>9
<1>3. upto = Rest(upto)
  BY <1>2
<1> HIDE DEF upto
<1>4. upto[0] = <<>> /\ \A i \in 1..n : upto[i] = WithDisk(upto[i - 1], m[i], i)
  BY <1>3
<1> DEFINE S == {k \in Nat : k <= n => Among(m, k, upto[k])}
<1>5. 0 \in S
  <2>1. Among(m, 0, <<>>)
    BY DEF Among
  <2> QED BY <1>4, <2>1
<1>6. ASSUME NEW k \in Nat, k \in S PROVE k + 1 \in S
  <2> SUFFICES ASSUME k + 1 <= n PROVE Among(m, k + 1, upto[k + 1])
    OBVIOUS
  <2>1. k + 1 \in 1..n /\ Among(m, k, upto[k])
    BY <1>6
  <2>2. upto[k + 1] = WithDisk(upto[k], m[k + 1], k + 1)
    BY <1>4, <2>1
  <2> QED BY <2>1, <2>2, PlacesStep
<1> HIDE DEF S
<1>7. n \in S
  BY <1>5, <1>6, NatSet
<1> QED BY <1>0, <1>1, <1>7 DEF S

\* The disks of a machine: each listed once, under its place.
LEMMA ListedFacts ==
  ASSUME NEW m \in Machines
  PROVE  /\ Places(m) \in Seq(1..Len(m)) /\ Len(m) \in Nat
         /\ Len(Listed(m)) = Len(Places(m)) /\ Len(Listed(m)) \in Nat
         /\ Listed(m) = <<>> <=> Len(Listed(m)) = 0
         /\ \A j \in 1..Len(Listed(m)) :
              Places(m)[j] \in 1..Len(m) /\ Listed(m)[j] = m[Places(m)[j]].disk /\ Listed(m)[j] \in Disks
         /\ \A i, j \in 1..Len(Listed(m)) : Listed(m)[i] = Listed(m)[j] => i = j
         /\ \A i \in 1..Len(m) : IsDisk(m[i]) => \E j \in 1..Len(Listed(m)) : Places(m)[j] = i
<1>1. m \in Seq(Handle) /\ Len(m) \in Nat
  BY MachinesAssumption
<1>2. PICK p : p = Places(m)
  OBVIOUS
<1>3. Among(m, Len(m), p)
  BY <1>1, <1>2, PlacesAmong
<1>4. p \in Seq(1..Len(m)) /\ Len(p) \in Nat /\ \A j \in 1..Len(p) : p[j] \in 1..Len(m)
  BY <1>3 DEF Among
<1>5. ASSUME NEW j \in 1..Len(p) PROVE m[p[j]].disk \in Disks /\ IsDisk(m[p[j]])
  <2>1. p[j] \in 1..Len(m) /\ m[p[j]] \in Handle
    BY <1>1, <1>4
  <2>2. IsDisk(m[p[j]])
    BY <1>3, <2>1 DEF Among
  <2> QED BY <2>1, <2>2 DEF Handle
<1>6. Listed(m) = [j \in 1..Len(p) |-> m[p[j]].disk]
  BY <1>2 DEF Listed
<1>7. Listed(m) \in Seq(Disks) /\ Len(Listed(m)) = Len(p)
  BY <1>4, <1>5, <1>6
<1>8. Listed(m) = <<>> <=> Len(Listed(m)) = 0
  BY <1>7
<1>9. ASSUME NEW i \in 1..Len(p), NEW j \in 1..Len(p), Listed(m)[i] = Listed(m)[j] PROVE i = j
  <2>1. m[p[i]].disk = m[p[j]].disk /\ m[p[i]].whole /\ m[p[j]].whole
    BY <1>5, <1>6, <1>9 DEF IsDisk
  <2>2. p[i] = p[j]
    BY <1>4, <2>1, MachinesAssumption
  <2>3. ~(i < j) /\ ~(j < i)
    BY <1>3, <1>4, <2>2 DEF Among
  <2> QED BY <1>4, <2>3
<1> QED BY <1>1, <1>2, <1>3, <1>4, <1>5, <1>6, <1>7, <1>8, <1>9 DEF Among

LEMMA FirstWritableFacts ==
  ASSUME NEW m \in Machines, Listed(m) # <<>>
  PROVE  FirstWritable(m) \in 1..Len(Listed(m))
<1>1. Len(Listed(m)) \in Nat /\ Len(Listed(m)) # 0
  BY ListedFacts
<1>2. CASE Writables(m) = {}
  BY <1>1, <1>2 DEF FirstWritable
<1>3. CASE Writables(m) # {}
  <2>1. Writables(m) \in SUBSET Nat /\ Writables(m) \subseteq 1..Len(Listed(m))
    BY <1>1 DEF Writables
  <2>2. \E j \in Writables(m) : \A k \in Writables(m) : j <= k
    BY <1>3, <2>1, LeastNatural
  <2> QED BY <1>3, <2>1, <2>2 DEF FirstWritable
<1> QED BY <1>2, <1>3

\* The disk selected is one of the list, and the one with the name if there is.
LEMMA SelectedFacts ==
  ASSUME NEW m \in Machines, NEW name, Listed(m) # <<>>
  PROVE  /\ Selected(m, name) \in 1..Len(Listed(m))
         /\ (\E j \in 1..Len(Listed(m)) : Places(m)[j] = name) => Places(m)[Selected(m, name)] = name
<1>1. Len(Places(m)) = Len(Listed(m))
  BY ListedFacts
<1> QED BY <1>1, FirstWritableFacts DEF Selected

\* Read again, the list has the selected disk when no handle before it came or
\* went.
LEMMA SelectedStays ==
  ASSUME NEW m \in Machines, NEW n \in Machines, NEW j \in 1..Len(Listed(m)),
         IsPrefix(SubSeq(m, 1, Places(m)[j]), n)
  PROVE  Listed(n) # <<>> /\ Listed(n)[Selected(n, Places(m)[j])] = Listed(m)[j]
<1>1. PICK k : k = Places(m)[j]
  OBVIOUS
<1>2. k \in 1..Len(m) /\ Listed(m)[j] = m[k].disk /\ Len(m) \in Nat /\ Len(n) \in Nat
  BY <1>1, ListedFacts
<1>3. m \in Seq(Handle) /\ n \in Seq(Handle)
  BY MachinesAssumption
<1>4. PICK s : s = SubSeq(m, 1, k)
  OBVIOUS
<1>5. s \in Seq(Handle) /\ Len(s) = k /\ s[k] = m[k]
  <2>1. \A i \in 1..k : m[i] \in Handle
    BY <1>2, <1>3
  <2> QED BY <1>2, <1>3, <1>4, <2>1
<1>6. k <= Len(n) /\ s[k] = n[k]
  BY <1>1, <1>2, <1>3, <1>4, <1>5 DEF IsPrefix
<1>7. IsDisk(m[k])
  BY <1>1, <1>2, PlacesAmong, ListedFacts DEF Among
<1>8. k \in 1..Len(n) /\ n[k] = m[k] /\ IsDisk(n[k])
  BY <1>2, <1>5, <1>6, <1>7
<1>9. \E i \in 1..Len(Listed(n)) : Places(n)[i] = k
  BY <1>8, ListedFacts
<1>10. Listed(n) # <<>>
  BY <1>9, ListedFacts
<1>11. Selected(n, k) \in 1..Len(Listed(n)) /\ Places(n)[Selected(n, k)] = k
  BY <1>9, <1>10, SelectedFacts
<1>12. Listed(n)[Selected(n, k)] = n[k].disk
  BY <1>11, ListedFacts
<1> QED BY <1>1, <1>2, <1>8, <1>10, <1>12

-----------------------------------------------------------------------------
(* What the screen shows.                                                  *)

Held == Tables \cup {NoTable}

InWindowOnly == {"quit", "rescan", "change"}

\* The list, and of its disks the one shown: there is one whenever there is a
\* table or a question about one.
ListInv ==
  /\ plugged \in Machines /\ scanned \in Machines
  /\ screen \in {"window", "list", "disk"}
  /\ dsel \in Nat \ {0}
  /\ list # <<>> => dsel \in 1..Len(list) /\ shown = IF screen = "list" THEN NoDisk ELSE list[dsel]
  /\ loaded \/ screen = "disk" \/ dialog.ask \notin Leaving \cup {"none"} => list # <<>> /\ screen # "list"
  /\ dialog.ask \in InWindowOnly => screen = "window"
  /\ dialog.ask = "change" => dialog.to \in 1..Len(list)

\* The rows are those of the table, and one of them is selected.
RowsInv ==
  /\ on \in [Disks -> Held] /\ table \in Held /\ rows \in Seq(RowKinds)
  /\ loaded => rows = table.rows
  /\ sel \in 1..(IF rows = <<>> THEN 1 ELSE Len(rows))

\* The kinds in the list are those of the tables on its disks.
KindsInv ==
  /\ kinds = [i \in 1..Len(list) |-> kinds[i]]
  /\ screen # "disk" => \A i \in 1..Len(list) : list[i] \notin gone => kinds[i] = on[list[i]].kind

ScreenInv == ListInv /\ RowsInv /\ KindsInv

LEMMA ListFacts ==
  ASSUME ListInv
  PROVE  /\ Len(list) \in Nat /\ (list = <<>> <=> Len(list) = 0)
         /\ \A i \in 1..Len(list) : list[i] \in Disks
         /\ \A i, j \in 1..Len(list) : list[i] = list[j] => i = j
         /\ dsel \in Nat \ {0}
         /\ list # <<>> /\ screen # "list" => shown \in Disks
BY ListedFacts DEF ListInv, list

LEMMA HeldRows == ASSUME NEW t \in Held PROVE t.rows \in Seq(RowKinds)
<1>1. CASE t \in Tables
  BY <1>1, TablesAssumption
<1>2. CASE t = NoTable
  BY <1>2 DEF NoTable
<1> QED BY <1>1, <1>2 DEF Held

LEMMA SetRowsFacts ==
  ASSUME NEW t \in Held, NEW s \in Nat \ {0}, SetRows(t, s)
  PROVE  /\ rows' = t.rows /\ rows' \in Seq(RowKinds)
         /\ sel' \in 1..(IF rows' = <<>> THEN 1 ELSE Len(rows'))
<1>1. rows' = t.rows /\ sel' = Clamp(s, Len(rows')) /\ rows' \in Seq(RowKinds)
  BY HeldRows DEF SetRows
<1>2. Len(rows') \in Nat /\ (rows' = <<>> <=> Len(rows') = 0)
  BY <1>1
<1> QED BY <1>1, <1>2 DEF Clamp

LEMMA SelType == ASSUME RowsInv PROVE sel \in Nat \ {0}
BY DEF RowsInv

LEMMA OpenRows ==
  ASSUME RowsInv, NEW d, NEW there \in BOOLEAN, there => d \in Disks,
         Open(d, there), UNCHANGED media
  PROVE  RowsInv' /\ loaded' = there /\ shown' = d
<1>1. on' \in [Disks -> Held] /\ on' = on
  BY DEF RowsInv, media
<1>2. CASE there
  <2>1. on[d] \in Held /\ table' = on[d] /\ SetRows(on[d], 1) /\ loaded' = TRUE
    BY <1>2 DEF Open, RowsInv
  <2> QED BY <1>1, <1>2, <2>1, SetRowsFacts DEF RowsInv, Open
<1>3. CASE ~there
  <2>1. NoTable \in Held /\ <<>> \in Seq(RowKinds)
    BY DEF Held
  <2>2. loaded' = FALSE /\ table' = NoTable /\ rows' = <<>> /\ sel' = 1 /\ shown' = d
    BY <1>3 DEF Open
  <2>3. there = FALSE
    BY <1>3
  <2>4. sel' \in 1..(IF rows' = <<>> THEN 1 ELSE Len(rows'))
    BY <2>2
  <2>5. table' \in Held /\ rows' \in Seq(RowKinds) /\ ~loaded'
    BY <2>1, <2>2
  <2>6. RowsInv'
    BY <1>1, <2>4, <2>5 DEF RowsInv
  <2> QED BY <2>2, <2>3, <2>6
<1> QED BY <1>2, <1>3

LEMMA ReloadRows ==
  ASSUME RowsInv, Reload, on' \in [Disks -> Held], shown \in Disks
  PROVE  RowsInv'
<1>1. CASE Answers(shown)
  <2>1. on'[shown] \in Held /\ table' = on'[shown] /\ SetRows(on'[shown], sel) /\ loaded' = TRUE
    BY <1>1 DEF Reload
  <2> QED BY <2>1, SelType, SetRowsFacts DEF RowsInv
<1>2. CASE ~Answers(shown)
  <2>1. NoTable \in Held
    BY DEF Held
  <2> QED BY <1>2, <2>1 DEF Reload, RowsInv
<1> QED BY <1>1, <1>2

\* The disks were listed and read.
LEMMA ReadKinds ==
  ASSUME ScreenInv, ReadDisks, UNCHANGED media
  PROVE  /\ KindsInv' /\ scanned' \in Machines /\ plugged' \in Machines
         /\ list' = Listed(plugged)
         /\ Len(list') \in Nat /\ (list' = <<>> <=> Len(list') = 0)
         /\ \A i \in 1..Len(list') : list'[i] \in Disks
<1>1. scanned' = plugged /\ plugged' = plugged /\ kinds' = Summary(Listed(plugged)) /\ gone' = {}
      /\ plugged \in Machines /\ on' = on
  BY DEF ReadDisks, ScreenInv, ListInv, media
<1>2. list' = Listed(plugged)
  BY <1>1 DEF list
<1>3. Len(list') \in Nat /\ (list' = <<>> <=> Len(list') = 0) /\ \A i \in 1..Len(list') : list'[i] \in Disks
  BY <1>1, <1>2, ListedFacts
<1>4. kinds' = [i \in 1..Len(list') |-> on'[list'[i]].kind]
  BY <1>1, <1>2 DEF Summary
<1>5. KindsInv'
  BY <1>4 DEF KindsInv
<1> QED BY <1>1, <1>2, <1>3, <1>5

LEMMA ScanStep ==
  ASSUME ScreenInv, NEW name, Scan(name), UNCHANGED media, screen = "window", dialog'.ask = "none"
  PROVE  ScreenInv'
<1>1. ReadDisks /\ screen' = screen /\ dsel' = Selected(plugged, name) /\ plugged \in Machines
  BY DEF Scan, ScreenInv, ListInv
<1>2. /\ KindsInv' /\ scanned' \in Machines /\ plugged' \in Machines /\ list' = Listed(plugged)
      /\ Len(list') \in Nat /\ (list' = <<>> <=> Len(list') = 0)
      /\ \A i \in 1..Len(list') : list'[i] \in Disks
  BY <1>1, ReadKinds
<1>3. CASE list' = <<>>
  <2>1. Open(NoDisk, FALSE)
    BY <1>2, <1>3 DEF Scan
  <2>2. RowsInv' /\ loaded' = FALSE
    BY <2>1, OpenRows DEF ScreenInv
  <2>3. dsel' = 1
    <3>1. Len(Places(plugged)) = 0 /\ Len(Listed(plugged)) = 0
      BY <1>1, <1>2, <1>3, ListedFacts
    <3>2. Writables(plugged) = {}
      BY <3>1 DEF Writables
    <3>3. Selected(plugged, name) = FirstWritable(plugged)
      BY <3>1 DEF Selected
    <3> QED BY <1>1, <3>2, <3>3 DEF FirstWritable
  <2>4. ListInv'
    BY <1>1, <1>2, <1>3, <2>2, <2>3 DEF ListInv, InWindowOnly
  <2> QED BY <1>2, <2>2, <2>4 DEF ScreenInv
<1>4. CASE list' # <<>>
  <2>0. PICK d : d = Listed(plugged)[dsel']
    OBVIOUS
  <2>1. dsel' \in 1..Len(list') /\ Open(d, TRUE) /\ d = list'[dsel'] /\ d \in Disks
    <3>1. Selected(plugged, name) \in 1..Len(Listed(plugged))
      BY <1>1, <1>2, <1>4, SelectedFacts
    <3>2. Open(d, TRUE)
      BY <1>2, <1>4, <2>0 DEF Scan
    <3> QED BY <1>1, <1>2, <2>0, <3>1, <3>2
  <2>2. RowsInv' /\ loaded' = TRUE /\ shown' = list'[dsel']
    BY <1>2, <2>1, OpenRows DEF ScreenInv
  <2>3. ListInv'
    BY <1>1, <1>2, <1>4, <2>1, <2>2 DEF ListInv, InWindowOnly
  <2> QED BY <1>2, <2>2, <2>3 DEF ScreenInv
<1> QED BY <1>3, <1>4

LEMMA OpenListedStep ==
  ASSUME ScreenInv, NEW j \in 1..Len(list), OpenListed(j), UNCHANGED media,
         screen = "window", dialog'.ask = "none"
  PROVE  ScreenInv'
<1>1. /\ dsel' = j /\ Open(list[j], Answers(list[j]))
      /\ UNCHANGED <<plugged, gone, screen, scanned, kinds, on>> /\ list' = list
  BY DEF OpenListed, machine, media, list
<1>2. list[j] \in Disks /\ Answers(list[j]) \in BOOLEAN /\ list # <<>> /\ j \in Nat \ {0}
  BY ListFacts DEF ScreenInv, Answers
<1>3. RowsInv' /\ shown' = list[j]
  BY <1>1, <1>2, OpenRows DEF ScreenInv
<1>4. ListInv'
  BY <1>1, <1>2, <1>3 DEF ScreenInv, ListInv, InWindowOnly
<1>5. KindsInv'
  BY <1>1 DEF ScreenInv, KindsInv
<1> QED BY <1>3, <1>4, <1>5 DEF ScreenInv

LEMMA ListDisksStep ==
  ASSUME ScreenInv, NEW j \in Nat \ {0}, ListDisks(j), UNCHANGED media, dialog'.ask = "none"
  PROVE  ScreenInv'
<1>1. /\ ReadDisks /\ screen' = "list" /\ dsel' = Clamp(j, Len(Listed(plugged)))
      /\ Open(NoDisk, FALSE)
  BY DEF ListDisks
<1>2. /\ KindsInv' /\ scanned' \in Machines /\ plugged' \in Machines /\ list' = Listed(plugged)
      /\ Len(list') \in Nat /\ (list' = <<>> <=> Len(list') = 0)
  BY <1>1, ReadKinds
<1>3. RowsInv' /\ loaded' = FALSE /\ shown' = NoDisk
  BY <1>1, OpenRows DEF ScreenInv
<1>4. dsel' \in Nat \ {0} /\ (list' # <<>> => dsel' \in 1..Len(list'))
  BY <1>1, <1>2 DEF Clamp
<1>5. ListInv'
  BY <1>1, <1>2, <1>3, <1>4 DEF ListInv, InWindowOnly
<1> QED BY <1>2, <1>3, <1>5 DEF ScreenInv

LEMMA LeaveStep ==
  ASSUME ScreenInv, NEW ask \in Leaving, NEW to, Leave(ask, to), UNCHANGED media,
         ask \in InWindowOnly => screen = "window", ask = "change" => to \in 1..Len(list),
         dialog'.ask = "none"
  PROVE  ScreenInv'
<1>1. CASE ask \in {"quit", "rescan"}
  <2>1. PICK name : Scan(name)
    BY <1>1 DEF Leave
  <2> QED BY <1>1, <2>1, ScanStep DEF InWindowOnly
<1>2. CASE ask = "change"
  <2>1. OpenListed(to)
    BY <1>2 DEF Leave
  <2> QED BY <1>2, <2>1, OpenListedStep DEF InWindowOnly
<1>3. CASE ask = "back"
  <2>1. ListDisks(dsel)
    BY <1>3 DEF Leave
  <2> QED BY <2>1, ListDisksStep, ListFacts DEF ScreenInv
<1> QED BY <1>1, <1>2, <1>3 DEF Leaving

\* Nothing but the question changes.
LEMMA AskedStep ==
  ASSUME ScreenInv, UNCHANGED <<machine, media, window, view>>,
         dialog'.ask \notin Leaving \cup {"none"} => list # <<>> /\ screen # "list",
         dialog'.ask \in InWindowOnly => screen = "window",
         dialog'.ask = "change" => dialog'.to \in 1..Len(list)
  PROVE  ScreenInv'
<1>1. list' = list /\ UNCHANGED <<plugged, gone, scanned, screen, dsel, kinds, shown, loaded, table, rows, sel, on>>
  BY DEF machine, media, window, view, list
<1>2. ListInv'
  BY <1>1 DEF ScreenInv, ListInv
<1> QED BY <1>1, <1>2 DEF ScreenInv, RowsInv, KindsInv

\* An action on the disk shown, after which it alone is summarised.
LEMMA ActionStep ==
  ASSUME ScreenInv, list # <<>>, screen # "list", Summarise, UNCHANGED machine, shown' = shown,
         RowsInv', \A d \in Disks : d # shown => on'[d] = on[d],
         dialog'.ask = "none" \/ dialog' = dialog
  PROVE  ScreenInv'
<1>1. list' = list /\ UNCHANGED <<plugged, gone, scanned, screen, dsel>>
  BY DEF machine, Summarise, list
<1>2. dsel \in 1..Len(list) /\ shown = list[dsel]
  BY DEF ScreenInv, ListInv
<1>3. ListInv'
  BY <1>1 DEF ScreenInv, ListInv, InWindowOnly
<1>4. kinds = [i \in 1..Len(list) |-> kinds[i]]
  BY DEF ScreenInv, KindsInv
<1>5. CASE screen = "disk"
  <2>1. kinds' = kinds
    BY <1>5 DEF Summarise
  <2> QED BY <1>1, <1>3, <1>4, <1>5, <2>1 DEF ScreenInv, KindsInv
<1>6. CASE screen # "disk"
  <2>1. kinds' = [kinds EXCEPT ![dsel] = IF Answers(shown) THEN on'[shown].kind ELSE "unreadable"]
    BY <1>6 DEF Summarise
  <2>2. kinds' = [i \in 1..Len(list) |-> kinds'[i]]
    BY <1>4, <2>1
  <2>3. ASSUME NEW i \in 1..Len(list), list[i] \notin gone PROVE kinds'[i] = on'[list[i]].kind
    <3>1. CASE i = dsel
      BY <1>2, <1>4, <2>1, <2>3, <3>1 DEF Answers
    <3>2. CASE i # dsel
      <4>1. list[i] # shown /\ list[i] \in Disks
        BY <1>2, <3>2, ListFacts DEF ScreenInv
      <4>2. kinds'[i] = kinds[i]
        BY <1>4, <2>1, <3>2
      <4> QED BY <1>6, <2>3, <4>1, <4>2 DEF ScreenInv, KindsInv
    <3> QED BY <3>1, <3>2
  <2> QED BY <1>1, <1>3, <2>2, <2>3 DEF ScreenInv, KindsInv
<1> QED BY <1>5, <1>6

LEMMA MayLeaveShows ==
  ASSUME ScreenInv, dialog.ask = "none", NEW ask \in Leaving, NEW to, MayLeave(ask, to), UNCHANGED media,
         ask \in InWindowOnly => screen = "window", ask = "change" => to \in 1..Len(list)
  PROVE  ScreenInv'
<1>1. CASE changed
  <2>1. dialog'.ask = ask /\ dialog'.to = to /\ UNCHANGED <<machine, window, view>>
    BY <1>1 DEF MayLeave, Ask
  <2> QED BY <2>1, AskedStep
<1>2. CASE ~changed
  <2>1. Leave(ask, to) /\ dialog' = dialog
    BY <1>2 DEF MayLeave
  <2> QED BY <2>1, LeaveStep
<1> QED BY <1>1, <1>2

LEMMA InitShows == Init => ScreenInv
<1> SUFFICES ASSUME Init PROVE ScreenInv
  OBVIOUS
<1>1. plugged \in Machines /\ scanned \in Machines /\ list = Listed(plugged)
  BY DEF Init, list
<1>2. /\ Len(list) \in Nat /\ (list = <<>> <=> Len(list) = 0)
      /\ \A i \in 1..Len(list) : list[i] \in Disks
  BY <1>1, ListedFacts
<1>3. dialog.ask = "none" /\ Tables \subseteq Held /\ NoTable \in Held /\ on \in [Disks -> Held]
  BY DEF Init, NoDialog, Held
<1>4. kinds = [i \in 1..Len(list) |-> on[list[i]].kind]
  BY DEF Init, Summary
<1>5. KindsInv
  BY <1>4 DEF KindsInv
<1>6. /\ dsel \in Nat \ {0} /\ screen \in {"window", "list"}
      /\ list # <<>> => dsel \in 1..Len(list) /\ shown = IF screen = "list" THEN NoDisk ELSE list[dsel]
      /\ loaded => list # <<>> /\ screen # "list"
      /\ table \in Held
  <2>1. CASE screen = "window"
    <3>1. list # <<>> /\ dsel = Selected(plugged, 0) /\ shown = list[dsel] /\ table = on[shown]
      BY <2>1 DEF Init
    <3>2. dsel \in 1..Len(list)
      BY <1>1, <3>1, SelectedFacts
    <3> QED BY <1>2, <1>3, <2>1, <3>1, <3>2
  <2>2. CASE screen = "list"
    <3>1. dsel = 1 /\ shown = NoDisk /\ loaded = FALSE /\ table = NoTable
      BY <2>2 DEF Init
    <3> QED BY <1>2, <1>3, <2>2, <3>1
  <2> QED BY <2>1, <2>2 DEF Init
<1>7. ListInv
  BY <1>1, <1>3, <1>6 DEF ListInv, InWindowOnly
<1>8. rows = table.rows /\ sel = 1 /\ rows \in Seq(RowKinds)
  BY <1>6, HeldRows DEF Init
<1>9. sel \in 1..(IF rows = <<>> THEN 1 ELSE Len(rows))
  BY <1>8
<1>10. RowsInv
  BY <1>3, <1>6, <1>8, <1>9 DEF RowsInv
<1> QED BY <1>5, <1>7, <1>10 DEF ScreenInv

LEMMA WritesFacts ==
  ASSUME RowsInv, Writes(Tables)
  PROVE  on' \in [Disks -> Held] /\ \A d \in Disks : d # shown => on'[d] = on[d]
BY DEF RowsInv, Writes, Held

LEMMA EditedRows ==
  ASSUME RowsInv, NEW t \in Held, NEW s \in Nat \ {0}, SetRows(t, s), table' = t, on' = on
  PROVE  RowsInv'
BY SetRowsFacts DEF RowsInv

\* The table in the view, or its mark alone, is changed.
LEMMA EditShows ==
  ASSUME ScreenInv, list # <<>>, screen # "list", NEW t \in Held, NEW s \in Nat \ {0}, Edited(t, s)
  PROVE  ScreenInv'
<1>1. SetRows(t, s) /\ table' = t /\ UNCHANGED <<machine, on, shown, dialog>> /\ Summarise
  BY DEF Edited, media
<1>2. RowsInv'
  BY <1>1, EditedRows DEF ScreenInv
<1> QED BY <1>1, <1>2, ActionStep

LEMMA ActionLists ==
  ASSUME ScreenInv, NEW key, Action(key)
  PROVE  list # <<>> /\ screen # "list" /\ dialog.ask = "none"
BY DEF ScreenInv, ListInv, Action, Closed

LEMMA QuestionShows ==
  ASSUME ScreenInv, NEW ask, ask \notin Leaving, list # <<>>, screen # "list",
         Ask(ask, 0), UNCHANGED <<machine, media, window, view>>
  PROVE  ScreenInv'
<1>1. dialog'.ask = ask /\ ask \notin InWindowOnly /\ ask # "change"
  BY DEF Ask, Leaving, InWindowOnly
<1> QED BY <1>1, AskedStep

\* No, or a file that cannot be read.
LEMMA NoShows ==
  ASSUME ScreenInv, dialog.ask # "none", No
  PROVE  ScreenInv'
<1>1. dialog'.ask = "none" /\ UNCHANGED <<machine, media, view>>
  BY DEF No, NoDialog
<1>2. CASE dialog.ask \in Leaving
  BY <1>1, <1>2, AskedStep DEF No, Leaving, InWindowOnly
<1>3. CASE dialog.ask \notin Leaving
  <2>1. list # <<>> /\ screen # "list" /\ Summarise
    BY <1>3 DEF No, ScreenInv, ListInv
  <2>2. RowsInv' /\ shown' = shown /\ on' = on
    BY <1>1 DEF ScreenInv, RowsInv, view, media
  <2> QED BY <1>1, <2>1, <2>2, ActionStep
<1> QED BY <1>2, <1>3

LEMMA YesShows ==
  ASSUME ScreenInv, dialog.ask # "none", Yes
  PROVE  ScreenInv'
<1>1. dialog'.ask = "none"
  BY DEF Yes, NoDialog
<1>2. CASE dialog.ask \in Leaving
  <2>1. Leave(dialog.ask, dialog.to) /\ UNCHANGED media
    BY <1>2 DEF Yes, Leaving
  <2>2. /\ dialog.ask \in InWindowOnly => screen = "window"
        /\ dialog.ask = "change" => dialog.to \in 1..Len(list)
    BY DEF ScreenInv, ListInv
  <2> QED BY <1>1, <1>2, <2>1, <2>2, LeaveStep
<1>3. CASE dialog.ask \notin Leaving
  <2>1. list # <<>> /\ screen # "list" /\ Summarise /\ UNCHANGED machine
    BY <1>3 DEF Yes, ScreenInv, ListInv
  <2>2. shown \in Disks
    BY <2>1, ListFacts DEF ScreenInv
  <2>3. RowsInv
    BY DEF ScreenInv
  <2>4. /\ RowsInv' /\ shown' = shown
        /\ \A d \in Disks : d # shown => on'[d] = on[d]
    <3>1. CASE dialog.ask = "write"
      <4>1. WriteTable
        BY <1>3, <3>1 DEF Yes
      <4>2. CASE Writes(Tables) /\ UNCHANGED view
        BY <2>3, <4>2, WritesFacts DEF RowsInv, view
      <4>3. CASE on' = [on EXCEPT ![shown] = table] /\ Reload
        <5>1. on' \in [Disks -> Held] /\ \A d \in Disks : d # shown => on'[d] = on[d]
          BY <2>2, <2>3, <4>3 DEF RowsInv
        <5> QED BY <2>2, <2>3, <4>3, <5>1, ReloadRows DEF Reload
      <4> QED BY <4>1, <4>2, <4>3 DEF WriteTable
    <3>2. CASE dialog.ask = "restore"
      <4>1. Writes(Tables) /\ Reload
        BY <1>3, <3>2 DEF Yes, Restore
      <4> QED BY <2>2, <2>3, <4>1, WritesFacts, ReloadRows DEF Reload
    <3>3. CASE dialog.ask = "wipe"
      <4>1. on' = on /\ UNCHANGED view
        BY <1>3, <3>3 DEF Yes, Wipe
      <4> QED BY <2>3, <4>1 DEF RowsInv, view
    <3>4. CASE dialog.ask = "extended"
      <4>1. DeleteExtended
        BY <1>3, <3>4 DEF Yes
      <4>2. PICK t \in Tables : table' = t /\ SetRows(t, sel) /\ UNCHANGED <<media, shown>>
        BY <4>1 DEF DeleteExtended
      <4>3. t \in Held /\ sel \in Nat \ {0} /\ on' = on
        BY <2>3, <4>2, SelType DEF Held, media
      <4> QED BY <2>3, <4>2, <4>3, EditedRows
    <3> QED BY <1>3, <3>1, <3>2, <3>3, <3>4 DEF Yes
  <2> QED BY <1>1, <2>1, <2>4, ActionStep
<1> QED BY <1>2, <1>3

LEMMA NextShows == ScreenInv /\ [Next]_vars => ScreenInv'
<1> SUFFICES ASSUME ScreenInv, [Next]_vars PROVE ScreenInv'
  OBVIOUS
<1>a. Len(list) \in Nat /\ (list = <<>> <=> Len(list) = 0) /\ dsel \in Nat \ {0}
  BY ListFacts DEF ScreenInv
<1>b. rows \in Seq(RowKinds) /\ Len(rows) \in Nat /\ sel \in Nat \ {0}
  BY SelType DEF ScreenInv, RowsInv
<1>c. \A n \in Nat, i \in Nat : Moves(i, n) \subseteq 1..n
  BY DEF Moves
<1>d. Tables \subseteq Held /\ NoTable \in Held
  BY DEF Held
<1>1. CASE Plug
  <2>1. /\ plugged' \in Machines /\ gone \subseteq gone' /\ list' = list
        /\ UNCHANGED <<scanned, screen, dsel, kinds, on, shown, loaded, table, rows, sel, dialog>>
    BY <1>1 DEF Plug, media, window, view, list
  <2>2. ListInv'
    BY <2>1 DEF ScreenInv, ListInv
  <2>3. RowsInv'
    BY <2>1 DEF ScreenInv, RowsInv
  <2>4. KindsInv'
    BY <2>1 DEF ScreenInv, KindsInv
  <2> QED BY <2>2, <2>3, <2>4 DEF ScreenInv
<1>2. CASE Quit
  BY <1>2, MayLeaveShows DEF Quit, InWindow, Closed, Leaving
<1>3. CASE Rescan
  BY <1>3, MayLeaveShows DEF Rescan, InWindow, Closed, Leaving
<1>4. CASE Back
  BY <1>4, MayLeaveShows DEF Back, Closed, Leaving, InWindowOnly
<1>5. CASE ListKey
  <2>1. PICK j \in {1, dsel} \cup Moves(dsel, Len(list)) : ListDisks(j)
    BY <1>5 DEF ListKey
  <2>2. j \in Nat \ {0}
    BY <1>a, <1>c
  <2>3. UNCHANGED media /\ dialog'.ask = "none"
    BY <1>5 DEF ListKey, Closed
  <2> QED BY <2>1, <2>2, <2>3, ListDisksStep
<1>6. CASE OpenSelected
  <2>1. UNCHANGED media /\ dialog'.ask = "none" /\ screen = "list" /\ list # <<>>
    BY <1>6 DEF OpenSelected, Closed
  <2>2. CASE Answers(list[dsel])
    <3>1. /\ screen' = "disk" /\ Open(list[dsel], TRUE)
          /\ UNCHANGED <<plugged, gone, scanned, dsel, kinds>> /\ list' = list
      BY <1>6, <2>2 DEF OpenSelected, machine, list
    <3>2. dsel \in 1..Len(list) /\ list[dsel] \in Disks
      BY <2>1, ListFacts DEF ScreenInv, ListInv
    <3>3. RowsInv' /\ loaded' = TRUE /\ shown' = list[dsel]
      BY <2>1, <3>1, <3>2, OpenRows DEF ScreenInv
    <3>4. ListInv'
      BY <2>1, <3>1, <3>2, <3>3 DEF ScreenInv, ListInv, InWindowOnly
    <3>5. KindsInv'
      BY <3>1 DEF ScreenInv, KindsInv
    <3> QED BY <3>3, <3>4, <3>5 DEF ScreenInv
  <2>3. CASE ~Answers(list[dsel])
    <3>1. ListDisks(dsel)
      BY <1>6, <2>3 DEF OpenSelected
    <3> QED BY <1>a, <2>1, <3>1, ListDisksStep
  <2> QED BY <2>2, <2>3
<1>7. ASSUME NEW i \in 1..Len(list), To(i), screen = "window", dialog.ask = "none" PROVE ScreenInv'
  BY <1>7, MayLeaveShows DEF To, Leaving
<1>8. ASSUME NEW i \in 1..Len(list), ChangeDisk(i) PROVE ScreenInv'
  BY <1>7, <1>8 DEF ChangeDisk, InWindow, Closed
<1>9. ASSUME NEW i \in 1..Len(rows), Select(i) PROVE ScreenInv'
  <2>1. /\ sel' = i /\ list' = list
        /\ UNCHANGED <<plugged, gone, scanned, screen, dsel, kinds, on, shown, loaded, table, rows, dialog>>
    BY <1>9 DEF Select, machine, media, window, list
  <2>2. ListInv'
    BY <2>1 DEF ScreenInv, ListInv
  <2>3. RowsInv'
    BY <1>b, <2>1 DEF ScreenInv, RowsInv
  <2>4. KindsInv'
    BY <2>1 DEF ScreenInv, KindsInv
  <2> QED BY <2>2, <2>3, <2>4 DEF ScreenInv
<1>10. ASSUME NEW i \in 1..Len(rows), SelectRow(i) PROVE ScreenInv'
  BY <1>9, <1>10 DEF SelectRow
<1>11. CASE Click
  BY <1>7, <1>9, <1>11 DEF Click, InWindow, Closed
<1>12. ASSUME NEW t \in Tables, NewPartition(t) PROVE ScreenInv'
  <2>1. PICK s \in 1..Len(t.rows) : Edited(t, s)
    BY <1>12 DEF NewPartition
  <2>2. t \in Held /\ Len(t.rows) \in Nat
    BY <1>d, HeldRows
  <2>3. list # <<>> /\ screen # "list"
    BY <1>12, ActionLists DEF NewPartition
  <2> QED BY <2>1, <2>2, <2>3, EditShows
<1>13. ASSUME NEW t \in Tables, DeletePartition(t) PROVE ScreenInv'
  <2>1. list # <<>> /\ screen # "list"
    BY <1>13, ActionLists DEF DeletePartition
  <2>2. \/ Ask("extended", 0) /\ UNCHANGED <<machine, media, window, view>>
        \/ Edited(t, sel)
    BY <1>13 DEF DeletePartition
  <2> QED BY <1>b, <1>d, <2>1, <2>2, EditShows, QuestionShows DEF Leaving
<1>14. ASSUME NEW t \in Tables, SetPartition(t) PROVE ScreenInv'
  <2>1. list # <<>> /\ screen # "list"
    BY <1>14, ActionLists DEF SetPartition
  <2>2. /\ table' = t /\ t.rows = table.rows /\ Summarise
        /\ UNCHANGED <<machine, on, shown, loaded, rows, sel, dialog>>
    BY <1>14 DEF SetPartition, media
  <2>3. RowsInv'
    BY <1>d, <2>2 DEF ScreenInv, RowsInv
  <2> QED BY <2>1, <2>2, <2>3, ActionStep
<1>15. ASSUME NEW t \in Tables, NewTable(t) PROVE ScreenInv'
  <2>1. list # <<>> /\ screen # "list"
    BY <1>15, ActionLists DEF NewTable
  <2> QED BY <1>d, <1>15, <2>1, EditShows DEF NewTable
<1>16. CASE DeleteTable
  <2>1. list # <<>> /\ screen # "list"
    BY <1>16, ActionLists DEF DeleteTable
  <2> QED BY <1>d, <1>16, <2>1, EditShows DEF DeleteTable
<1>17. CASE NothingDone
  <2>1. list # <<>> /\ screen # "list"
    BY <1>17, ActionLists DEF NothingDone
  <2>2. UNCHANGED <<machine, on, shown, loaded, table, rows, sel, dialog>> /\ Summarise
    BY <1>17 DEF NothingDone, media, view
  <2>3. RowsInv'
    BY <2>2 DEF ScreenInv, RowsInv
  <2> QED BY <2>1, <2>2, <2>3, ActionStep
<1>18. ASSUME NEW key, NEW ask \in {"write", "file", "wipe"}, Question(key, ask) PROVE ScreenInv'
  <2>1. list # <<>> /\ screen # "list"
    BY <1>18, ActionLists DEF Question
  <2> QED BY <1>18, <2>1, QuestionShows DEF Question, Leaving
<1>19. CASE AskWrite
  BY <1>18, <1>19 DEF AskWrite
<1>20. CASE AskFile
  BY <1>18, <1>20 DEF AskFile
<1>21. CASE AskWipe
  BY <1>18, <1>21 DEF AskWipe
<1>22. ASSUME UNCHANGED <<machine, media, window, view, dialog>> PROVE ScreenInv'
  BY <1>22, AskedStep DEF ScreenInv, ListInv
<1>23. ASSUME NEW key \in Keys, Answer(key) PROVE ScreenInv'
  <2>1. dialog.ask # "none"
    BY <1>23 DEF Answer, Closed
  <2> QED BY <1>22, <1>23, <2>1, YesShows, NoShows DEF Answer
<1>24. ASSUME NEW key \in Keys, FileNamed(key) PROVE ScreenInv'
  <2>1. dialog.ask = "file" /\ list # <<>> /\ screen # "list"
    BY <1>24 DEF FileNamed, ScreenInv, ListInv, Leaving
  <2> QED BY <1>22, <1>24, <2>1, NoShows, QuestionShows DEF FileNamed, Leaving
<1>25. CASE UNCHANGED vars
  BY <1>22, <1>25 DEF vars
<1> QED BY <1>1, <1>2, <1>3, <1>4, <1>5, <1>6, <1>8, <1>10, <1>11, <1>12, <1>13, <1>14, <1>15,
           <1>16, <1>17, <1>19, <1>20, <1>21, <1>23, <1>24, <1>25 DEF Next, Edit

LEMMA ShowsCorrect == Spec => []ScreenInv
<1> QED BY InitShows, NextShows, PTL DEF Spec

\* The disks are read again: the one selected stays when it is still where it
\* was.
LEMMA RescanStep ==
  ASSUME ScreenInv, [Next]_vars, last' = "F5", shown' # shown, list # <<>>
  PROVE  ~IsPrefix(SubSeq(scanned, 1, NameOf(dsel)), plugged)
<1>1. Rescan
  <2>1. ~Answer("F5") /\ ~FileNamed("F5")
    BY DEF Answer, FileNamed, Confirms, Refuses, Taken, GivenUp, view
  <2>2. ~UNCHANGED vars
    BY DEF vars, view
  <2>3. ~Plug /\ ~Quit /\ ~Back /\ ~ListKey /\ ~OpenSelected /\ ~Click
    BY DEF Plug, view, Quit, Back, ListKey, OpenSelected, Click
  <2>4. ~(\E i \in 1..Len(list) : ChangeDisk(i)) /\ ~(\E i \in 1..Len(rows) : SelectRow(i))
    BY DEF ChangeDisk, SelectRow
  <2>5. ~Edit
    BY DEF Edit, NewPartition, DeletePartition, SetPartition, NewTable, Action
  <2>6. ~DeleteTable /\ ~NothingDone /\ ~AskWrite /\ ~AskFile /\ ~AskWipe
    BY DEF DeleteTable, NothingDone, AskWrite, AskFile, AskWipe, Question, Action
  <2>7. ASSUME NEW key \in Keys, Answer(key) \/ FileNamed(key) PROVE key = "F5"
    BY <2>7 DEF Answer, FileNamed
  <2> QED BY <2>1, <2>2, <2>3, <2>4, <2>5, <2>6, <2>7 DEF Next
<1>2. Leave("rescan", 0)
  BY <1>1 DEF Rescan, MayLeave, view
<1>3. Scan(NameOf(dsel))
  BY <1>2 DEF Leave
<1>4. screen = "window" /\ dsel \in 1..Len(list) /\ shown = list[dsel] /\ list = Listed(scanned)
      /\ scanned \in Machines /\ plugged \in Machines
  BY <1>1 DEF Rescan, InWindow, ScreenInv, ListInv, list
<1>5. NameOf(dsel) = Places(scanned)[dsel]
  BY <1>4 DEF NameOf
<1> SUFFICES ASSUME IsPrefix(SubSeq(scanned, 1, NameOf(dsel)), plugged) PROVE FALSE
  OBVIOUS
<1>6. Listed(plugged) # <<>> /\ Listed(plugged)[Selected(plugged, NameOf(dsel))] = shown
  BY <1>4, <1>5, SelectedStays
<1>7. shown' = Listed(plugged)[dsel'] /\ dsel' = Selected(plugged, NameOf(dsel))
  BY <1>3, <1>6 DEF Scan, Open
<1> QED BY <1>6, <1>7

-----------------------------------------------------------------------------
\* The disk partmgr was started from and protected ones never get changes nor a
\* question that could write to them, however disks and questions come and go.
THEOREM ReadOnlySafe == Spec => []ReadOnlyKept
<1>1. IInv => ReadOnlyKept
  BY DEF IInv, QuestionsHold, ReadOnlyKept, Writing
<1> QED BY <1>1, InvCorrect, PTL

\* Unwritten changes are written or given up by a Y to a question only.
THEOREM ChangesKept == Spec => NothingLostUnasked
<1>1. IInv /\ [Next]_vars => [changed /\ ~changed' => last' = "Y" /\ dialog.ask # "none"]_vars
  BY NextInv DEF StepKeeps
<1> QED BY <1>1, InvCorrect, PTL DEF Spec, NothingLostUnasked

\* What reaches a disk does so by a key that is not the one pressed before.
THEOREM NoRepeatedKeyWrites == Spec => OneKeyNeverWrites
<1>1. IInv /\ [Next]_vars => [media' # media => last' # last]_vars
  BY NextInv DEF StepKeeps
<1> QED BY <1>1, InvCorrect, PTL DEF Spec, OneKeyNeverWrites

\* A wipe overwrites a partition that is on the disk, as the screen shows it.
THEOREM WipeTrue == Spec => WipeSeesDisk
<1>1. IInv /\ [Next]_vars => [data' # data => table = on[shown] /\ IsPart(rows[sel])]_vars
  BY NextInv DEF StepKeeps
<1> QED BY <1>1, InvCorrect, PTL DEF Spec, WipeSeesDisk
\* While a table is loaded the rows on the screen are its rows; a row is always
\* selected, and the disk shown is the one highlighted in the list.
THEOREM RowsTrue == Spec => []RowsNameTheTable
<1>1. ScreenInv => RowsNameTheTable
  BY DEF ScreenInv, ListInv, RowsInv, RowsNameTheTable
<1> QED BY <1>1, ShowsCorrect, PTL

\* Without unwritten changes the screen shows what is on the disk, and the list
\* the kinds of the tables that are on its disks, whatever stopped half-way.
THEOREM ScreenFresh == Spec => []ViewFresh
<1>1. IInv /\ ScreenInv => ViewFresh
  BY DEF IInv, TableTrue, ScreenInv, KindsInv, ViewFresh
<1> QED BY <1>1, InvCorrect, ShowsCorrect, PTL

\* Reading the disks again keeps the selected one unless a handle before it
\* came or went.
THEOREM RescanTrue == Spec => RescanKeepsDisk
<1>1. ScreenInv /\ [Next]_vars =>
        [last' = "F5" /\ shown' # shown /\ list # <<>> =>
           ~IsPrefix(SubSeq(scanned, 1, NameOf(dsel)), plugged)]_vars
  BY RescanStep
<1> QED BY <1>1, ShowsCorrect, PTL DEF Spec, RescanKeepsDisk
=============================================================================

----------------------------- MODULE WipeScreen -----------------------------
(***************************************************************************)
(* A wipe with the screen it runs on: the progress call looks for Esc or a *)
(* click on Stop (gui_wipe_stop of gui.c, wipe_progress of diskview.c)     *)
(* between two chunks, and the question whether to stop waits for keys and *)
(* clicks. Keys are typed and mice are moved at any time; they wait in the *)
(* firmware until they are read. Where the pointer is is left out: a click *)
(* may hit any button or none.                                             *)
(***************************************************************************)
EXTENDS PtWipe, Pointer, Sequences

CONSTANT KeysBound    \* keys the firmware keeps

VARIABLES
  screen,    \* "window" or "text"
  keys       \* typed and not read yet

input == <<screen, keys, pointer>>
all   == <<vars, input>>

Keys == {"Esc", "Y", "other"}

ScreenInit ==
  /\ Init /\ PointerOpen
  /\ screen \in {"window", "text"} /\ keys = <<>>

\* The user. Without a window nobody reads the pointer.
Type(k) ==
  /\ Len(keys) < KeysBound /\ keys' = Append(keys, k)
  /\ UNCHANGED <<vars, screen, pointer>>

Mouse(m) ==
  /\ screen = "window" /\ reader[m] # "nobody"
  /\ Report(m) \/ \E b \in BOOLEAN : Hand(m, b)
  /\ UNCHANGED <<vars, screen, keys>>

-----------------------------------------------------------------------------
\* A key comes before the pointer, which then is not read.
ReadKey(k) == keys # <<>> /\ k = Head(keys) /\ keys' = Tail(keys) /\ UNCHANGED <<screen, pointer>>
ReadPointer == keys = <<>> /\ screen = "window" /\ Read /\ UNCHANGED <<screen, keys>>
ReadNothing == keys = <<>> /\ screen = "text" /\ UNCHANGED input

\* Fault: the state of the button at this look is forgotten.
LookForgets ==
  \/ \E k \in Keys : ReadKey(k) /\ IF k = "Esc" THEN AskStop ELSE GoOnWriting
  \/ /\ keys = <<>> /\ screen = "window"
     /\ \/ Pressed /\ AskStop
        \/ GoOnWriting
     /\ fresh' = [m \in Mice |-> FALSE] /\ acc' = [acc EXCEPT !.changed = FALSE]
     /\ unclicked' = (unclicked /\ ~Pressed)
     /\ UNCHANGED <<reader, button, down, screen, keys>>
  \/ ReadNothing /\ GoOnWriting

\* One look between two chunks: one key, or the pointer.
Look ==
  \/ \E k \in Keys : ReadKey(k) /\ IF k = "Esc" THEN AskStop ELSE GoOnWriting
  \/ ReadPointer /\ \/ Pressed /\ AskStop
                    \/ GoOnWriting
  \/ ReadNothing /\ GoOnWriting

Waiting == at = "ask" /\ UNCHANGED vars

\* "Stop the wipe? (Y/N)": Y, N or Esc, or a click on Yes or No; Esc stands for N.
Question ==
  \/ \E k \in Keys : ReadKey(k) /\ CASE k = "Y" -> Stop [] k = "Esc" -> KeepOn [] OTHER -> Waiting
  \/ ReadPointer /\ \/ Pressed /\ (Stop \/ KeepOn)
                    \/ Waiting

\* Between wipes the input goes to the screen of the disk (DiskSession).
Elsewhere ==
  /\ at = "idle" /\ UNCHANGED vars
  /\ ReadPointer \/ \E k \in Keys : ReadKey(k)

\* The machine starts again with the same mice, no key and no button down.
Off ==
  /\ PowerCut /\ keys' = <<>> /\ UNCHANGED <<screen, reader>>
  /\ button' = [m \in Mice |-> FALSE] /\ fresh' = [m \in Mice |-> FALSE]
  /\ acc' = [left |-> FALSE, changed |-> FALSE]
  /\ down' = FALSE /\ unclicked' = FALSE

ScreenNext ==
  \/ \E k \in Keys : Type(k)
  \/ \E m \in Mice : Mouse(m)
  \/ Look
  \/ Question
  \/ Elsewhere
  \/ Off
  \/ /\ \/ \E r \in Ranges : Begin(r)
        \/ Write \/ Refused \/ Use
     /\ UNCHANGED input

\* The program runs on, and a user who is asked comes to an answer.
ScreenFairness ==
  /\ WF_all(Look) /\ WF_all(Question)
  /\ WF_all((Write \/ Refused) /\ UNCHANGED input)
  /\ \A k \in {"Esc", "Y"} : SF_all(Type(k))

ScreenSpec == ScreenInit /\ [][ScreenNext]_all /\ ScreenFairness
=============================================================================

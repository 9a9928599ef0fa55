------------------------------- MODULE Pointer -------------------------------
(***************************************************************************)
(* The mice (pal_mouse_efi.c): those a firmware driver has are asked for   *)
(* their state; a USB mouse without one is driven by partmgr, and the      *)
(* firmware calls report whenever a transfer of it ends, between any two   *)
(* steps of the program. A click is the left button down at a read that    *)
(* was up at the one before (gui.c).                                       *)
(***************************************************************************)
EXTENDS Naturals

CONSTANTS
  Mice,       \* the mice in the machine
  Attached    \* how each may be attached: functions from Mice to Attachment

Attachment == [driven: BOOLEAN,    \* a firmware driver has it
               path: BOOLEAN,      \* and its handle has a device path
               usb: BOOLEAN]       \* a HID boot mouse with an endpoint to read

ASSUME AttachedAssumption == Attached \subseteq [Mice -> Attachment]

VARIABLES
  reader,     \* how each mouse is read: "firmware", "partmgr" or "nobody"
  button,     \* its left button is down
  fresh,      \* the firmware has a state of it not asked for yet
  acc,        \* what report collected: the left button, and whether it came since the last read
  down,       \* the button at the last read (g->down)
  unclicked   \* a press since the last click (history)

pointer == <<reader, button, fresh, acc, down, unclicked>>

\* pal_pointer_open: no mouse is read twice, one without a device path (what a
\* console makes of all of them) not at all, and one that a driver has is not
\* taken from it; taking one may fail.
Readers(m) ==
  IF m.driven THEN {IF m.path THEN "firmware" ELSE "nobody"}
  ELSE IF m.usb THEN {"partmgr", "nobody"} ELSE {"nobody"}

PointerOpen ==
  /\ \E a \in Attached : reader \in {r \in [Mice -> {"firmware", "partmgr", "nobody"}] :
                                       \A m \in Mice : r[m] \in Readers(a[m])}
  /\ button = [m \in Mice |-> FALSE] /\ fresh = [m \in Mice |-> FALSE]
  /\ acc = [left |-> FALSE, changed |-> FALSE]
  /\ down = FALSE /\ unclicked = FALSE

-----------------------------------------------------------------------------
\* The hand: presses, releases and moves. The firmware knows the first two and
\* that a mouse moved at once.
Hand(m, b) ==
  /\ button' = [button EXCEPT ![m] = b]
  /\ fresh' = [fresh EXCEPT ![m] = reader[m] = "firmware"]
  /\ unclicked' = (unclicked \/ (b /\ ~button[m]))
  /\ UNCHANGED <<reader, acc, down>>

\* A transfer ends with the state the mouse has: the one before is forgotten.
Report(m) ==
  /\ reader[m] = "partmgr"
  /\ acc' = [left |-> button[m], changed |-> TRUE]
  /\ UNCHANGED <<reader, button, fresh, down, unclicked>>

\* pal_pointer_read: true when something came since the last read.
Got  == acc.changed \/ \E m \in Mice : fresh[m]
Left == acc.left \/ \E m \in Mice : fresh[m] /\ button[m]

Pressed == Got /\ Left /\ ~down

Read ==
  /\ fresh' = [m \in Mice |-> FALSE]
  /\ acc' = [acc EXCEPT !.changed = FALSE]
  /\ down' = IF Got THEN Left ELSE down
  /\ unclicked' = (unclicked /\ ~Pressed)
  /\ UNCHANGED <<reader, button>>

-----------------------------------------------------------------------------
(* Properties                                                              *)

\* With one mouse, a press clicks once at most: what is under the pointer after
\* a click, such as a question that came up there, is not clicked by the same
\* press, in whichever of the window's loops the pointer is read next.
OnePressOneClick == [][~down /\ down' => unclicked]_pointer

=============================================================================

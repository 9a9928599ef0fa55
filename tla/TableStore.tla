----------------------------- MODULE TableStore -----------------------------
(***************************************************************************)
(* What a disk promises about its partition table while it is rewritten:   *)
(* the table seen on it changes at once from the old to the new one, a     *)
(* write that reports success leaves the new one, and one that fails, or   *)
(* that the power cuts, leaves one of the two. The promise is made only    *)
(* for a safe write; during another one anything may be seen. Where not    *)
(* the whole of a table is written, what is seen at its end depends on     *)
(* what was on the disk.                                                   *)
(***************************************************************************)
CONSTANTS
  Views,     \* what may be seen on a disk
  Others     \* whether other systems use the disk between two writes

VARIABLES
  seen,      \* the table seen on the disk
  goal,      \* the table being written, the last one when none is
  writing,   \* a write is under way
  safe,      \* it is a safe one
  whole,     \* all blocks that make the new table are being written
  said       \* what the user was told of the last write

storeVars == <<seen, goal, writing, safe, whole, said>>

StoreInit ==
  /\ seen \in Views /\ goal \in Views
  /\ writing = FALSE /\ safe = FALSE /\ whole \in BOOLEAN /\ said = "nothing"

Start ==
  /\ ~writing
  /\ writing' = TRUE /\ goal' \in Views /\ safe' \in BOOLEAN /\ whole' \in BOOLEAN
  /\ said' = "nothing"
  /\ UNCHANGED seen

\* A block is written: the table seen stays or becomes the new one.
Change ==
  /\ writing
  /\ IF safe THEN seen' = goal ELSE seen' \in Views
  /\ UNCHANGED <<goal, writing, safe, whole, said>>

\* Between two writes neither the goal nor how it was written matters.
Stop == writing' = FALSE /\ goal' \in Views /\ safe' \in BOOLEAN /\ whole' \in BOOLEAN

Finish ==
  /\ writing
  /\ IF whole THEN seen' = goal ELSE seen' \in Views
  /\ said' = "written"
  /\ Stop

GiveUp == writing /\ UNCHANGED seen /\ said' \in {"nothing", "not written"} /\ Stop

\* The message goes with the next key.
Forget == ~writing /\ said' = "nothing" /\ UNCHANGED <<seen, goal, writing, safe, whole>>

Outside ==
  /\ Others /\ ~writing
  /\ seen' \in Views /\ goal' \in Views /\ said' = "nothing"
  /\ UNCHANGED <<writing, safe, whole>>

StoreNext == Start \/ Change \/ Finish \/ GiveUp \/ Forget \/ Outside

StoreSpec == StoreInit /\ [][StoreNext]_storeVars
=============================================================================

--------------------------- MODULE TakeHandover ---------------------------
(***************************************************************************)
(* What the recorder promises the person recorded: "What was recorded is   *)
(* kept and uploaded either way", and it is dropped from the browser only  *)
(* once all of it is on offer on the server.  Nothing here says how.       *)
(***************************************************************************)
EXTENDS Naturals

VARIABLES
  recorded,   \* chunks the recorder has saved
  ended,      \* it will save no more
  held,       \* the browser still holds them
  served,     \* chunks in the file the server offers; 0 when it offers none
  withdrawn   \* an administrator has deleted the take

handover == <<recorded, ended, held, served, withdrawn>>

Empty == recorded = 0 /\ ended = ~held /\ served = 0 /\ withdrawn = FALSE

Save == ~ended /\ held /\ recorded' = recorded + 1 /\ UNCHANGED <<ended, held, served, withdrawn>>
End == ended' = TRUE /\ UNCHANGED <<recorded, held, served, withdrawn>>
Serve == ended /\ served' = recorded /\ UNCHANGED <<recorded, ended, held, withdrawn>>
Drop ==
  /\ ended
  /\ served = recorded \/ withdrawn
  /\ held' = FALSE
  /\ UNCHANGED <<recorded, ended, served, withdrawn>>
Withdraw == served' = 0 /\ withdrawn' = TRUE /\ UNCHANGED <<recorded, ended, held>>

Handover == Empty /\ [][Save \/ End \/ Serve \/ Drop \/ Withdraw]_handover
=============================================================================

---------------------------- MODULE DurableCell ----------------------------
(***************************************************************************)
(* A cell that survives crashes: it holds one value, and the only way it   *)
(* changes is to take, at one instant, the whole value offered to it.      *)
(***************************************************************************)
VARIABLES
  stored,  \* what a restart would find
  offered  \* what the program would store next

cell == <<stored, offered>>

Init == stored = offered

Offer == UNCHANGED stored

Store == stored' = offered /\ UNCHANGED offered

Spec == Init /\ [][Offer \/ Store]_cell
=============================================================================

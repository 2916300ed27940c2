----------------------------- MODULE DriverShare -----------------------------
(***************************************************************************)
(* What paying out a driver's share promises: one payout at a time holds   *)
(* it, the money is posted once while it is held, and the share is free    *)
(* again only unpaid: given up before, or returned after it was paid.      *)
(***************************************************************************)
EXTENDS Naturals

CONSTANT Share

VARIABLES
    held,  \* amount of the payout under way or paid, 0 if there is none
    paid   \* posted as having left for the driver's bank

vars == <<held, paid>>

Init == held = 0 /\ paid = 0

Request == held = 0 /\ held' \in 1 .. Share /\ paid' = paid
Pay == held # 0 /\ paid = 0 /\ paid' = held /\ held' = held
GiveUp == held # 0 /\ paid = 0 /\ held' = 0 /\ paid' = paid
Return == held # 0 /\ paid = held /\ held' = 0 /\ paid' = 0

Next == Request \/ Pay \/ GiveUp \/ Return

Spec == Init /\ [][Next]_vars
=============================================================================

---------------------------- MODULE FareContract ----------------------------
(***************************************************************************)
(* What collecting a fare promises, whatever requests, webhooks, retries   *)
(* and crashes go on underneath: a ride is charged at most once, and it    *)
(* becomes paid once, only after it was charged.                           *)
(***************************************************************************)
CONSTANTS Rides, Charges

VARIABLES charged,  \* the gateway charges made for each ride
          paid      \* the rides the platform regards as paid

vars == <<charged, paid>>

Init ==
    /\ charged = [r \in Rides |-> {}]
    /\ paid = {}

Charge(r, p) ==
    /\ charged[r] = {}
    /\ charged' = [charged EXCEPT ![r] = {p}]
    /\ UNCHANGED paid

Record(r) ==
    /\ charged[r] # {}
    /\ r \notin paid
    /\ paid' = paid \cup {r}
    /\ UNCHANGED charged

Next == \E r \in Rides : Record(r) \/ \E p \in Charges : Charge(r, p)

Spec == Init /\ [][Next]_vars
=============================================================================

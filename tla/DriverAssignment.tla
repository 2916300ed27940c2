-------------------------- MODULE DriverAssignment --------------------------
(***************************************************************************)
(* What assigning drivers promises, whatever accepts, cancellations,       *)
(* completions and crashes go on underneath: a driver serves one ride at a *)
(* time, and a ride is given to a driver once.                             *)
(***************************************************************************)
CONSTANTS Rides, Drivers

VARIABLES serving,  \* the rides each driver is assigned to or carrying out
          taken     \* rides that were ever given to a driver

vars == <<serving, taken>>

Init ==
    /\ serving = [d \in Drivers |-> {}]
    /\ taken = {}

Assign(d, r) ==
    /\ serving[d] = {}
    /\ r \notin taken
    /\ serving' = [serving EXCEPT ![d] = {r}]
    /\ taken' = taken \cup {r}

Release(d, r) ==
    /\ serving[d] = {r}
    /\ serving' = [serving EXCEPT ![d] = {}]
    /\ UNCHANGED taken

Next == \E d \in Drivers, r \in Rides : Assign(d, r) \/ Release(d, r)

Spec == Init /\ [][Next]_vars
=============================================================================

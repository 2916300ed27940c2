--------------------------- MODULE MCRideLifecycle ---------------------------
(* RideLifecycle with rides, riders and drivers that are interchangeable,  *)
(* for TLC.                                                                *)
EXTENDS RideLifecycle, TLC

Symmetry == Permutations(Rides) \cup Permutations(Riders) \cup Permutations(Drivers)
=============================================================================

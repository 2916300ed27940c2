------------------------- MODULE RideLifecycleProofs -------------------------
(***************************************************************************)
(* Proofs about RideLifecycle, for any number of riders, rides and         *)
(* drivers: its safety invariants, that an ended ride never changes, and   *)
(* that it implements DriverAssignment.  Then about RideView, for any      *)
(* number of GETs, messages and events: what the rider's page and the      *)
(* driver's dashboard show.  Last, that a ride of RideLifecycle takes no   *)
(* other steps than those RideView shows.                                  *)
(***************************************************************************)
EXTENDS RideLifecycle, Sequences, FiniteSetTheorems, TLAPS

-----------------------------------------------------------------------------
(* The inductive invariant.                                                *)

\* A ride has a driver from its acceptance on; only a cancelled one may have had none.
DriverNamed ==
    \A r \in Rides :
        /\ status[r] \in {"NONE", "SEARCHING"} => driver[r] = Nobody
        /\ status[r] \in Serving \cup {"COMPLETED"} => driver[r] # Nobody

\* A createRide that has not committed yet has no document.
DraftInv == \A r \in drafts : status[r] = "NONE"

\* Orders are made for rides that reached their destination, and such a ride is no
\* longer cancelled.
OrderedInv == \A r \in ordered : status[r] \in {"ARRIVED_AT_DESTINATION", "COMPLETED"}

TripsOf(d, s) == {r \in Rides : driver[r] = d /\ status[r] = s}

TripsFinite ==
    \A d \in Drivers : IsFiniteSet(TripsOf(d, "COMPLETED")) /\ IsFiniteSet(TripsOf(d, "CANCELLED"))

RideInv == DriverNamed /\ DraftInv /\ OrderedInv /\ DriverRideAgreement

TripsInv == TripsFinite /\ StatisticsMatchRides

IInv == TypeOK /\ RideInv /\ TripsInv

-----------------------------------------------------------------------------
(* Type correctness.                                                       *)

LEMMA InitType == Init => TypeOK
BY DEF Init, TypeOK, Presence

LEMMA RiderStepType ==
    ASSUME TypeOK, NEW r \in Rides, RiderStep(r)
    PROVE  TypeOK'
<1>1. ASSUME NEW u \in Riders, BeginCreateRide(r, u) PROVE TypeOK'
  BY <1>1 DEF BeginCreateRide, DraftsOf, TypeOK, payments, driverDocs
<1>2. CASE CommitRide(r)
  BY <1>2 DEF CommitRide, TypeOK, payments, driverDocs, RideStatus
<1>3. CASE DispatchRide(r)
  BY <1>3 DEF DispatchRide, TypeOK, rideDocs, payments, driverDocs
<1>4. CASE DispatchTimeout(r)
  BY <1>4 DEF DispatchTimeout, TypeOK, rideDocs, payments, driverDocs
<1>5. CASE CancelRide(r)
  BY <1>5 DEF CancelRide, FreeCancelled, Then, TypeOK, payments, driverDocs, RideStatus, Work
<1>6. CASE CreateOrder(r)
  BY <1>6 DEF CreateOrder, TypeOK, rideDocs, driverDocs, memory
<1>7. CASE HandlePaymentCaptured(r)
  BY <1>7 DEF HandlePaymentCaptured, TypeOK, rideDocs, driverDocs, memory
<1>8. QED
  BY <1>1, <1>2, <1>3, <1>4, <1>5, <1>6, <1>7 DEF RiderStep

LEMMA DriverStepType ==
    ASSUME TypeOK, NEW d \in Drivers, NEW r \in Rides, DriverStep(d, r)
    PROVE  TypeOK'
<1>1. CASE AcceptRide(d, r)
  BY <1>1 DEF AcceptRide, Then, TypeOK, payments, RideStatus, Work
<1>2. CASE ArriveAtPickup(d, r) \/ StartRide(d, r) \/ ArriveAtDestination(d, r)
  BY <1>2 DEF ArriveAtPickup, StartRide, ArriveAtDestination, Advance, TypeOK, payments,
              driverDocs, memory, RideStatus
<1>3. CASE CancelRideByDriver(d, r)
  BY <1>3 DEF CancelRideByDriver, FreeCancelled, Then, TypeOK, payments, RideStatus, Work
<1>4. CASE CompleteRide(d, r)
  BY <1>4 DEF CompleteRide, Then, TypeOK, payments, RideStatus, Work
<1>5. QED
  BY <1>1, <1>2, <1>3, <1>4 DEF DriverStep

LEMMA StepType == TypeOK /\ [Next]_vars => TypeOK'
<1> SUFFICES ASSUME TypeOK, [Next]_vars PROVE TypeOK'
  OBVIOUS
<1>1. CASE \E r \in Rides : RiderStep(r)
  BY <1>1, RiderStepType
<1>2. CASE \E d \in Drivers, r \in Rides : DriverStep(d, r)
  BY <1>2, DriverStepType
<1>3. CASE \E d \in Drivers : DriverSetsPresence(d)
  BY <1>3 DEF DriverSetsPresence, TypeOK, rideDocs, payments, driverDocs, memory
<1>4. ASSUME NEW w \in after, StopDispatch(w) PROVE TypeOK'
  <2>1. [w EXCEPT !.pc = "presence"] \in Work
    BY DEF TypeOK, Work
  <2>2. QED
    BY <1>4, <2>1 DEF StopDispatch, TypeOK, rideDocs, payments, driverDocs
<1>5. ASSUME NEW w \in after, SetPresence(w) PROVE TypeOK'
  <2>1. w.presence \in Presence
    BY DEF TypeOK, Work, Presence
  <2>2. QED
    BY <1>5, <2>1 DEF SetPresence, TypeOK, rideDocs, payments, driverDocs
<1>6. CASE OperationFails
  BY <1>6 DEF OperationFails, TypeOK, rideDocs, payments, driverDocs
<1>7. CASE Crash
  BY <1>7 DEF Crash, TypeOK, rideDocs, payments, driverDocs
<1>8. CASE UNCHANGED vars
  BY <1>8 DEF vars, TypeOK, rideDocs, payments, driverDocs, memory
<1>9. QED
  BY <1>1, <1>2, <1>3, <1>4, <1>5, <1>6, <1>7, <1>8 DEF Next

-----------------------------------------------------------------------------
(* The documents of rides and drivers agree.                               *)

\* A step that writes neither kind of document, nor an order, and opens no draft.
LEMMA DocsKept ==
    ASSUME RideInv, UNCHANGED <<status, driver, ordered, currentRide>>, drafts' \subseteq drafts
    PROVE  RideInv'
BY DEF RideInv, DriverNamed, DraftInv, OrderedInv, DriverRideAgreement, Serves

LEMMA RiderStepDocs ==
    ASSUME TypeOK, RideInv, NEW r \in Rides, RiderStep(r)
    PROVE  RideInv'
<1> USE DEF RideInv, DriverNamed, DraftInv, OrderedInv, DriverRideAgreement, Serves, Serving,
            RideStatus, Ended
<1>1. ASSUME NEW u \in Riders, BeginCreateRide(r, u) PROVE RideInv'
  BY <1>1 DEF BeginCreateRide, payments, driverDocs
<1>2. CASE CommitRide(r)
  BY <1>2 DEF CommitRide, TypeOK, payments, driverDocs
<1>3. CASE CancelRide(r)
  <2>1. /\ status' = [status EXCEPT ![r] = "CANCELLED"]
        /\ UNCHANGED <<driver, ordered, drafts>>
        /\ status[r] \in {"SEARCHING", "DRIVER_ASSIGNED", "DRIVER_ARRIVING"}
    BY <1>3 DEF CancelRide, payments, CANCELLABLE_BY_RIDER, CANCELLABLE_BY_DRIVER
  <2>2. CASE driver[r] = Nobody
    <3>1. UNCHANGED currentRide
      BY <1>3, <2>2 DEF CancelRide, driverDocs
    <3>2. status[r] = "SEARCHING"
      BY <2>1, <2>2
    <3>3. QED
      BY <2>1, <2>2, <3>1, <3>2, NobodyAssumption DEF TypeOK
  <2>3. CASE driver[r] # Nobody
    <3>1. driver[r] \in Drivers /\ currentRide' = [currentRide EXCEPT ![driver[r]] = Nobody]
      BY <1>3, <2>3 DEF CancelRide, FreeCancelled, TypeOK
    <3>2. currentRide[driver[r]] = r
      BY <2>1, <2>3, <3>1
    <3>3. QED
      BY <2>1, <3>1, <3>2, NobodyAssumption DEF TypeOK
  <2>4. QED
    BY <2>2, <2>3
<1>4. CASE CreateOrder(r)
  BY <1>4 DEF CreateOrder, rideDocs, driverDocs, memory
<1>5. CASE DispatchRide(r) \/ DispatchTimeout(r) \/ HandlePaymentCaptured(r)
  BY <1>5, DocsKept DEF DispatchRide, DispatchTimeout, HandlePaymentCaptured,
                        rideDocs, payments, driverDocs, memory
<1>6. QED
  BY <1>1, <1>2, <1>3, <1>4, <1>5 DEF RiderStep

LEMMA DriverStepDocs ==
    ASSUME TypeOK, RideInv, NEW d \in Drivers, NEW r \in Rides, DriverStep(d, r)
    PROVE  RideInv'
<1> USE DEF RideInv, DriverNamed, DraftInv, OrderedInv, DriverRideAgreement, Serves, Serving,
            RideStatus, Ended
<1>1. CASE AcceptRide(d, r)
  BY <1>1, NobodyAssumption DEF AcceptRide, TypeOK, payments
<1>2. CASE ArriveAtPickup(d, r) \/ StartRide(d, r) \/ ArriveAtDestination(d, r)
  BY <1>2 DEF ArriveAtPickup, StartRide, ArriveAtDestination, Advance, TypeOK, payments,
              driverDocs, memory
<1>3. CASE CancelRideByDriver(d, r)
  BY <1>3, NobodyAssumption
     DEF CancelRideByDriver, FreeCancelled, CANCELLABLE_BY_DRIVER, TypeOK, payments
<1>4. CASE CompleteRide(d, r)
  BY <1>4, NobodyAssumption DEF CompleteRide, TypeOK, payments
<1>5. QED
  BY <1>1, <1>2, <1>3, <1>4 DEF DriverStep

LEMMA StepDocs == TypeOK /\ RideInv /\ [Next]_vars => RideInv'
<1> SUFFICES ASSUME TypeOK, RideInv, [Next]_vars PROVE RideInv'
  OBVIOUS
<1>1. CASE \E r \in Rides : RiderStep(r)
  BY <1>1, RiderStepDocs
<1>2. CASE \E d \in Drivers, r \in Rides : DriverStep(d, r)
  BY <1>2, DriverStepDocs
<1>3. CASE ~ (\E r \in Rides : RiderStep(r)) /\ ~ (\E d \in Drivers, r \in Rides : DriverStep(d, r))
  BY <1>3, DocsKept DEF Next, DriverSetsPresence, StopDispatch, SetPresence, OperationFails, Crash,
                        vars, rideDocs, payments, driverDocs, memory
<1>4. QED
  BY <1>1, <1>2, <1>3

-----------------------------------------------------------------------------
(* The statistics of the drivers count their rides.                        *)

LEMMA TripsKept ==
    ASSUME TripsInv, UNCHANGED <<completedTrips, cancelledTrips>>,
           \A d \in Drivers, s \in Ended : TripsOf(d, s)' = TripsOf(d, s)
    PROVE  TripsInv'
<1>1. \A d \in Drivers : /\ TripsOf(d, "COMPLETED")' = TripsOf(d, "COMPLETED")
                         /\ TripsOf(d, "CANCELLED")' = TripsOf(d, "CANCELLED")
  BY DEF Ended
<1>2. TripsFinite'
  BY <1>1 DEF TripsInv, TripsFinite
<1>3. StatisticsMatchRides'
  BY <1>1 DEF TripsInv, StatisticsMatchRides, TripsOf
<1>4. QED
  BY <1>2, <1>3 DEF TripsInv

\* Ending one ride adds it to the trips of its driver and to nobody else's.
LEMMA TripEnds ==
    ASSUME TypeOK, NEW r \in Rides, NEW s \in Ended, status[r] \notin Ended,
           UNCHANGED driver, status' = [status EXCEPT ![r] = s],
           NEW d \in Drivers, NEW t \in Ended
    PROVE  /\ driver[r] = d /\ t = s =>
                  TripsOf(d, t)' = TripsOf(d, t) \cup {r} /\ r \notin TripsOf(d, t)
           /\ driver[r] # d \/ t # s => TripsOf(d, t)' = TripsOf(d, t)
<1>1. \A x \in Rides : status'[x] = IF x = r THEN s ELSE status[x]
  BY DEF TypeOK
<1>2. QED
  BY <1>1 DEF TripsOf

\* One more ride of driver d was cancelled, and counted.
LEMMA CancelledCounted ==
    ASSUME TypeOK, TripsInv, NEW r \in Rides, NEW d \in Drivers, driver[r] = d,
           status[r] \notin Ended, UNCHANGED driver,
           status' = [status EXCEPT ![r] = "CANCELLED"], FreeCancelled(d)
    PROVE  TripsInv'
<1>1. \A e \in Drivers : TripsOf(e, "COMPLETED")' = TripsOf(e, "COMPLETED")
  BY TripEnds DEF Ended
<1>2. \A e \in Drivers : e # d => TripsOf(e, "CANCELLED")' = TripsOf(e, "CANCELLED")
  BY TripEnds DEF Ended
<1>3. /\ TripsOf(d, "CANCELLED")' = TripsOf(d, "CANCELLED") \cup {r}
      /\ r \notin TripsOf(d, "CANCELLED")
  BY TripEnds DEF Ended
<1>4. /\ IsFiniteSet(TripsOf(d, "CANCELLED")')
      /\ Cardinality(TripsOf(d, "CANCELLED")') = Cardinality(TripsOf(d, "CANCELLED")) + 1
  BY <1>3, FS_AddElement DEF TripsInv, TripsFinite
<1>5. TripsFinite'
  BY <1>1, <1>2, <1>4 DEF TripsInv, TripsFinite
<1>6. \A e \in Drivers :
        /\ completedTrips'[e] = Cardinality(TripsOf(e, "COMPLETED")')
        /\ cancelledTrips'[e] = Cardinality(TripsOf(e, "CANCELLED")')
  <2> TAKE e \in Drivers
  <2>1. /\ completedTrips[e] = Cardinality(TripsOf(e, "COMPLETED"))
        /\ cancelledTrips[e] = Cardinality(TripsOf(e, "CANCELLED"))
    BY DEF TripsInv, StatisticsMatchRides, TripsOf
  <2>2. completedTrips' = completedTrips
    BY DEF FreeCancelled
  <2>3. cancelledTrips'[e] = IF e = d THEN cancelledTrips[e] + 1 ELSE cancelledTrips[e]
    BY DEF FreeCancelled, TypeOK
  <2>4. QED
    BY <1>1, <1>2, <1>4, <2>1, <2>2, <2>3
<1>7. QED
  BY <1>5, <1>6 DEF TripsInv, StatisticsMatchRides, TripsOf

LEMMA CompletedCounted ==
    ASSUME TypeOK, TripsInv, NEW r \in Rides, NEW d \in Drivers, CompleteRide(d, r)
    PROVE  TripsInv'
<1>0. /\ driver[r] = d /\ status[r] \notin Ended /\ UNCHANGED <<driver, cancelledTrips>>
      /\ status' = [status EXCEPT ![r] = "COMPLETED"]
  BY DEF CompleteRide, Ended
<1>1. \A e \in Drivers : TripsOf(e, "CANCELLED")' = TripsOf(e, "CANCELLED")
  BY <1>0, TripEnds DEF Ended
<1>2. \A e \in Drivers : e # d => TripsOf(e, "COMPLETED")' = TripsOf(e, "COMPLETED")
  BY <1>0, TripEnds DEF Ended
<1>3. /\ TripsOf(d, "COMPLETED")' = TripsOf(d, "COMPLETED") \cup {r}
      /\ r \notin TripsOf(d, "COMPLETED")
  BY <1>0, TripEnds DEF Ended
<1>4. /\ IsFiniteSet(TripsOf(d, "COMPLETED")')
      /\ Cardinality(TripsOf(d, "COMPLETED")') = Cardinality(TripsOf(d, "COMPLETED")) + 1
  BY <1>3, FS_AddElement DEF TripsInv, TripsFinite
<1>5. TripsFinite'
  BY <1>1, <1>2, <1>4 DEF TripsInv, TripsFinite
<1>6. \A e \in Drivers :
        /\ completedTrips'[e] = Cardinality(TripsOf(e, "COMPLETED")')
        /\ cancelledTrips'[e] = Cardinality(TripsOf(e, "CANCELLED")')
  <2> TAKE e \in Drivers
  <2>1. /\ completedTrips[e] = Cardinality(TripsOf(e, "COMPLETED"))
        /\ cancelledTrips[e] = Cardinality(TripsOf(e, "CANCELLED"))
    BY DEF TripsInv, StatisticsMatchRides, TripsOf
  <2>2. completedTrips'[e] = IF e = d THEN completedTrips[e] + 1 ELSE completedTrips[e]
    BY DEF CompleteRide, TypeOK
  <2>3. QED
    BY <1>0, <1>1, <1>2, <1>4, <2>1, <2>2
<1>7. QED
  BY <1>5, <1>6 DEF TripsInv, StatisticsMatchRides, TripsOf

LEMMA StepTrips == TypeOK /\ RideInv /\ TripsInv /\ [Next]_vars => TripsInv'
<1> SUFFICES ASSUME TypeOK, RideInv, TripsInv, [Next]_vars PROVE TripsInv'
  OBVIOUS
<1>1. ASSUME NEW r \in Rides, CommitRide(r) PROVE TripsInv'
  <2>1. \A d \in Drivers, s \in Ended : TripsOf(d, s)' = TripsOf(d, s)
    BY <1>1 DEF CommitRide, TripsOf, Ended, RideInv, DraftInv, TypeOK
  <2>2. QED
    BY <1>1, <2>1, TripsKept DEF CommitRide, driverDocs
<1>2. ASSUME NEW d \in Drivers, NEW r \in Rides, AcceptRide(d, r) PROVE TripsInv'
  <2>1. \A e \in Drivers, s \in Ended : TripsOf(e, s)' = TripsOf(e, s)
    BY <1>2 DEF AcceptRide, TripsOf, Ended, TypeOK
  <2>2. QED
    BY <1>2, <2>1, TripsKept DEF AcceptRide
<1>3. ASSUME NEW d \in Drivers, NEW r \in Rides, NEW from \in RideStatus \ Ended,
             NEW to \in RideStatus \ Ended, Advance(d, r, from, to)
      PROVE  TripsInv'
  <2>1. \A e \in Drivers, s \in Ended : TripsOf(e, s)' = TripsOf(e, s)
    BY <1>3 DEF Advance, TripsOf, TypeOK
  <2>2. QED
    BY <1>3, <2>1, TripsKept DEF Advance, driverDocs
<1>4. ASSUME NEW d \in Drivers, NEW r \in Rides, CancelRideByDriver(d, r) PROVE TripsInv'
  BY <1>4, CancelledCounted DEF CancelRideByDriver, CANCELLABLE_BY_DRIVER, Ended
<1>5. ASSUME NEW r \in Rides, CancelRide(r) PROVE TripsInv'
  <2>1. CASE driver[r] = Nobody
    <3>1. /\ UNCHANGED <<driver, completedTrips, cancelledTrips>>
          /\ status[r] \notin Ended /\ status' = [status EXCEPT ![r] = "CANCELLED"]
      BY <1>5, <2>1
         DEF CancelRide, driverDocs, CANCELLABLE_BY_RIDER, CANCELLABLE_BY_DRIVER, Ended
    <3>2. \A d \in Drivers, s \in Ended : TripsOf(d, s)' = TripsOf(d, s)
      BY <2>1, <3>1, TripEnds, NobodyAssumption DEF Ended
    <3>3. QED
      BY <3>1, <3>2, TripsKept
  <2>2. CASE driver[r] # Nobody
    <3>1. driver[r] \in Drivers
      BY <2>2 DEF TypeOK
    <3>2. QED
      BY <1>5, <2>2, <3>1, CancelledCounted
         DEF CancelRide, CANCELLABLE_BY_RIDER, CANCELLABLE_BY_DRIVER, Ended
  <2>3. QED
    BY <2>1, <2>2
<1>6. ASSUME UNCHANGED <<status, driver, completedTrips, cancelledTrips>> PROVE TripsInv'
  BY <1>6, TripsKept DEF TripsOf
<1>7. ASSUME NEW r \in Rides, RiderStep(r) PROVE TripsInv'
  BY <1>1, <1>5, <1>6, <1>7 DEF RiderStep, BeginCreateRide, DispatchRide, DispatchTimeout,
     CreateOrder, HandlePaymentCaptured, rideDocs, payments, driverDocs, memory
<1>8. ASSUME NEW d \in Drivers, NEW r \in Rides, DriverStep(d, r) PROVE TripsInv'
  BY <1>2, <1>3, <1>4, <1>8, CompletedCounted
     DEF DriverStep, ArriveAtPickup, StartRide, ArriveAtDestination, RideStatus, Ended
<1>9. CASE ~ (\E r \in Rides : RiderStep(r)) /\ ~ (\E d \in Drivers, r \in Rides : DriverStep(d, r))
  BY <1>6, <1>9 DEF Next, DriverSetsPresence, StopDispatch, SetPresence, OperationFails, Crash,
                    vars, rideDocs, payments, driverDocs, memory
<1>10. QED
  BY <1>7, <1>8, <1>9

-----------------------------------------------------------------------------
(* The theorems.                                                           *)

\* Every reachable state satisfies the inductive invariant: documents and drafts are as
\* the operations of ride.service.ts leave them.
THEOREM Inductive == Spec => []IInv
<1>1. Init => IInv
  <2> SUFFICES ASSUME Init PROVE IInv
    OBVIOUS
  <2>1. RideInv
    BY NobodyAssumption
       DEF Init, RideInv, DriverNamed, DraftInv, OrderedInv, DriverRideAgreement, Serves, Serving,
           RideStatus, Ended
  <2>2. \A d \in Drivers : TripsOf(d, "COMPLETED") = {} /\ TripsOf(d, "CANCELLED") = {}
    BY DEF Init, TripsOf
  <2>3. TripsFinite
    BY <2>2, FS_EmptySet DEF TripsFinite
  <2>4. \A d \in Drivers : /\ completedTrips[d] = Cardinality(TripsOf(d, "COMPLETED"))
                           /\ cancelledTrips[d] = Cardinality(TripsOf(d, "CANCELLED"))
    BY <2>2, FS_EmptySet DEF Init
  <2>5. StatisticsMatchRides
    BY <2>4 DEF StatisticsMatchRides, TripsOf
  <2>6. QED
    BY <2>1, <2>3, <2>5, InitType DEF IInv, TripsInv
<1>2. IInv /\ [Next]_vars => IInv'
  BY StepType, StepDocs, StepTrips DEF IInv
<1>3. QED
  BY <1>1, <1>2, PTL DEF Spec

\* The state has the shape TypeOK gives it, whatever operations overlap or fail.
THEOREM TypeCorrect == Spec => []TypeOK
<1>1. IInv => TypeOK
  BY DEF IInv
<1>2. QED
  BY <1>1, Inductive, PTL

\* driver.currentRide and the rides agree: a driver serves the one ride it points to.
THEOREM Agreement == Spec => []DriverRideAgreement
<1>1. IInv => DriverRideAgreement
  BY DEF IInv, RideInv
<1>2. QED
  BY <1>1, Inductive, PTL

\* driver.statistics counts the ended rides of each driver, each once.
THEOREM Statistics == Spec => []StatisticsMatchRides
<1>1. IInv => StatisticsMatchRides
  BY DEF IInv, TripsInv
<1>2. QED
  BY <1>1, Inductive, PTL

\* No ride with a payment order is ever cancelled.
THEOREM NoChargeOnCancelled == Spec => []CancelledIsNotCharged
<1>1. IInv => CancelledIsNotCharged
  BY DEF IInv, RideInv, OrderedInv, CancelledIsNotCharged
<1>2. QED
  BY <1>1, Inductive, PTL

\* A completed or cancelled ride keeps its status and its driver for ever.
THEOREM EndedStays == Spec => EndedIsFinal
<1>1. IInv /\ [Next]_vars =>
        [\A r \in Rides : status[r] \in Ended =>
            status'[r] = status[r] /\ driver'[r] = driver[r]]_vars
  <2> SUFFICES ASSUME IInv, [Next]_vars, NEW r \in Rides, status[r] \in Ended
               PROVE  status'[r] = status[r] /\ driver'[r] = driver[r]
    OBVIOUS
  <2> USE DEF Ended, CANCELLABLE_BY_RIDER, CANCELLABLE_BY_DRIVER, rideDocs
  <2>1. CASE \E x \in Rides : RiderStep(x)
    BY <2>1 DEF IInv, RideInv, DraftInv, TypeOK, RiderStep, BeginCreateRide, CommitRide,
       DispatchRide, DispatchTimeout, CancelRide, CreateOrder, HandlePaymentCaptured
  <2>2. CASE \E d \in Drivers, x \in Rides : DriverStep(d, x)
    BY <2>2 DEF IInv, TypeOK, DriverStep, AcceptRide, ArriveAtPickup, StartRide,
       ArriveAtDestination, Advance, CancelRideByDriver, CompleteRide
  <2>3. CASE ~ (\E x \in Rides : RiderStep(x)) /\ ~ (\E d \in Drivers, x \in Rides : DriverStep(d, x))
    BY <2>3 DEF Next, DriverSetsPresence, StopDispatch, SetPresence, OperationFails, Crash, vars
  <2>4. QED
    BY <2>1, <2>2, <2>3
<1>2. QED
  BY <1>1, Inductive, PTL DEF Spec, EndedIsFinal

-----------------------------------------------------------------------------
(* A rider's second ride was asked for beside the first.                   *)

\* The ride is one of u's that is active, or will be once its insert commits.
Holds(u, r) == rider[r] = u /\ (r \in drafts \/ Active(r))

Overlapped ==
    \A u \in Riders : \A r, s \in Rides :
        Holds(u, r) /\ Holds(u, s) => r = s \/ r \in beside[s] \/ s \in beside[r]

\* A step that adds no draft, no ride and no rider leaves nobody with more than before.
LEMMA NothingTaken ==
    ASSUME UNCHANGED <<rider, beside>>,
           \A r \in Rides : (r \in drafts \/ Active(r))' => r \in drafts \/ Active(r),
           Overlapped
    PROVE  Overlapped'
BY DEF Overlapped, Holds

\* The rider of a new draft held nothing but the drafts it starts beside.
LEMMA DraftIsBeside ==
    ASSUME TypeOK, DraftInv, Overlapped, NEW r \in Rides, NEW u \in Riders, BeginCreateRide(r, u)
    PROVE  Overlapped'
<1>1. /\ rider' = [rider EXCEPT ![r] = u] /\ drafts' = drafts \cup {r} /\ status' = status
      /\ status[r] = "NONE" /\ r \notin drafts
  BY DEF BeginCreateRide
<1>2. ~ Active(r) /\ ~ Active(r)'
  BY <1>1 DEF Active, RideStatus
<1>3. \A v \in Riders, s \in Rides : s # r => (Holds(v, s)' <=> Holds(v, s))
  BY <1>1 DEF Holds, Active, TypeOK
<1>4. \A v \in Riders : Holds(v, r)' => v = u
  BY <1>1 DEF Holds, TypeOK
<1>5. \A s \in Rides : beside'[s] = IF s = r THEN DraftsOf(u) ELSE beside[s]
  BY DEF BeginCreateRide, TypeOK
<1>6. \A s \in Rides : s # r /\ Holds(u, s) => s \in beside'[r]
  <2>1. \A s \in Rides : Holds(u, s) => s \in DraftsOf(u)
    BY DEF BeginCreateRide, DraftsOf, ActiveRidesOf, Holds
  <2> QED BY <1>5, <2>1
<1>7. QED
  BY <1>3, <1>4, <1>5, <1>6 DEF Overlapped

LEMMA StepOverlapped == TypeOK /\ DraftInv /\ Overlapped /\ [Next]_vars => Overlapped'
<1> SUFFICES ASSUME TypeOK, DraftInv, Overlapped, [Next]_vars PROVE Overlapped'
  OBVIOUS
<1> USE DEF rideDocs, memory
<1>1. ASSUME NEW r \in Rides, RiderStep(r) PROVE Overlapped'
  <2>1. ASSUME NEW u \in Riders, BeginCreateRide(r, u) PROVE Overlapped'
    BY <2>1, DraftIsBeside
  <2>2. CASE CommitRide(r)
    BY <2>2, NothingTaken DEF CommitRide, Active, TypeOK
  <2>3. CASE CancelRide(r)
    BY <2>3, NothingTaken DEF CancelRide, Active, Ended, TypeOK
  <2>4. CASE DispatchRide(r) \/ DispatchTimeout(r) \/ CreateOrder(r) \/ HandlePaymentCaptured(r)
    BY <2>4, NothingTaken
       DEF DispatchRide, DispatchTimeout, CreateOrder, HandlePaymentCaptured, Active
  <2>5. QED
    BY <1>1, <2>1, <2>2, <2>3, <2>4 DEF RiderStep
<1>2. ASSUME NEW d \in Drivers, NEW r \in Rides, DriverStep(d, r) PROVE Overlapped'
  <2>1. UNCHANGED <<rider, drafts, beside>> /\ \A s \in Rides : Active(s)' => Active(s)
    BY <1>2 DEF DriverStep, AcceptRide, ArriveAtPickup, StartRide, ArriveAtDestination, Advance,
       CancelRideByDriver, CompleteRide, CANCELLABLE_BY_DRIVER, Active, RideStatus, Ended, TypeOK
  <2>2. QED
    BY <2>1, NothingTaken
<1>3. CASE ~ (\E r \in Rides : RiderStep(r)) /\ ~ (\E d \in Drivers, r \in Rides : DriverStep(d, r))
  <2>1. UNCHANGED <<rider, status, beside>> /\ drafts' \subseteq drafts
    BY <1>3 DEF Next, DriverSetsPresence, StopDispatch, SetPresence, OperationFails, Crash, vars
  <2>2. QED
    BY <2>1, NothingTaken DEF Active
<1>4. QED
  BY <1>1, <1>2, <1>3

\* Of two active rides of a rider one was asked for while the transaction of the other
\* was open (createRide's check and insert).
THEOREM SecondRide == Spec => []SecondRideOverlapped
<1>1. Init => Overlapped
  BY DEF Init, Overlapped, Holds, Active, RideStatus
<1>2. IInv => TypeOK /\ DraftInv
  BY DEF IInv, RideInv
<1>3. Overlapped => SecondRideOverlapped
  BY DEF Overlapped, SecondRideOverlapped, Holds, ActiveRidesOf
<1>4. QED
  BY <1>1, <1>2, <1>3, StepOverlapped, Inductive, PTL DEF Spec

-----------------------------------------------------------------------------
(* Refinement of DriverAssignment.                                         *)

ServedBy(d) == {r \in Rides : Serves(d, r)}
TakenRides == {r \in Rides : driver[r] # Nobody}

LEMMA ServedIsCurrent ==
    ASSUME IInv, NEW d \in Drivers
    PROVE  ServedBy(d) = IF currentRide[d] = Nobody THEN {} ELSE {currentRide[d]}
BY NobodyAssumption DEF IInv, RideInv, TypeOK, DriverRideAgreement, ServedBy

LEMMA ServedIsCurrentAfter ==
    ASSUME IInv', NEW d \in Drivers
    PROVE  ServedBy(d)' = IF currentRide'[d] = Nobody THEN {} ELSE {currentRide'[d]}
BY NobodyAssumption DEF IInv, RideInv, TypeOK, DriverRideAgreement, ServedBy

\* Nobody starts or ends serving.
LEMMA AssignmentKept ==
    ASSUME IInv, IInv', UNCHANGED <<driver, currentRide>>
    PROVE  UNCHANGED Assignment!vars
<1>1. \A d \in Drivers : ServedBy(d)' = ServedBy(d)
  BY ServedIsCurrent, ServedIsCurrentAfter
<1>2. QED
  BY <1>1 DEF Assignment!vars, ServedBy

\* The driver of a ride is freed.
LEMMA DriverReleased ==
    ASSUME IInv, IInv', NEW d \in Drivers, NEW r \in Rides, driver[r] = d,
           status[r] \in Serving, UNCHANGED driver,
           currentRide' = [currentRide EXCEPT ![d] = Nobody]
    PROVE  Assignment!Release(d, r)
<1>1. currentRide[d] = r
  BY DEF IInv, RideInv, DriverRideAgreement, Serves
<1>2. \A e \in Drivers : currentRide'[e] = IF e = d THEN Nobody ELSE currentRide[e]
  BY DEF IInv, TypeOK
<1>3. ServedBy(d) = {r}
  BY <1>1, ServedIsCurrent, NobodyAssumption
<1>4. \A e \in Drivers : ServedBy(e)' = IF e = d THEN {} ELSE ServedBy(e)
  BY <1>2, ServedIsCurrent, ServedIsCurrentAfter
<1>5. [e \in Drivers |-> ServedBy(e)]' = [[e \in Drivers |-> ServedBy(e)] EXCEPT ![d] = {}]
  BY <1>4
<1>6. QED
  BY <1>3, <1>5 DEF Assignment!Release, ServedBy

LEMMA AcceptAssigns ==
    ASSUME IInv, IInv', NEW d \in Drivers, NEW r \in Rides, AcceptRide(d, r)
    PROVE  Assignment!Assign(d, r)
<1>1. \A e \in Drivers : currentRide'[e] = IF e = d THEN r ELSE currentRide[e]
  BY DEF AcceptRide, IInv, TypeOK
<1>2. ServedBy(d) = {}
  BY ServedIsCurrent DEF AcceptRide
<1>3. \A e \in Drivers : ServedBy(e)' = IF e = d THEN {r} ELSE ServedBy(e)
  BY <1>1, ServedIsCurrent, ServedIsCurrentAfter, NobodyAssumption
<1>4. [e \in Drivers |-> ServedBy(e)]' = [[e \in Drivers |-> ServedBy(e)] EXCEPT ![d] = {r}]
  BY <1>3
<1>5. driver[r] = Nobody
  BY DEF AcceptRide, IInv, RideInv, DriverNamed
<1>6. TakenRides' = TakenRides \cup {r}
  BY NobodyAssumption DEF AcceptRide, IInv, TypeOK, TakenRides
<1>7. QED
  BY <1>2, <1>4, <1>5, <1>6 DEF Assignment!Assign, ServedBy, TakenRides

\* Accepting assigns a free driver to a ride nobody took; cancelling and completing free
\* the driver of that ride; no other operation, failure or crash assigns or frees anyone.
THEOREM Refinement == Spec => ImplementsDriverAssignment
<1>1. Init => Assignment!Init
  BY DEF Init, Assignment!Init, Serves, Serving, RideStatus
<1>2. IInv /\ IInv' /\ [Next]_vars => [Assignment!Next]_(Assignment!vars)
  <2> SUFFICES ASSUME IInv, IInv', [Next]_vars
               PROVE  Assignment!Next \/ UNCHANGED Assignment!vars
    OBVIOUS
  <2> USE DEF rideDocs, driverDocs
  <2>1. ASSUME NEW r \in Rides, CancelRide(r) PROVE Assignment!Next \/ UNCHANGED Assignment!vars
    <3>1. CASE driver[r] = Nobody
      BY <2>1, <3>1, AssignmentKept DEF CancelRide
    <3>2. CASE driver[r] # Nobody
      <4>1. driver[r] \in Drivers /\ status[r] \in Serving
        BY <2>1, <3>2 DEF CancelRide, CANCELLABLE_BY_RIDER, CANCELLABLE_BY_DRIVER, Serving,
           RideStatus, Ended, IInv, RideInv, DriverNamed, TypeOK
      <4>2. Assignment!Release(driver[r], r)
        BY <2>1, <3>2, <4>1, DriverReleased DEF CancelRide, FreeCancelled
      <4>3. QED
        BY <4>1, <4>2 DEF Assignment!Next
    <3>3. QED
      BY <3>1, <3>2
  <2>2. CASE \E r \in Rides : RiderStep(r)
    BY <2>1, <2>2, AssignmentKept
       DEF RiderStep, BeginCreateRide, CommitRide, DispatchRide, DispatchTimeout, CreateOrder,
           HandlePaymentCaptured
  <2>3. ASSUME NEW d \in Drivers, NEW r \in Rides, DriverStep(d, r)
        PROVE  Assignment!Next \/ UNCHANGED Assignment!vars
    <3>1. CASE AcceptRide(d, r)
      BY <3>1, AcceptAssigns DEF Assignment!Next
    <3>2. CASE CancelRideByDriver(d, r)
      BY <3>2, DriverReleased DEF CancelRideByDriver, FreeCancelled, CANCELLABLE_BY_DRIVER,
         Serving, RideStatus, Ended, Assignment!Next
    <3>3. CASE CompleteRide(d, r)
      BY <3>3, DriverReleased DEF CompleteRide, Serving, RideStatus, Ended, Assignment!Next
    <3>4. CASE ArriveAtPickup(d, r) \/ StartRide(d, r) \/ ArriveAtDestination(d, r)
      BY <3>4, AssignmentKept DEF ArriveAtPickup, StartRide, ArriveAtDestination, Advance
    <3>5. QED
      BY <2>3, <3>1, <3>2, <3>3, <3>4 DEF DriverStep
  <2>4. CASE ~ (\E r \in Rides : RiderStep(r)) /\ ~ (\E d \in Drivers, r \in Rides : DriverStep(d, r))
    BY <2>4, AssignmentKept
       DEF Next, DriverSetsPresence, StopDispatch, SetPresence, OperationFails, Crash, vars
  <2>5. QED
    BY <2>2, <2>3, <2>4
<1>3. QED
  BY <1>1, <1>2, Inductive, PTL DEF Spec, ImplementsDriverAssignment, Assignment!Spec

-----------------------------------------------------------------------------
(* The rider's page and the driver's dashboard: module RideView.           *)

CONSTANTS Fetches, MaxRequests, MaxEvents
VARIABLES ride, emits, requests, page, fetches, cancel, pay, dashboard, excuse, refused

View == INSTANCE RideView WITH driver <- dashboard

\* An event as it goes to the rider, and a GET of the page.
Events == [kind : {"accepted", "status", "captured"}, doc : View!Document, foreign : BOOLEAN]
Gets == [pc : {"idle", "asked", "answered", "failed"}, for : {"page", "preview"},
         got : View!Document \cup {View!NoRide}]

\* The ride was like x before it was, or is, like y.
Upto(x, y) == View!Reached(x.status, y.status) /\ (x.paid => y.paid)
\* A ride is paid at its destination, and completed only when it is paid.
Lawful(doc) ==
    /\ doc.paid => doc.status \in {"ARRIVED_AT_DESTINATION", "COMPLETED"}
    /\ doc.status = "COMPLETED" => doc.paid
\* The ride was once like doc.
Past(doc) == doc \in View!Document /\ Lawful(doc) /\ Upto(doc, ride)

\* The events of q; those on their way to the page and those not yet sent.
Carried(q) == {q[i] : i \in 1 .. Len(q)}
Due == Carried(page.inbox) \cup Carried(emits)
Before(x, y) == x.foreign \/ y.foreign \/ (Upto(x.doc, y.doc) /\ x.doc # y.doc)
InOrder(q) == \A i, j \in 1 .. Len(q) : i < j => Before(q[i], q[j])

-----------------------------------------------------------------------------
(* The order of a ride's statuses, and queues of events.                   *)

After ==
    [SEARCHING |-> View!RideStatus,
     DRIVER_ASSIGNED |-> View!RideStatus \ {"SEARCHING"},
     DRIVER_ARRIVING |-> View!RideStatus \ {"SEARCHING", "DRIVER_ASSIGNED"},
     STARTED |-> {"STARTED", "ARRIVED_AT_DESTINATION", "COMPLETED"},
     ARRIVED_AT_DESTINATION |-> {"ARRIVED_AT_DESTINATION", "COMPLETED"},
     COMPLETED |-> {"COMPLETED"},
     CANCELLED |-> {"CANCELLED"}]

LEMMA Statuses ==
    View!RideStatus = {"SEARCHING", "DRIVER_ASSIGNED", "DRIVER_ARRIVING", "STARTED",
                  "ARRIVED_AT_DESTINATION", "COMPLETED", "CANCELLED"}
<1>1. Len(View!Path) = 6 /\ DOMAIN View!Path = 1 .. 6
  BY DEF View!Path
<1>2. View!ToSet(View!Path) = {View!Path[i] : i \in 1 .. 6}
  BY <1>1 DEF View!ToSet
<1>3. 1 .. 6 = {1, 2, 3, 4, 5, 6}
  OBVIOUS
<1>4. View!ToSet(View!Path) = {"SEARCHING", "DRIVER_ASSIGNED", "DRIVER_ARRIVING", "STARTED",
                     "ARRIVED_AT_DESTINATION", "COMPLETED"}
  BY <1>2, <1>3 DEF View!Path
<1> QED BY <1>4 DEF View!RideStatus

LEMMA Ranks ==
    /\ View!Rank("SEARCHING") = 1 /\ View!Rank("DRIVER_ASSIGNED") = 2 /\ View!Rank("DRIVER_ARRIVING") = 3
    /\ View!Rank("STARTED") = 4 /\ View!Rank("ARRIVED_AT_DESTINATION") = 5 /\ View!Rank("COMPLETED") = 6
<1>1. Len(View!Path) = 6
  BY DEF View!Path
<1>2. ASSUME NEW n \in 1 .. 6 PROVE View!Rank(View!Path[n]) = n
  <2>1. \A i \in 1 .. 6 : View!Path[i] = View!Path[n] => i = n
    BY DEF View!Path
  <2> QED BY <1>1, <2>1 DEF View!Rank
<1>3. /\ View!Path[1] = "SEARCHING" /\ View!Path[2] = "DRIVER_ASSIGNED" /\ View!Path[3] = "DRIVER_ARRIVING"
      /\ View!Path[4] = "STARTED" /\ View!Path[5] = "ARRIVED_AT_DESTINATION" /\ View!Path[6] = "COMPLETED"
  BY DEF View!Path
<1> QED BY <1>2, <1>3

\* Reached, spelled out.
LEMMA ReachedAfter ==
    ASSUME NEW s \in View!RideStatus, NEW t \in View!RideStatus
    PROVE  View!Reached(s, t) <=> t \in After[s]
BY Statuses, Ranks DEF View!Reached, After, View!Ended, View!canCancel

LEMMA ReachedOrder ==
    ASSUME NEW s \in View!RideStatus, NEW t \in View!RideStatus
    PROVE  /\ View!Reached(s, s)
           /\ View!Reached(s, t) /\ View!Reached(t, s) => s = t
           /\ \A u \in View!RideStatus :
               /\ View!Reached(s, t) /\ View!Reached(t, u) => View!Reached(s, u)
               /\ View!Reached(s, u) /\ View!Reached(t, u) => View!Reached(s, t) \/ View!Reached(t, s)
<1>1. \A x, y \in View!RideStatus : View!Reached(x, y) <=> y \in After[x]
  BY ReachedAfter
<1>2. View!Reached(s, s) /\ (View!Reached(s, t) /\ View!Reached(t, s) => s = t)
  BY <1>1, Statuses DEF After
<1>3. ASSUME NEW u \in View!RideStatus
      PROVE  /\ View!Reached(s, t) /\ View!Reached(t, u) => View!Reached(s, u)
             /\ View!Reached(s, u) /\ View!Reached(t, u) => View!Reached(s, t) \/ View!Reached(t, s)
  BY <1>1, Statuses DEF After
<1> QED BY <1>2, <1>3

\* Two documents that the ride was once like: one of them is the older.
LEMMA PastOrder ==
    ASSUME ride \in View!Document, NEW x \in View!Document, NEW y \in View!Document
    PROVE  /\ Upto(x, x)
           /\ Upto(x, y) /\ Upto(y, x) => x = y
           /\ \A z \in View!Document : Upto(x, y) /\ Upto(y, z) => Upto(x, z)
           /\ Lawful(x) /\ Lawful(y) /\ Upto(x, ride) /\ Upto(y, ride) => Upto(x, y) \/ Upto(y, x)
<1>1. x.status \in View!RideStatus /\ y.status \in View!RideStatus /\ ride.status \in View!RideStatus
      /\ x.paid \in BOOLEAN /\ y.paid \in BOOLEAN
  BY DEF View!Document
<1>2. x.status = y.status /\ x.paid = y.paid => x = y
  BY DEF View!Document
<1>3. Upto(x, x) /\ (Upto(x, y) /\ Upto(y, x) => x = y)
  BY <1>1, <1>2, ReachedOrder DEF Upto
<1>4. \A z \in View!Document : Upto(x, y) /\ Upto(y, z) => Upto(x, z)
  BY <1>1, ReachedOrder DEF Upto, View!Document
<1>5. ASSUME Lawful(x), Lawful(y), Upto(x, ride), Upto(y, ride)
      PROVE  Upto(x, y) \/ Upto(y, x)
  <2>1. \A s, t \in View!RideStatus : View!Reached(s, t) <=> t \in After[s]
    BY ReachedAfter
  <2>2. View!Reached(x.status, y.status) \/ View!Reached(y.status, x.status)
    BY <1>1, <1>5, ReachedOrder DEF Upto
  <2>3. CASE x.paid = y.paid
    BY <2>2, <2>3 DEF Upto
  <2>4. CASE x.paid /\ ~y.paid
    BY <1>1, <1>5, <2>1, <2>2, <2>4, Statuses DEF Upto, Lawful, After
  <2>5. CASE ~x.paid /\ y.paid
    BY <1>1, <1>5, <2>1, <2>2, <2>5, Statuses DEF Upto, Lawful, After
  <2> QED BY <1>1, <2>3, <2>4, <2>5
<1> QED BY <1>3, <1>4, <1>5

LEMMA Appended ==
    ASSUME NEW S, NEW q \in Seq(S), NEW e \in S
    PROVE  /\ Append(q, e) \in Seq(S) /\ Len(Append(q, e)) = Len(q) + 1
           /\ Carried(Append(q, e)) = Carried(q) \cup {e}
           /\ InOrder(q) /\ (\A x \in Carried(q) : Before(x, e)) => InOrder(Append(q, e))
BY DEF Carried, InOrder

LEMMA FirstTaken ==
    ASSUME NEW S, NEW q \in Seq(S), q # <<>>
    PROVE  /\ Tail(q) \in Seq(S) /\ Len(Tail(q)) = Len(q) - 1
           /\ Head(q) \in S /\ Carried(q) = {Head(q)} \cup Carried(Tail(q))
           /\ InOrder(q) => InOrder(Tail(q)) /\ \A x \in Carried(Tail(q)) : Before(Head(q), x)
<1>1. /\ Len(q) \in Nat \ {0} /\ Len(Tail(q)) = Len(q) - 1 /\ Head(q) = q[1] /\ q[1] \in S
      /\ Tail(q) \in Seq(S) /\ \A i \in 1 .. Len(Tail(q)) : Tail(q)[i] = q[i + 1]
  OBVIOUS
<1>2. Carried(q) = {Head(q)} \cup Carried(Tail(q))
  <2>1. ASSUME NEW i \in 1 .. Len(q) PROVE q[i] \in {Head(q)} \cup Carried(Tail(q))
    <3>1. CASE i = 1
      BY <1>1, <3>1
    <3>2. CASE i # 1
      <4>1. i - 1 \in 1 .. Len(Tail(q)) /\ Tail(q)[i - 1] = q[i]
        BY <1>1, <3>2
      <4> QED BY <4>1 DEF Carried
    <3> QED BY <3>1, <3>2
  <2>2. \A i \in 1 .. Len(Tail(q)) : i + 1 \in 1 .. Len(q)
    BY <1>1
  <2>3. Head(q) \in Carried(q) /\ Carried(Tail(q)) \subseteq Carried(q)
    BY <1>1, <2>2 DEF Carried
  <2> QED BY <2>1, <2>3 DEF Carried
<1>3. InOrder(q) => InOrder(Tail(q)) /\ \A x \in Carried(Tail(q)) : Before(Head(q), x)
  BY <1>1 DEF InOrder, Carried
<1> QED BY <1>1, <1>2, <1>3

LEMMA OneTaken ==
    ASSUME NEW S, NEW q \in Seq(S), NEW i \in 1 .. Len(q)
    PROVE  /\ View!RemoveAt(q, i) \in Seq(S) /\ Len(View!RemoveAt(q, i)) = Len(q) - 1
           /\ q[i] \in S /\ Carried(q) = {q[i]} \cup Carried(View!RemoveAt(q, i))
           /\ InOrder(q) => InOrder(View!RemoveAt(q, i))
           /\ InOrder(q) /\ i = 1 => \A x \in Carried(View!RemoveAt(q, i)) : Before(q[1], x)
<1> DEFINE r == View!RemoveAt(q, i)
<1>1. /\ r \in Seq(S) /\ Len(r) = Len(q) - 1 /\ q[i] \in S
      /\ \A k \in 1 .. Len(r) : r[k] = IF k < i THEN q[k] ELSE q[k + 1]
  <2> DEFINE a == SubSeq(q, 1, i - 1)
             b == SubSeq(q, i + 1, Len(q))
  <2>1. a \in Seq(S) /\ Len(a) = i - 1 /\ \A k \in 1 .. i - 1 : a[k] = q[k]
    OBVIOUS
  <2>2. b \in Seq(S) /\ Len(b) = Len(q) - i /\ \A k \in 1 .. Len(q) - i : b[k] = q[i + k]
    OBVIOUS
  <2>3. r = a \o b
    BY DEF View!RemoveAt
  <2> HIDE DEF a, b, r
  <2>4. /\ r \in Seq(S) /\ Len(r) = Len(q) - 1
        /\ \A k \in 1 .. Len(r) : r[k] = IF k <= i - 1 THEN a[k] ELSE b[k - (i - 1)]
    BY <2>1, <2>2, <2>3
  <2>5. q[i] \in S
    OBVIOUS
  <2>6. ASSUME NEW k \in 1 .. Len(r) PROVE r[k] = IF k < i THEN q[k] ELSE q[k + 1]
    <3>1. CASE k < i
      BY <2>1, <2>4, <3>1, i \in 1 .. Len(q)
    <3>2. CASE ~(k < i)
      <4>1. k - (i - 1) \in 1 .. Len(q) - i /\ i + (k - (i - 1)) = k + 1
        BY <2>4, <3>2
      <4> QED BY <2>2, <2>4, <3>2, <4>1
    <3> QED BY <3>1, <3>2
  <2> QED BY <2>4, <2>5, <2>6
<1> HIDE DEF r
<1>2. Carried(q) = {q[i]} \cup Carried(r)
  <2>1. ASSUME NEW k \in 1 .. Len(q), k # i PROVE q[k] \in Carried(r)
    <3>1. CASE k < i
      <4>1. k \in 1 .. Len(r) /\ r[k] = q[k]
        BY <1>1, <3>1
      <4> QED BY <4>1 DEF Carried
    <3>2. CASE k > i
      <4>1. k - 1 \in 1 .. Len(r) /\ r[k - 1] = q[k]
        BY <1>1, <3>2
      <4> QED BY <4>1 DEF Carried
    <3> QED BY <2>1, <3>1, <3>2
  <2>2. ASSUME NEW k \in 1 .. Len(r) PROVE r[k] \in Carried(q)
    <3>1. k \in 1 .. Len(q) /\ k + 1 \in 1 .. Len(q)
      BY <1>1
    <3> QED BY <1>1, <3>1 DEF Carried
  <2> QED BY <2>1, <2>2 DEF Carried
<1>3. ASSUME InOrder(q) PROVE InOrder(r) /\ (i = 1 => \A x \in Carried(r) : Before(q[1], x))
  <2>1. ASSUME NEW k \in 1 .. Len(r), NEW l \in 1 .. Len(r), k < l PROVE Before(r[k], r[l])
    <3>1. PICK m \in 1 .. Len(q), n \in 1 .. Len(q) : r[k] = q[m] /\ r[l] = q[n] /\ m < n
      BY <1>1, <2>1
    <3> QED BY <1>3, <3>1 DEF InOrder
  <2>2. ASSUME i = 1, NEW k \in 1 .. Len(r) PROVE Before(q[1], r[k])
    <3>1. r[k] = q[k + 1] /\ k + 1 \in 1 .. Len(q) /\ 1 < k + 1
      BY <1>1, <2>2
    <3> QED BY <1>3, <3>1 DEF InOrder
  <2> QED BY <2>1, <2>2 DEF InOrder, Carried
<1> QED BY <1>1, <1>2, <1>3 DEF r

-----------------------------------------------------------------------------
(* The inductive invariant: which event, answer or request under way will  *)
(* bring a page up to date.                                                *)

AtDestination == {"ARRIVED_AT_DESTINATION", "COMPLETED"}

ViewTypes ==
    /\ ride \in View!Document
    /\ emits \in Seq(Events)
    /\ page \in [socket : {"closed", "connecting", "open"}, shown : View!Document \cup {View!NoRide},
                 inbox : Seq(Events)]
    /\ MaxEvents \in Nat /\ Len(emits) + Len(page.inbox) <= MaxEvents
    /\ fetches \in [Fetches -> Gets]
    /\ cancel \in {"none", "asked", "done", "left"}
    /\ pay \in {"none", "previewing", "ordering", "checkout", "left"}
    /\ excuse \in {"none", "behind", "foreign"}
BoardTypes ==
    /\ requests \subseteq View!Messages /\ IsFiniteSet(requests)
    /\ MaxRequests \in Nat /\ Cardinality(requests) <= MaxRequests
    /\ dashboard \in [open : BOOLEAN, shown : View!Document \cup {View!NoRide}]
    /\ refused \in BOOLEAN

RideLawful ==
    /\ Lawful(ride)
    /\ cancel = "done" => ride.status = "CANCELLED"
    /\ pay \in {"checkout", "left"} => ride.status \in AtDestination

\* What is emitted or answered was so once; events go out in commit order, and
\* the page has them in that order unless it may be wrong.
EventsInv ==
    /\ \A e \in Due :
        /\ e.foreign => e.kind = "status"
        /\ ~e.foreign => Past(e.doc)
        /\ e.kind = "captured" => e.doc.paid /\ e.doc.status = "ARRIVED_AT_DESTINATION"
    /\ InOrder(emits)
    /\ excuse = "none" =>
        InOrder(page.inbox) /\ \A x \in Carried(page.inbox), y \in Carried(emits) : Before(x, y)
GetsInv ==
    \A f \in Fetches : fetches[f].pc = "answered" =>
        /\ Past(fetches[f].got)
        /\ fetches[f].for = "preview" => fetches[f].got.status \in AtDestination

ShownInv ==
    /\ page.shown # View!NoRide /\ excuse # "foreign" => Upto(page.shown, ride)
    /\ page.shown # View!NoRide /\ excuse = "none" => Lawful(page.shown)
    /\ cancel \in {"asked", "done"} => page.shown # View!NoRide
    /\ page.socket = "closed" => page = View!Closed /\ \A f \in Fetches : fetches[f] = View!Idle
    /\ pay \in {"previewing", "ordering", "checkout"} /\ excuse = "none" =>
        page.shown.status \in AtDestination

\* A page that may not be wrong is to hear of a payment it does not show; and
\* it waits for an answer that the server has still to give, or has an answer,
\* or shows a ride, with which it needs no more than the events that are due.
CaptureDue == \E e \in Due : e.kind = "captured"
RideDue == \E e \in Due : ~e.foreign /\ e.doc = ride
Good(doc) ==
    /\ doc = ride \/ RideDue \/ cancel = "done"
    /\ ride.paid /\ ~doc.paid => CaptureDue
Asking == \E f \in Fetches : fetches[f].for = "page" /\ fetches[f].pc \in {"asked", "failed"}
GoodAnswer == \E f \in Fetches : fetches[f].pc = "answered" /\ Good(fetches[f].got)
CatchUp ==
    excuse = "none" /\ page.socket # "closed" =>
        /\ page.shown # View!NoRide /\ ride.paid /\ ~page.shown.paid => CaptureDue
        /\ \A f \in Fetches : fetches[f].pc = "answered" /\ ride.paid /\ ~fetches[f].got.paid =>
            CaptureDue \/ page.shown.paid
        /\ Asking \/ GoodAnswer \/ (page.shown # View!NoRide /\ Good(page.shown))

PageInv == ViewTypes /\ RideLawful /\ EventsInv /\ GetsInv /\ ShownInv /\ CatchUp

\* While nothing was refused, what the dashboard shows is ahead of the ride by
\* the requests that are under way, and a ride that ended was ended by it or at
\* a step where the rider may cancel.
Ahead(r, s) ==
    /\ View!Reached(r, s)
    /\ View!Reached(r, "SEARCHING") /\ View!Reached("DRIVER_ASSIGNED", s) => "accept" \in requests
    /\ View!Reached(r, "DRIVER_ASSIGNED") /\ View!Reached("DRIVER_ARRIVING", s) => "arrive" \in requests
    /\ View!Reached(r, "DRIVER_ARRIVING") /\ View!Reached("STARTED", s) => "start" \in requests
    /\ View!Reached(r, "STARTED") /\ View!Reached("ARRIVED_AT_DESTINATION", s) => "destination" \in requests
DashboardInv ==
    LET s == dashboard.shown.status
        r == ride.status
    IN  /\ ~refused /\ s \in {"none", "SEARCHING"} => requests = {}
        /\ ~refused /\ s = "SEARCHING" => r \in {"SEARCHING", "CANCELLED"}
        /\ s # "COMPLETED"
        /\ ~refused /\ s = "CANCELLED" =>
            r \in View!canCancel \cup {"CANCELLED"} /\ requests \subseteq {"accept", "arrive", "cancel"}
        /\ ~refused /\ s \in View!BUSY_RIDE_STATUSES =>
            /\ \A m \in requests :
                m # "cancel" /\ IF m = "complete" THEN s = "ARRIVED_AT_DESTINATION"
                                ELSE View!Reached(View!Wanted[m][2], s)
            /\ \/ r = "COMPLETED" /\ s = "ARRIVED_AT_DESTINATION"
               \/ r = "CANCELLED" /\ (s \in View!canCancel \/ "start" \in requests)
               \/ Ahead(r, s)
BoardInv == BoardTypes /\ DashboardInv

ViewInv == PageInv /\ BoardInv

-----------------------------------------------------------------------------
\* Cardinality as RideView sees it.
LEMMA SameCardinality == \A S : View!Cardinality(S) = Cardinality(S)
BY DEF View!Cardinality, Cardinality

LEMMA Shapes ==
    /\ View!Document = [status : View!RideStatus, paid : BOOLEAN] /\ View!NoRide \notin View!Document
    /\ View!NoRide.status = "none" /\ View!NoRide.paid = FALSE
    /\ View!Idle \in Gets /\ View!Idle.pc = "idle" /\ View!Idle.for = "page"
    /\ View!Closed.socket = "closed" /\ View!Closed.shown = View!NoRide /\ View!Closed.inbox = <<>>
    /\ View!Closed \in [socket : {"closed", "connecting", "open"}, shown : View!Document \cup {View!NoRide},
                   inbox : Seq(Events)]
BY Statuses DEF View!Document, View!NoRide, View!Idle, Gets, View!Closed

LEMMA NothingCarried == Carried(<<>>) = {} /\ InOrder(<<>>)
BY DEF Carried, InOrder

LEMMA ViewInit == View!ViewAssumption /\ View!Init => ViewInv
<1> SUFFICES ASSUME View!ViewAssumption, View!Init PROVE ViewInv
  OBVIOUS
<1>1. PICK e \in Events : e.foreign /\ e.kind = "status" /\ emits \in {<<>>, <<e>>}
  <2>1. View!Late("COMPLETED") \in Events /\ View!Late("CANCELLED") \in Events
    BY Statuses DEF View!Late, Events, View!Document
  <2>2. View!Late("COMPLETED").foreign /\ View!Late("COMPLETED").kind = "status"
        /\ View!Late("CANCELLED").foreign /\ View!Late("CANCELLED").kind = "status"
    BY DEF View!Late
  <2> QED BY <2>1, <2>2 DEF View!Init
<1>2. Carried(page.inbox) = {} /\ Carried(emits) \subseteq {e} /\ InOrder(emits) /\ Len(emits) <= 1
      /\ emits \in Seq(Events)
  <2>1. <<e>> \in Seq(Events) /\ Len(<<e>>) = 1 /\ <<e>>[1] = e
    BY <1>1
  <2>2. Carried(<<e>>) \subseteq {e} /\ InOrder(<<e>>)
    BY <2>1 DEF Carried, InOrder
  <2>3. page.inbox = <<>>
    BY Shapes DEF View!Init
  <2>4. <<>> \in Seq(Events) /\ Len(<<>>) = 0
    OBVIOUS
  <2>5. CASE emits = <<>>
    BY <2>3, <2>4, <2>5, NothingCarried
  <2>6. CASE emits = <<e>>
    BY <2>1, <2>2, <2>3, <2>6, NothingCarried
  <2> QED BY <1>1, <2>5, <2>6
<1>3. ViewTypes
  BY <1>2, Shapes, Statuses DEF View!ViewAssumption, View!Init, ViewTypes, View!Document
<1>4. BoardTypes
  <2>1. IsFiniteSet({}) /\ Cardinality({}) = 0
    BY FS_EmptySet
  <2>2. dashboard \in [open : BOOLEAN, shown : View!Document \cup {View!NoRide}]
    BY DEF View!Init
  <2>3. requests \subseteq View!Messages /\ IsFiniteSet(requests) /\ MaxRequests \in Nat /\ Cardinality(requests) <= MaxRequests
    BY <2>1 DEF View!ViewAssumption, View!Init
  <2> QED BY <2>2, <2>3 DEF View!Init, BoardTypes
<1>5. RideLawful /\ GetsInv /\ ShownInv
  BY Shapes DEF View!Init, RideLawful, Lawful, GetsInv, ShownInv
<1>6. EventsInv
  BY <1>1, <1>2, NothingCarried, Shapes DEF View!Init, EventsInv, Due
<1>7. CatchUp
  BY Shapes DEF View!Init, CatchUp
<1>8. DashboardInv
  BY Shapes DEF View!Init, DashboardInv, View!BUSY_RIDE_STATUSES
<1> QED BY <1>3, <1>4, <1>5, <1>6, <1>7, <1>8 DEF ViewInv, PageInv, BoardInv

\* Reached on the statuses, as the provers want it.
LEMMA ReachedFacts ==
    /\ \A s, t \in View!RideStatus : View!Reached(s, t) <=> t \in After[s]
    /\ \A s, t, u \in View!RideStatus : View!Reached(s, t) /\ View!Reached(t, u) => View!Reached(s, u)
BY ReachedAfter, ReachedOrder

\* The properties of the run.
LEMMA ViewInvGives == ViewInv => View!TypeOK /\ View!RiderIsInSync /\ View!DriverIsInSync
<1> SUFFICES ASSUME ViewInv PROVE View!TypeOK /\ View!RiderIsInSync /\ View!DriverIsInSync
  OBVIOUS
<1> USE DEF ViewInv, PageInv, BoardInv
<1>1. View!TypeOK
  <2>1. \A e \in View!ToSet(emits \o page.inbox) : e \in Events
    BY DEF ViewTypes, View!ToSet
  <2> QED BY <2>1, SameCardinality DEF View!TypeOK, ViewTypes, BoardTypes, Events, Gets
<1>2. View!RiderIsInSync
  <2>1. ASSUME page.shown # View!NoRide, excuse # "foreign"
        PROVE  View!Reached(page.shown.status, ride.status) /\ (page.shown.paid => ride.paid)
    BY <2>1 DEF ShownInv, Upto
  <2>2. ASSUME View!Quiet, page.socket # "closed", excuse = "none" PROVE page.shown = ride
    <3>1. ~RideDue /\ cancel # "done"
      BY <2>2, NothingCarried DEF View!Quiet, RideDue, Due
    <3>2. \A f \in Fetches : fetches[f].pc = "idle"
      BY <2>2 DEF View!Quiet, View!Free
    <3> QED BY <2>2, <3>1, <3>2 DEF CatchUp, Asking, GoodAnswer, Good
  <2> QED BY <2>1, <2>2 DEF View!RiderIsInSync
<1>3. View!DriverIsInSync
  <2> SUFFICES ASSUME dashboard.shown.status \in View!BUSY_RIDE_STATUSES, requests = {}, ~refused
               PROVE  \/ dashboard.shown.status = ride.status
                      \/ dashboard.shown.status = "ARRIVED_AT_DESTINATION" /\ ride.status = "COMPLETED"
                      \/ dashboard.shown.status \in View!canCancel /\ ride.status = "CANCELLED"
    BY DEF View!DriverIsInSync
  <2>1. dashboard.shown.status \in View!RideStatus /\ ride.status \in View!RideStatus
    BY Statuses DEF View!BUSY_RIDE_STATUSES, ViewTypes, View!Document
  <2>2. CASE Ahead(ride.status, dashboard.shown.status)
    BY <2>1, <2>2, ReachedFacts, Statuses DEF Ahead, After, View!BUSY_RIDE_STATUSES
  <2> QED BY <2>2 DEF DashboardInv
<1> QED BY <1>1, <1>2, <1>3

-----------------------------------------------------------------------------
(* The dashboard.                                                          *)

LEMMA WantedTable ==
    /\ View!Messages = {"accept", "arrive", "start", "destination", "complete", "cancel"}
    /\ View!Wanted["accept"][1] = {"SEARCHING"} /\ View!Wanted["accept"][2] = "DRIVER_ASSIGNED"
    /\ View!Wanted["arrive"][1] = {"DRIVER_ASSIGNED"} /\ View!Wanted["arrive"][2] = "DRIVER_ARRIVING"
    /\ View!Wanted["start"][1] = {"DRIVER_ARRIVING"} /\ View!Wanted["start"][2] = "STARTED"
    /\ View!Wanted["destination"][1] = {"STARTED"} /\ View!Wanted["destination"][2] = "ARRIVED_AT_DESTINATION"
    /\ View!Wanted["complete"][1] = {"ARRIVED_AT_DESTINATION"} /\ View!Wanted["complete"][2] = "COMPLETED"
    /\ View!Wanted["cancel"][1] = {"DRIVER_ASSIGNED", "DRIVER_ARRIVING"} /\ View!Wanted["cancel"][2] = "CANCELLED"
BY DEF View!Wanted, View!Messages

LEMMA Finite ==
    ASSUME IsFiniteSet(requests), NEW m
    PROVE  /\ IsFiniteSet(requests \ {m}) /\ Cardinality(requests \ {m}) <= Cardinality(requests)
           /\ IsFiniteSet(requests \cup {m}) /\ Cardinality(requests \cup {m}) <= Cardinality(requests) + 1
           /\ Cardinality(requests) \in Nat
<1>1. /\ IsFiniteSet(requests \ {m})
      /\ Cardinality(requests \ {m}) = IF m \in requests THEN Cardinality(requests) - 1 ELSE Cardinality(requests)
  BY FS_RemoveElement
<1>2. /\ IsFiniteSet(requests \cup {m})
      /\ Cardinality(requests \cup {m}) = IF m \in requests THEN Cardinality(requests) ELSE Cardinality(requests) + 1
  BY FS_AddElement
<1>3. Cardinality(requests) \in Nat
  BY FS_CardinalityType
<1> QED BY <1>1, <1>2, <1>3

\* DashboardInv is about the steps shown and made, the requests and refused.
LEMMA BoardSame ==
    ASSUME BoardInv, ride'.status = ride.status, UNCHANGED <<dashboard, requests, refused>>
    PROVE  BoardInv'
BY DEF BoardInv, BoardTypes, DashboardInv, Ahead

LEMMA BoardRefused ==
    ASSUME BoardInv, NEW m \in View!Messages, View!RefuseDriver(m)
    PROVE  BoardInv'
<1>1. BoardTypes'
  <2>1. IsFiniteSet(requests) /\ MaxRequests \in Nat /\ Cardinality(requests) <= MaxRequests /\ requests' = requests \ {m}
    BY DEF BoardInv, BoardTypes, View!RefuseDriver
  <2>2. IsFiniteSet(requests \ {m}) /\ Cardinality(requests \ {m}) <= Cardinality(requests)
        /\ Cardinality(requests) \in Nat /\ Cardinality(requests \ {m}) \in Nat
    BY <2>1, Finite, FS_CardinalityType
  <2>3. IsFiniteSet(requests') /\ Cardinality(requests') <= MaxRequests
    BY <2>1, <2>2
  <2> QED BY <2>1, <2>3 DEF BoardInv, BoardTypes, View!RefuseDriver
<1>2. DashboardInv'
  BY DEF BoardInv, DashboardInv, View!RefuseDriver, View!serverVars
<1> QED BY <1>1, <1>2 DEF BoardInv

\* sendRideAction and the two other handlers: the dashboard is one step further ahead.
LEMMA BoardSends ==
    ASSUME ViewTypes, BoardInv, NEW m \in View!Messages, View!Send(m)
    PROVE  BoardInv'
<1> DEFINE s == dashboard.shown.status
           r == ride.status
<1>1. /\ dashboard.shown \in View!Document /\ s \in View!Wanted[m][1] /\ s \in View!RideStatus /\ r \in View!RideStatus
      /\ requests' = requests \cup {m} /\ refused' = refused /\ ride' = ride
      /\ dashboard' = [dashboard EXCEPT !.shown.status = View!Assume(m)]
  <2>1. s \in View!Wanted[m][1]
    BY DEF View!Send, View!Buttons
  <2>2. s # "none"
    BY <2>1, WantedTable
  <2> QED BY <2>1, <2>2, Shapes DEF View!Send, BoardInv, BoardTypes, ViewTypes, View!Document, View!serverVars
<1>2. dashboard'.shown.status = IF m = "complete" THEN s ELSE View!Wanted[m][2]
  BY <1>1 DEF View!Assume, BoardInv, BoardTypes, View!Document
<1>3. BoardTypes'
  <2>1. dashboard' \in [open : BOOLEAN, shown : View!Document \cup {View!NoRide}]
    <3>1. View!Assume(m) \in View!RideStatus
      BY <1>1, WantedTable, Statuses DEF View!Assume
    <3> QED BY <1>1, <3>1 DEF BoardInv, BoardTypes, View!Document
  <2>2. Cardinality(requests) < MaxRequests
    BY SameCardinality DEF View!Send
  <2>3. IsFiniteSet(requests') /\ Cardinality(requests') <= MaxRequests
    <3>1. IsFiniteSet(requests \cup {m}) /\ Cardinality(requests \cup {m}) <= Cardinality(requests) + 1
          /\ Cardinality(requests) \in Nat /\ Cardinality(requests \cup {m}) \in Nat
      BY Finite, FS_CardinalityType DEF BoardInv, BoardTypes
    <3> QED BY <1>1, <2>2, <3>1 DEF BoardInv, BoardTypes
  <2> QED BY <1>1, <2>1, <2>3 DEF BoardInv, BoardTypes
<1>4. DashboardInv'
  <2> HIDE DEF s, r
  <2>1. s' = (IF m = "complete" THEN s ELSE View!Wanted[m][2]) /\ r' = r
    BY <1>1, <1>2 DEF s, r
  <2>2. /\ ~refused /\ s \in {"none", "SEARCHING"} => requests = {}
        /\ ~refused /\ s = "SEARCHING" => r \in {"SEARCHING", "CANCELLED"}
        /\ s # "COMPLETED"
        /\ ~refused /\ s \in View!BUSY_RIDE_STATUSES =>
            /\ \A n \in requests :
                n # "cancel" /\ IF n = "complete" THEN s = "ARRIVED_AT_DESTINATION"
                                ELSE View!Reached(View!Wanted[n][2], s)
            /\ \/ r = "COMPLETED" /\ s = "ARRIVED_AT_DESTINATION"
               \/ r = "CANCELLED" /\ (s \in View!canCancel \/ "start" \in requests)
               \/ Ahead(r, s)
    BY DEF BoardInv, DashboardInv, s, r
  <2>3. s' \notin {"none", "SEARCHING", "COMPLETED"}
    BY <1>1, <2>1, <2>2, WantedTable
  <2>4. ASSUME ~refused, m = "cancel"
        PROVE  r \in View!canCancel \cup {"CANCELLED"} /\ requests' \subseteq {"accept", "arrive", "cancel"}
    <3>1. s \in {"DRIVER_ASSIGNED", "DRIVER_ARRIVING"} /\ s \in View!BUSY_RIDE_STATUSES
      BY <1>1, <2>4, WantedTable DEF View!BUSY_RIDE_STATUSES
    <3>2. r \in View!canCancel \cup {"CANCELLED"}
      BY <1>1, <2>2, <2>4, <3>1, ReachedFacts, Statuses DEF Ahead, After, View!canCancel
    <3>3. \A n \in requests : n \in {"accept", "arrive"}
      BY <1>1, <2>2, <2>4, <3>1, ReachedFacts, Statuses, WantedTable DEF After, BoardInv, BoardTypes
    <3> QED BY <1>1, <2>4, <3>2, <3>3
  <2>5. ASSUME ~refused, m # "cancel"
        PROVE  /\ \A n \in requests' :
                   n # "cancel" /\ IF n = "complete" THEN s' = "ARRIVED_AT_DESTINATION"
                                   ELSE View!Reached(View!Wanted[n][2], s')
               /\ \/ r = "COMPLETED" /\ s' = "ARRIVED_AT_DESTINATION"
                  \/ r = "CANCELLED" /\ (s' \in View!canCancel \/ "start" \in requests')
                  \/ Ahead(r, s)'
    <3>1. s' \in View!RideStatus /\ View!Reached(s, s')
      BY <1>1, <2>1, <2>5, ReachedFacts, Statuses, WantedTable DEF After
    <3>2. CASE s = "SEARCHING"
      <4>1. m = "accept" /\ requests' = {"accept"} /\ s' = "DRIVER_ASSIGNED"
        BY <1>1, <2>1, <2>2, <2>5, <3>2, WantedTable
      <4> QED BY <1>1, <2>1, <2>2, <2>5, <3>2, <4>1, ReachedFacts, Statuses, WantedTable DEF After, Ahead, View!canCancel
    <3>3. CASE s # "SEARCHING"
      <4>1. s \in View!BUSY_RIDE_STATUSES
        BY <1>1, <3>3, WantedTable DEF View!BUSY_RIDE_STATUSES
      <4>2. ASSUME NEW n \in requests'
            PROVE  n # "cancel" /\ IF n = "complete" THEN s' = "ARRIVED_AT_DESTINATION"
                                   ELSE View!Reached(View!Wanted[n][2], s')
        BY <1>1, <2>1, <2>2, <2>5, <3>1, <4>1, <4>2, ReachedFacts, Statuses, WantedTable DEF After, BoardInv, BoardTypes
      <4>3. \/ r = "COMPLETED" /\ s' = "ARRIVED_AT_DESTINATION"
            \/ r = "CANCELLED" /\ (s' \in View!canCancel \/ "start" \in requests')
            \/ Ahead(r, s)'
        <5>1. CASE r = "COMPLETED" /\ s = "ARRIVED_AT_DESTINATION"
          BY <1>1, <2>1, <5>1, WantedTable
        <5>2. CASE r = "CANCELLED" /\ (s \in View!canCancel \/ "start" \in requests)
          BY <1>1, <2>1, <2>5, <5>2, WantedTable DEF View!canCancel
        <5>3. CASE Ahead(r, s)
          BY <1>1, <2>1, <2>5, <3>1, <5>3, ReachedFacts, Statuses, WantedTable DEF After, Ahead
        <5> QED BY <2>2, <2>5, <4>1, <5>1, <5>2, <5>3
      <4> QED BY <4>2, <4>3
    <3> QED BY <3>2, <3>3
  <2>6. s' = "CANCELLED" <=> m = "cancel"
    BY <1>1, <2>1, WantedTable
  <2> QED BY <1>1, <2>1, <2>3, <2>4, <2>5, <2>6 DEF DashboardInv, s, r, View!BUSY_RIDE_STATUSES
<1> QED BY <1>3, <1>4 DEF BoardInv

LEMMA BoardLoads ==
    ASSUME ViewTypes, BoardInv, View!OpenDashboard \/ View!Offered \/ View!RejectRide
    PROVE  BoardInv'
<1>1. ride' = ride /\ requests' = requests /\ ride.status \in View!RideStatus
  BY Shapes DEF View!OpenDashboard, View!Offered, View!RejectRide, View!serverVars, ViewTypes
<1>2. dashboard' \in [open : BOOLEAN, shown : View!Document \cup {View!NoRide}] /\ refused' \in BOOLEAN
  <2>1. dashboard \in [open : BOOLEAN, shown : View!Document \cup {View!NoRide}] /\ refused \in BOOLEAN /\ ride \in View!Document
    BY DEF BoardInv, BoardTypes, ViewTypes
  <2>2. CASE View!OpenDashboard
    BY <2>1, <2>2 DEF View!OpenDashboard
  <2>3. CASE View!Offered
    BY <2>1, <2>3 DEF View!Offered
  <2>4. CASE View!RejectRide
    BY <2>1, <2>4 DEF View!RejectRide
  <2> QED BY <2>2, <2>3, <2>4
<1>3. BoardTypes'
  BY <1>1, <1>2 DEF BoardInv, BoardTypes
<1>4. DashboardInv'
  <2>1. CASE View!OpenDashboard
    <3>1. refused' = (requests # {}) /\ dashboard'.shown.status \in {"none", ride.status}
          /\ (dashboard'.shown.status # "none" => ride.status \in View!BUSY_RIDE_STATUSES)
      BY <2>1, Shapes DEF View!OpenDashboard
    <3>2. dashboard'.shown.status \in View!BUSY_RIDE_STATUSES => Ahead(ride.status, ride.status)
      BY <1>1, <3>1, ReachedFacts, Statuses DEF Ahead, After, View!BUSY_RIDE_STATUSES
    <3> QED BY <1>1, <3>1, <3>2 DEF DashboardInv, View!BUSY_RIDE_STATUSES, Ahead
  <2>2. CASE View!Offered
    <3>1. /\ ride.status = "SEARCHING" /\ dashboard'.shown.status = "SEARCHING"
          /\ refused' = refused /\ (~refused => requests = {})
      BY <2>2, Shapes DEF View!Offered, BoardInv, BoardTypes, DashboardInv
    <3> QED BY <1>1, <3>1 DEF DashboardInv, View!BUSY_RIDE_STATUSES
  <2>3. CASE View!RejectRide
    <3>1. /\ dashboard'.shown.status = "none"
          /\ refused' = refused /\ (~refused => requests = {})
      BY <2>3, Shapes DEF View!RejectRide, BoardInv, BoardTypes, DashboardInv
    <3> QED BY <1>1, <3>1 DEF DashboardInv, View!BUSY_RIDE_STATUSES
  <2> QED BY <2>1, <2>2, <2>3
<1> QED BY <1>3, <1>4 DEF BoardInv

\* The dashboard merges PAYMENT_CAPTURED: it shows that step already, or something was refused.
LEMMA BoardHears ==
    ASSUME ViewTypes, EventsInv, BoardInv, NEW e \in Due, e \in Events, View!DriverHears(e),
           UNCHANGED <<ride, requests, refused>>
    PROVE  BoardInv'
<1>1. CASE dashboard' = dashboard
  BY <1>1, BoardSame
<1>2. CASE e.kind = "captured" /\ dashboard.shown # View!NoRide /\ dashboard' = [dashboard EXCEPT !.shown = e.doc]
  <2>1. e.doc \in View!Document /\ e.doc.status = "ARRIVED_AT_DESTINATION" /\ Upto(e.doc, ride)
    BY <1>2 DEF EventsInv, Past, Events
  <2>2. ride.status \in {"ARRIVED_AT_DESTINATION", "COMPLETED"}
    BY <2>1, ReachedFacts, Statuses DEF Upto, After, ViewTypes, View!Document
  <2>3. dashboard'.shown = e.doc /\ dashboard.shown \in View!Document
    BY <1>2 DEF BoardInv, BoardTypes
  <2>4. BoardTypes'
    BY <1>2, <2>1 DEF BoardInv, BoardTypes
  <2>5. ~refused => dashboard.shown.status = "ARRIVED_AT_DESTINATION"
    <3>1. dashboard.shown.status \in View!RideStatus /\ ride.status \in View!RideStatus
      BY <2>3 DEF ViewTypes, View!Document
    <3>2. ~refused => dashboard.shown.status \in View!BUSY_RIDE_STATUSES
      BY <2>2, <3>1, Statuses DEF BoardInv, DashboardInv, View!BUSY_RIDE_STATUSES, View!canCancel
    <3> QED BY <2>2, <3>1, <3>2, ReachedFacts, Statuses DEF BoardInv, DashboardInv, Ahead, After, View!BUSY_RIDE_STATUSES
  <2>6. DashboardInv'
    <3>1. CASE refused
      BY <2>1, <2>3, <3>1 DEF DashboardInv
    <3>2. CASE ~refused
      <4>1. dashboard'.shown.status = dashboard.shown.status
        BY <2>1, <2>3, <2>5, <3>2
      <4> QED BY <4>1 DEF BoardInv, DashboardInv, Ahead
    <3> QED BY <3>1, <3>2
  <2> QED BY <2>4, <2>6 DEF BoardInv
<1> QED BY <1>1, <1>2 DEF View!DriverHears

\* A message of the driver is handled: the ride takes the step.
LEMMA BoardHandled ==
    ASSUME ViewTypes, BoardInv, NEW m \in View!Messages, View!HandleDriver(m)
    PROVE  BoardInv'
<1> DEFINE s == dashboard.shown.status
           r == ride.status
           t == View!Wanted[m][2]
<1>1. /\ m \in requests /\ requests' = requests \ {m} /\ dashboard' = dashboard /\ refused' = refused
      /\ r \in View!Wanted[m][1] /\ ride' = [ride EXCEPT !.status = t]
  BY DEF View!HandleDriver, View!Allowed, View!Step, View!Commit
<1>2. r' = t /\ r \in View!RideStatus /\ t \in View!RideStatus /\ s \in View!RideStatus \cup {"none"}
  BY <1>1, WantedTable, Statuses, Shapes DEF ViewTypes, View!Document, BoardInv, BoardTypes
<1>3. BoardTypes'
  <2>1. IsFiniteSet(requests) /\ MaxRequests \in Nat /\ Cardinality(requests) <= MaxRequests
    BY DEF BoardInv, BoardTypes
  <2>2. IsFiniteSet(requests \ {m}) /\ Cardinality(requests \ {m}) <= Cardinality(requests)
        /\ Cardinality(requests) \in Nat /\ Cardinality(requests \ {m}) \in Nat
    BY <2>1, Finite, FS_CardinalityType
  <2>3. IsFiniteSet(requests') /\ Cardinality(requests') <= MaxRequests
    BY <1>1, <2>1, <2>2
  <2> QED BY <1>1, <2>3 DEF BoardInv, BoardTypes
<1>4. DashboardInv'
  <2> HIDE DEF s, r, t
  <2>1. s' = s
    BY <1>1 DEF s
  <2>2. /\ s # "COMPLETED" /\ (~refused => s \notin {"none", "SEARCHING"})
        /\ ~refused /\ s = "CANCELLED" =>
            r \in View!canCancel \cup {"CANCELLED"} /\ requests \subseteq {"accept", "arrive", "cancel"}
        /\ ~refused /\ s \in View!BUSY_RIDE_STATUSES =>
            /\ \A n \in requests :
                n # "cancel" /\ IF n = "complete" THEN s = "ARRIVED_AT_DESTINATION"
                                ELSE View!Reached(View!Wanted[n][2], s)
            /\ \/ r = "COMPLETED" /\ s = "ARRIVED_AT_DESTINATION"
               \/ r = "CANCELLED" /\ (s \in View!canCancel \/ "start" \in requests)
               \/ Ahead(r, s)
    BY <1>1 DEF BoardInv, DashboardInv, s, r
  <2>3. ASSUME ~refused, s = "CANCELLED" PROVE t \in View!canCancel \cup {"CANCELLED"}
    BY <1>1, <2>2, <2>3, WantedTable DEF View!canCancel, t
  <2>4. ASSUME ~refused, s \in View!BUSY_RIDE_STATUSES
        PROVE  (t = "COMPLETED" /\ s = "ARRIVED_AT_DESTINATION") \/ Ahead(r, s)'
    <3>1. Ahead(r, s) /\ s \in View!RideStatus /\ m # "cancel"
      BY <1>1, <1>2, <2>2, <2>4, WantedTable DEF View!BUSY_RIDE_STATUSES
    <3>2. CASE m = "complete"
      BY <1>1, <2>2, <2>4, <3>2, WantedTable DEF t
    <3>3. CASE m # "complete"
      BY <1>1, <1>2, <2>1, <2>2, <2>4, <3>1, <3>3, ReachedFacts, Statuses, WantedTable DEF After, Ahead, t
    <3> QED BY <3>2, <3>3
  <2> QED BY <1>1, <1>2, <2>1, <2>2, <2>3, <2>4 DEF DashboardInv, s, r
<1> QED BY <1>3, <1>4 DEF BoardInv

\* The rider cancels the ride, which the dashboard does not hear of.
LEMMA BoardCancelled ==
    ASSUME ViewTypes, BoardInv, View!CancelRide
    PROVE  BoardInv'
<1>1. /\ ride.status \in View!canCancel /\ ride'.status = "CANCELLED"
      /\ requests' = requests /\ dashboard' = dashboard /\ refused' = refused
  BY DEF View!CancelRide, View!driverVars, ViewTypes, View!Document
<1>2. ASSUME ~refused, dashboard.shown.status \in View!BUSY_RIDE_STATUSES
      PROVE  dashboard.shown.status \in View!canCancel \/ "start" \in requests
  BY <1>1, <1>2, ReachedFacts, Statuses
  DEF BoardInv, DashboardInv, Ahead, After, View!BUSY_RIDE_STATUSES, View!canCancel, ViewTypes, View!Document
<1>3. DashboardInv'
  BY <1>1, <1>2 DEF BoardInv, DashboardInv
<1> QED BY <1>1, <1>3 DEF BoardInv, BoardTypes

-----------------------------------------------------------------------------
(* The rider's page: what the server does, and what becomes of its events. *)

LEMMA PageSame ==
    ASSUME PageInv, UNCHANGED <<ride, emits, page, fetches, cancel, pay, excuse>>
    PROVE  PageInv'
<1>1. ViewTypes' /\ RideLawful'
  BY DEF PageInv, ViewTypes, RideLawful
<1>2. EventsInv' /\ GetsInv'
  BY DEF PageInv, EventsInv, GetsInv, Due, Past
<1>3. ShownInv'
  BY DEF PageInv, ShownInv
<1>4. CatchUp'
  BY DEF PageInv, CatchUp, CaptureDue, RideDue, Due, Good, Asking, GoodAnswer
<1> QED BY <1>1, <1>2, <1>3, <1>4 DEF PageInv

\* What was once so stays so.
LEMMA PastStays ==
    ASSUME ride \in View!Document, ride' \in View!Document, Upto(ride, ride')
    PROVE  \A doc : Past(doc) => Past(doc)'
BY PastOrder DEF Past

\* Nothing the ride was like before is like it is after a step.
LEMMA Newer ==
    ASSUME ride \in View!Document, NEW doc \in View!Document, Upto(ride, doc), doc # ride
    PROVE  \A x : Past(x) => Upto(x, doc) /\ x # doc
BY PastOrder DEF Past

\* The ride takes a step and its event is due.
LEMMA Commits ==
    ASSUME PageInv, NEW e \in Events, ~e.foreign, Lawful(e.doc), Upto(ride, e.doc), e.doc # ride,
           e.doc.paid /\ ~ride.paid => e.kind = "captured",
           e.kind = "captured" => e.doc.paid /\ e.doc.status = "ARRIVED_AT_DESTINATION",
           Len(emits) + Len(page.inbox) + 1 <= MaxEvents,
           ride' = e.doc, emits' = emits \o <<e>>,
           UNCHANGED <<page, fetches, cancel, pay, excuse>>
    PROVE  PageInv'
<1>1. ride \in View!Document /\ e.doc \in View!Document /\ emits \in Seq(Events) /\ page.inbox \in Seq(Events)
  BY DEF PageInv, ViewTypes, Events
<1>2. emits' = Append(emits, e)
  BY <1>1
<1>3. /\ emits' \in Seq(Events) /\ Len(emits') = Len(emits) + 1
      /\ Carried(emits') = Carried(emits) \cup {e}
      /\ InOrder(emits) /\ (\A x \in Carried(emits) : Before(x, e)) => InOrder(emits')
  <2>1. /\ Append(emits, e) \in Seq(Events) /\ Len(Append(emits, e)) = Len(emits) + 1
        /\ Carried(Append(emits, e)) = Carried(emits) \cup {e}
        /\ InOrder(emits) /\ (\A x \in Carried(emits) : Before(x, e)) => InOrder(Append(emits, e))
    BY <1>1, Appended
  <2> QED BY <1>2, <2>1
<1>4. Due' = Due \cup {e}
  BY <1>3 DEF Due
<1>5. \A doc : Past(doc) => Past(doc)'
  BY <1>1, PastStays
<1>6. Past(e.doc)'
  BY <1>1, PastOrder DEF Past
<1>7. \A x \in Due : Before(x, e)
  BY <1>1, Newer DEF PageInv, EventsInv, Before
<1>8. ViewTypes'
  BY <1>1, <1>3 DEF PageInv, ViewTypes
<1>9. RideLawful'
  BY <1>1, PastOrder, ReachedFacts, Statuses DEF PageInv, RideLawful, Lawful, Upto, After, AtDestination, View!Document
<1>10. EventsInv'
  <2>1. \A x \in Due' : /\ x.foreign => x.kind = "status"
                        /\ ~x.foreign => Past(x.doc)'
                        /\ x.kind = "captured" => x.doc.paid /\ x.doc.status = "ARRIVED_AT_DESTINATION"
    BY <1>4, <1>5, <1>6 DEF PageInv, EventsInv
  <2>2. InOrder(emits)'
    BY <1>3, <1>7 DEF PageInv, EventsInv, Due
  <2>3. excuse = "none" => \A x \in Carried(page.inbox), y \in Carried(emits') : Before(x, y)
    BY <1>3, <1>7 DEF PageInv, EventsInv, Due
  <2> QED BY <2>1, <2>2, <2>3 DEF PageInv, EventsInv
<1>11. GetsInv'
  BY <1>5 DEF PageInv, GetsInv
<1>12. ShownInv'
  BY <1>1, PastOrder DEF PageInv, ShownInv, ViewTypes
<1>13. CatchUp'
  <2> SUFFICES ASSUME excuse = "none", page.socket # "closed" PROVE CatchUp'
    BY DEF CatchUp
  <2>1. RideDue' /\ (CaptureDue => CaptureDue') /\ (ride'.paid /\ ~ride.paid => CaptureDue')
    BY <1>4 DEF RideDue, CaptureDue
  <2>2. ride.paid => ride'.paid
    BY DEF Upto
  <2>3. \A doc : Good(doc) => Good(doc)'
    BY <2>1, <2>2 DEF Good
  <2>4. Asking' = Asking /\ (GoodAnswer => GoodAnswer')
    BY <2>3 DEF Asking, GoodAnswer
  <2> QED BY <2>1, <2>2, <2>3, <2>4 DEF PageInv, CatchUp
<1> QED BY <1>8, <1>9, <1>10, <1>11, <1>12, <1>13 DEF PageInv

LEMMA PageHandled ==
    ASSUME PageInv, NEW m \in View!Messages, View!HandleDriver(m)
    PROVE  PageInv'
<1> DEFINE doc == [ride EXCEPT !.status = View!Wanted[m][2]]
           e == View!Event(IF View!Wanted[m][2] = "DRIVER_ASSIGNED" THEN "accepted" ELSE "status", doc)
<1>1. /\ ride.status \in View!Wanted[m][1] /\ (m = "complete" => ride.paid)
      /\ Len(emits) + Len(page.inbox) + Len(<<e>>) <= MaxEvents
      /\ ride' = doc /\ emits' = emits \o <<e>>
      /\ UNCHANGED <<page, fetches, cancel, pay, excuse>>
  BY DEF View!HandleDriver, View!Allowed, View!Step, View!Commit, View!riderVars
<1>2. /\ ride \in View!Document /\ ride.status \in View!RideStatus /\ View!Wanted[m][2] \in View!RideStatus
      /\ doc \in View!Document /\ doc.status = View!Wanted[m][2] /\ doc.paid = ride.paid
  BY WantedTable, Statuses DEF PageInv, ViewTypes, View!Document
<1>3. e.doc = doc /\ ~e.foreign /\ e.kind # "captured" /\ e \in Events
  BY <1>2 DEF View!Event, Events
<1>4. Lawful(doc)
  BY <1>1, <1>2, WantedTable DEF PageInv, RideLawful, Lawful
<1>5. Upto(ride, doc) /\ doc # ride
  <2>1. View!Reached(ride.status, View!Wanted[m][2]) /\ ride.status # View!Wanted[m][2]
    BY <1>1, <1>2, WantedTable, ReachedFacts, Statuses DEF After
  <2> QED BY <1>2, <2>1 DEF Upto
<1> HIDE DEF e, doc
<1>6. Len(emits) + Len(page.inbox) + 1 <= MaxEvents
  BY <1>1
<1> QED BY <1>1, <1>2, <1>3, <1>4, <1>5, <1>6, Commits

LEMMA PageCaptured ==
    ASSUME PageInv, View!PaymentCaptured
    PROVE  PageInv'
<1> DEFINE doc == [ride EXCEPT !.paid = TRUE]
           e == View!Event("captured", doc)
<1>1. /\ pay \in {"checkout", "left"} /\ ~ride.paid
      /\ Len(emits) + Len(page.inbox) + Len(<<e>>) <= MaxEvents
      /\ ride' = doc /\ emits' = emits \o <<e>>
      /\ UNCHANGED <<page, fetches, cancel, pay, excuse>>
  BY DEF View!PaymentCaptured, View!Commit, View!riderVars
<1>2. /\ ride \in View!Document /\ ride.status \in View!RideStatus
      /\ doc \in View!Document /\ doc.status = ride.status /\ doc.paid = TRUE
  BY DEF PageInv, ViewTypes, View!Document
<1>3. e.doc = doc /\ ~e.foreign /\ e.kind = "captured" /\ e \in Events
  BY <1>2 DEF View!Event, Events
<1>4. ride.status = "ARRIVED_AT_DESTINATION"
  BY <1>1 DEF PageInv, RideLawful, Lawful, AtDestination
<1>5. Lawful(doc) /\ Upto(ride, doc) /\ doc # ride
  BY <1>1, <1>2, <1>4, ReachedOrder DEF Lawful, Upto
<1> HIDE DEF e, doc
<1>6. Len(emits) + Len(page.inbox) + 1 <= MaxEvents
  BY <1>1
<1> QED BY <1>1, <1>2, <1>3, <1>4, <1>5, <1>6, Commits

\* The rider's own cancellation commits; its answer will bring the page up to date.
LEMMA PageCancels ==
    ASSUME PageInv, View!CancelRide
    PROVE  PageInv'
<1>1. /\ cancel \in {"asked", "left"} /\ ride.status \in View!canCancel
      /\ cancel' = (IF cancel = "asked" THEN "done" ELSE "none")
      /\ ride' = [ride EXCEPT !.status = "CANCELLED"]
      /\ UNCHANGED <<emits, page, fetches, pay>>
      /\ excuse' \in {"none", "behind", "foreign"} /\ (excuse = "foreign" => excuse' = "foreign")
      /\ (excuse' = "none" => cancel = "asked" /\ excuse = "none")
  BY DEF View!CancelRide, View!Behind, PageInv, ViewTypes
<1>2. /\ ride \in View!Document /\ ride' \in View!Document /\ ride'.status = "CANCELLED" /\ ride'.paid = ride.paid
      /\ ~ride.paid
  BY <1>1, Statuses DEF PageInv, ViewTypes, View!Document, RideLawful, Lawful, View!canCancel
<1>3. Upto(ride, ride')
  BY <1>1, <1>2, ReachedFacts, Statuses DEF Upto, After, View!canCancel
<1>4. \A doc : Past(doc) => Past(doc)'
  BY <1>2, <1>3, PastStays
<1>5. ViewTypes' /\ RideLawful'
  BY <1>1, <1>2 DEF PageInv, ViewTypes, RideLawful, Lawful, AtDestination, View!canCancel
<1>6. EventsInv' /\ GetsInv'
  BY <1>1, <1>4 DEF PageInv, EventsInv, GetsInv, Due
<1>7. ShownInv'
  BY <1>1, <1>2, <1>3, PastOrder DEF PageInv, ShownInv, ViewTypes
<1>8. CatchUp'
  <2>1. excuse' = "none" => \A doc : Good(doc)'
    BY <1>1, <1>2 DEF Good
  <2> QED BY <1>1, <1>2, <2>1 DEF PageInv, CatchUp, Asking, GoodAnswer
<1> QED BY <1>5, <1>6, <1>7, <1>8 DEF PageInv

\* An event is lost; or it is not, and the page has it.
LEMMA BehindFacts ==
    ASSUME View!Behind
    PROVE  excuse' \in {"behind", "foreign"} /\ (excuse = "foreign" => excuse' = "foreign")
BY DEF View!Behind

\* The page may be wrong: then only what it holds at all has to be right.
LEMMA PageBehind ==
    ASSUME PageInv, View!Behind, UNCHANGED <<ride, cancel, pay>>, page'.shown = page.shown, page'.socket = page.socket,
           page' \in [socket : {"closed", "connecting", "open"}, shown : View!Document \cup {View!NoRide}, inbox : Seq(Events)],
           page = View!Closed => page' = View!Closed,
           Due' \subseteq Due, emits' \in Seq(Events), InOrder(emits'),
           Len(emits') + Len(page'.inbox) <= MaxEvents,
           fetches' \in [Fetches -> Gets],
           \A f \in Fetches : fetches'[f] \in {fetches[f], View!Idle}
    PROVE  PageInv'
<1>1. excuse' \in {"behind", "foreign"} /\ (excuse = "foreign" => excuse' = "foreign")
  BY BehindFacts
<1>2. ViewTypes' /\ RideLawful'
  BY <1>1 DEF PageInv, ViewTypes, RideLawful
<1>3. EventsInv'
  BY <1>1 DEF PageInv, EventsInv, Past
<1>4. GetsInv'
  BY Shapes DEF PageInv, GetsInv, Past
<1>5. ShownInv'
  BY <1>1, Shapes DEF PageInv, ShownInv
<1>6. CatchUp'
  BY <1>1 DEF CatchUp
<1> QED BY <1>2, <1>3, <1>4, <1>5, <1>6 DEF PageInv

\* Nothing that is due on this ride is lost or comes out of turn.
LEMMA PageServed ==
    ASSUME PageInv, UNCHANGED <<ride, fetches, cancel, pay, excuse>>,
           page'.shown = page.shown, page'.socket = page.socket,
           page' \in [socket : {"closed", "connecting", "open"}, shown : View!Document \cup {View!NoRide}, inbox : Seq(Events)],
           page = View!Closed => page' = View!Closed,
           Due' \subseteq Due, \A e \in Due : ~e.foreign => e \in Due',
           emits' \in Seq(Events), InOrder(emits'),
           excuse = "none" =>
               InOrder(page'.inbox) /\ \A x \in Carried(page'.inbox), y \in Carried(emits') : Before(x, y),
           Len(emits') + Len(page'.inbox) <= MaxEvents
    PROVE  PageInv'
<1>1. ViewTypes' /\ RideLawful'
  BY DEF PageInv, ViewTypes, RideLawful
<1>2. EventsInv'
  BY DEF PageInv, EventsInv, Past
<1>3. GetsInv' /\ ShownInv'
  BY DEF PageInv, GetsInv, ShownInv, Past
<1>4. CatchUp'
  <2>1. (RideDue => RideDue') /\ (CaptureDue => CaptureDue')
    BY DEF RideDue, CaptureDue, PageInv, EventsInv
  <2>2. \A doc : Good(doc) => Good(doc)'
    BY <2>1 DEF Good
  <2>3. (Asking => Asking') /\ (GoodAnswer => GoodAnswer')
    BY <2>2 DEF Asking, GoodAnswer
  <2> QED BY <2>1, <2>2, <2>3 DEF PageInv, CatchUp
<1> QED BY <1>1, <1>2, <1>3, <1>4 DEF PageInv

LEMMA PageEmit ==
    ASSUME PageInv, NEW i \in 1 .. MaxEvents, NEW arrives \in BOOLEAN, View!Emit(i, arrives)
    PROVE  PageInv' /\ emits[i] \in Due /\ emits[i] \in Events
<1>1. /\ i \in 1 .. Len(emits) /\ emits' = View!RemoveAt(emits, i) /\ UNCHANGED <<ride, fetches, cancel, pay>>
      /\ emits \in Seq(Events) /\ page.inbox \in Seq(Events)
      /\ page \in [socket : {"closed", "connecting", "open"}, shown : View!Document \cup {View!NoRide}, inbox : Seq(Events)]
      /\ fetches \in [Fetches -> Gets] /\ Len(emits) + Len(page.inbox) <= MaxEvents /\ MaxEvents \in Nat
  BY DEF View!Emit, PageInv, ViewTypes
<1>2. /\ View!RemoveAt(emits, i) \in Seq(Events) /\ Len(View!RemoveAt(emits, i)) = Len(emits) - 1
      /\ emits[i] \in Events /\ Carried(emits) = {emits[i]} \cup Carried(View!RemoveAt(emits, i))
      /\ InOrder(emits) => InOrder(View!RemoveAt(emits, i))
      /\ InOrder(emits) /\ i = 1 => \A x \in Carried(View!RemoveAt(emits, i)) : Before(emits[1], x)
  BY <1>1, OneTaken
<1>3. /\ emits' \in Seq(Events) /\ Len(emits') = Len(emits) - 1
      /\ emits[i] \in Events /\ Carried(emits) = {emits[i]} \cup Carried(emits')
      /\ InOrder(emits') /\ (i = 1 => \A x \in Carried(emits') : Before(emits[i], x))
  BY <1>1, <1>2 DEF PageInv, EventsInv
<1>4. emits[i] \in Due
  BY <1>3 DEF Due
<1>5. CASE arrives
  <2>1. page.socket = "open" /\ page' = [page EXCEPT !.inbox = Append(@, emits[i])]
        /\ IF i = 1 THEN UNCHANGED excuse ELSE View!Behind
    BY <1>5 DEF View!Emit
  <2>2. /\ Append(page.inbox, emits[i]) \in Seq(Events)
        /\ Len(Append(page.inbox, emits[i])) = Len(page.inbox) + 1
        /\ Carried(Append(page.inbox, emits[i])) = Carried(page.inbox) \cup {emits[i]}
        /\ InOrder(page.inbox) /\ (\A x \in Carried(page.inbox) : Before(x, emits[i]))
              => InOrder(Append(page.inbox, emits[i]))
    BY <1>1, <1>3, Appended
  <2>3. /\ page'.inbox = Append(page.inbox, emits[i]) /\ page'.shown = page.shown /\ page'.socket = page.socket
        /\ page' \in [socket : {"closed", "connecting", "open"}, shown : View!Document \cup {View!NoRide}, inbox : Seq(Events)]
        /\ page # View!Closed
    BY <1>1, <2>1, <2>2, Shapes
  <2>4. Due' = Due
    BY <1>3, <2>2, <2>3 DEF Due
  <2>5. Len(emits') + Len(page'.inbox) <= MaxEvents
    BY <1>1, <1>3, <2>2, <2>3
  <2>6. CASE i = 1
    <3>1. excuse' = excuse
      BY <2>1, <2>6
    <3>2. ASSUME excuse = "none"
          PROVE  InOrder(page'.inbox) /\ \A x \in Carried(page'.inbox), y \in Carried(emits') : Before(x, y)
      BY <1>3, <2>2, <2>3, <2>6, <3>2 DEF PageInv, EventsInv
    <3> QED BY <1>1, <1>3, <1>4, <2>3, <2>4, <2>5, <3>1, <3>2, PageServed
  <2>7. CASE i # 1
    BY <1>1, <1>3, <1>4, <2>1, <2>3, <2>4, <2>5, <2>7, PageBehind
  <2> QED BY <2>6, <2>7
<1>6. CASE ~arrives
  <2>1. page' = page /\ IF emits[i].foreign THEN UNCHANGED excuse ELSE View!Behind
    BY <1>6 DEF View!Emit
  <2>2. Due = Due' \cup {emits[i]} /\ Len(emits') + Len(page'.inbox) <= MaxEvents
    BY <1>1, <1>3, <2>1 DEF Due
  <2>3. CASE emits[i].foreign
    <3>1. ASSUME excuse = "none"
          PROVE  InOrder(page'.inbox) /\ \A x \in Carried(page'.inbox), y \in Carried(emits') : Before(x, y)
      BY <1>3, <2>1, <3>1 DEF PageInv, EventsInv
    <3> QED BY <1>1, <1>3, <1>4, <2>1, <2>2, <2>3, <3>1, PageServed
  <2>4. CASE ~emits[i].foreign
    BY <1>1, <1>3, <1>4, <2>1, <2>2, <2>4, PageBehind
  <2> QED BY <2>3, <2>4
<1> QED BY <1>3, <1>4, <1>5, <1>6

LEMMA PageThrows ==
    ASSUME PageInv, NEW i \in 1 .. MaxEvents, View!OperationThrows(i)
    PROVE  PageInv'
<1>1. /\ i \in 1 .. Len(emits) /\ emits' = View!RemoveAt(emits, i) /\ UNCHANGED <<ride, page, fetches, cancel, pay>>
      /\ View!Behind /\ emits \in Seq(Events) /\ page.inbox \in Seq(Events)
      /\ page \in [socket : {"closed", "connecting", "open"}, shown : View!Document \cup {View!NoRide}, inbox : Seq(Events)]
      /\ fetches \in [Fetches -> Gets] /\ Len(emits) + Len(page.inbox) <= MaxEvents /\ MaxEvents \in Nat
  BY DEF View!OperationThrows, View!riderVars, PageInv, ViewTypes
<1>2. /\ View!RemoveAt(emits, i) \in Seq(Events) /\ Len(View!RemoveAt(emits, i)) = Len(emits) - 1
      /\ Carried(emits) = {emits[i]} \cup Carried(View!RemoveAt(emits, i))
      /\ InOrder(emits) => InOrder(View!RemoveAt(emits, i))
  BY <1>1, OneTaken
<1>3. /\ emits' \in Seq(Events) /\ Len(emits') = Len(emits) - 1 /\ Carried(emits') \subseteq Carried(emits)
      /\ InOrder(emits')
  BY <1>1, <1>2 DEF PageInv, EventsInv
<1>4. Due' \subseteq Due /\ Len(emits') + Len(page'.inbox) <= MaxEvents
  BY <1>1, <1>3 DEF Due
<1> QED BY <1>1, <1>3, <1>4, PageBehind

-----------------------------------------------------------------------------
(* What the page does.                                                     *)

LEMMA EventsKeep ==
    ASSUME PageInv, UNCHANGED <<ride, emits>>, Carried(page'.inbox) \subseteq Carried(page.inbox),
           InOrder(page.inbox) => InOrder(page'.inbox),
           excuse' = "none" => excuse = "none" \/ page'.inbox = <<>>
    PROVE  EventsInv'
<1>1. Due' \subseteq Due /\ Past(View!NoRide)' = Past(View!NoRide)
  BY DEF Due, Past
<1>2. excuse' = "none" => /\ InOrder(page'.inbox)
                          /\ \A x \in Carried(page'.inbox), y \in Carried(emits) : Before(x, y)
  BY NothingCarried DEF PageInv, EventsInv
<1> QED BY <1>1, <1>2 DEF PageInv, EventsInv, Past

\* What is not older than the ride shown is what comes after it.
LEMMA NotOlder ==
    ASSUME ride \in View!Document, NEW doc, Past(doc), NEW shown \in View!Document \cup {View!NoRide},
           shown # View!NoRide => Upto(shown, ride) /\ Lawful(shown), ~View!Older(doc, shown)
    PROVE  shown = View!NoRide \/ Upto(shown, doc)
BY PastOrder DEF Past, View!Older, Upto

\* An event that is not older than the ride shown leaves the page with its ride.
LEMMA EventShown ==
    ASSUME PageInv, excuse = "none", page.shown # View!NoRide, page.inbox # <<>>,
           NEW e \in Events, e = Head(page.inbox), ~e.foreign, ~View!Older(e.doc, page.shown)
    PROVE  /\ Past(e.doc) /\ Upto(page.shown, e.doc)
           /\ e.kind # "captured" => [page.shown EXCEPT !.status = e.doc.status] = e.doc
<1>1. /\ ride \in View!Document /\ page.shown \in View!Document /\ e.doc \in View!Document
      /\ Carried(page.inbox) = {e} \cup Carried(Tail(page.inbox))
      /\ \A x \in Carried(Tail(page.inbox)) : Before(e, x)
      /\ \A x \in Carried(emits) : Before(e, x)
  <2>1. page.inbox \in Seq(Events)
    BY DEF PageInv, ViewTypes
  <2>2. /\ Carried(page.inbox) = {Head(page.inbox)} \cup Carried(Tail(page.inbox))
        /\ InOrder(page.inbox) => \A x \in Carried(Tail(page.inbox)) : Before(Head(page.inbox), x)
    BY <2>1, FirstTaken
  <2> QED BY <2>2 DEF PageInv, ViewTypes, EventsInv, Events
<1>2. Past(e.doc)
  BY <1>1 DEF PageInv, EventsInv, Due
<1>3. Upto(page.shown, e.doc)
  BY <1>1, <1>2, NotOlder DEF PageInv, ShownInv
<1>4. ASSUME e.kind # "captured", e.doc.paid PROVE page.shown.paid
  <2> SUFFICES ASSUME ~page.shown.paid PROVE FALSE
    BY <1>1 DEF View!Document
  <2>1. ride.paid
    BY <1>2, <1>4 DEF Past, Upto
  <2>2. page.socket # "closed"
    BY Shapes DEF PageInv, ShownInv
  <2>3. PICK x \in Due : x.kind = "captured"
    BY <2>1, <2>2 DEF PageInv, CatchUp, CaptureDue
  <2>4. x # e /\ ~x.foreign /\ Past(x.doc) /\ x.doc.paid /\ x.doc.status = "ARRIVED_AT_DESTINATION"
    BY <1>4, <2>3 DEF PageInv, EventsInv
  <2>5. Upto(e.doc, x.doc) /\ e.doc # x.doc
    BY <1>1, <2>3, <2>4 DEF Due, Before
  <2>6. e.doc.status \in View!RideStatus /\ e.doc.status \in AtDestination
    BY <1>1, <1>2, <1>4 DEF Past, Lawful, AtDestination, View!Document
  <2>7. e.doc.status = "ARRIVED_AT_DESTINATION"
    BY <2>4, <2>5, <2>6, ReachedFacts, Statuses DEF Upto, After, AtDestination
  <2> QED BY <1>1, <1>4, <2>4, <2>5, <2>7 DEF Past, View!Document
<1>5. e.kind # "captured" => page.shown.paid = e.doc.paid
  BY <1>1, <1>3, <1>4 DEF Upto, View!Document
<1> QED BY <1>1, <1>2, <1>3, <1>5 DEF View!Document

\* The event in turn is shown.
LEMMA InTurn ==
    ASSUME PageInv, excuse = "none", page.shown # View!NoRide, page.inbox # <<>>,
           NEW e \in Events, e = Head(page.inbox), ~e.foreign, Past(e.doc), Upto(page.shown, e.doc),
           page' = [page EXCEPT !.inbox = Tail(@), !.shown = e.doc],
           UNCHANGED <<ride, emits, fetches, cancel, pay, excuse>>
    PROVE  ShownInv' /\ CatchUp'
<1>1. /\ ride \in View!Document /\ page.shown \in View!Document /\ e.doc \in View!Document
      /\ Carried(page.inbox) = {e} \cup Carried(Tail(page.inbox))
      /\ page'.shown = e.doc /\ page'.inbox = Tail(page.inbox) /\ page'.socket = page.socket
  <2>1. page.inbox \in Seq(Events)
    BY DEF PageInv, ViewTypes
  <2>2. Carried(page.inbox) = {Head(page.inbox)} \cup Carried(Tail(page.inbox))
    BY <2>1, FirstTaken
  <2> QED BY <2>2 DEF PageInv, ViewTypes, Events
<1>2. Due = {e} \cup Due'
  BY <1>1 DEF Due
<1>3. page.socket # "closed" /\ e.doc # View!NoRide
  BY <1>1, Shapes DEF PageInv, ShownInv
<1>4. ShownInv'
  <2>1. page.shown.status \in AtDestination => e.doc.status \in AtDestination
    BY <1>1, ReachedFacts, Statuses DEF Upto, After, AtDestination, View!Document
  <2> QED BY <1>1, <1>3, <2>1 DEF PageInv, ShownInv, Past
<1>5. e.kind = "captured" => e.doc.paid
  BY <1>2 DEF PageInv, EventsInv
<1>6. page.shown.paid => e.doc.paid
  BY DEF Upto
<1>7. CaptureDue => CaptureDue' \/ e.doc.paid
  BY <1>2, <1>5 DEF CaptureDue
<1>8. ride.paid /\ ~e.doc.paid => CaptureDue'
  BY <1>3, <1>6, <1>7 DEF PageInv, CatchUp
<1>9. ASSUME NEW f \in Fetches, fetches[f].pc = "answered", ride.paid, ~fetches[f].got.paid
      PROVE  CaptureDue' \/ e.doc.paid
  BY <1>3, <1>6, <1>7, <1>9 DEF PageInv, CatchUp
<1>10. e.doc # ride => (RideDue => RideDue')
  BY <1>2 DEF RideDue
<1>11. e.doc = ride \/ RideDue' \/ cancel = "done" => Good(e.doc)'
  BY <1>8 DEF Good
<1>12. Asking' \/ GoodAnswer' \/ Good(e.doc)'
  <2>1. CASE Asking
    BY <2>1 DEF Asking
  <2>2. CASE GoodAnswer
    <3>1. PICK f \in Fetches : fetches[f].pc = "answered" /\ Good(fetches[f].got)
      BY <2>2 DEF GoodAnswer
    <3>2. CASE fetches[f].got = ride
      <4>1. Good(fetches[f].got)'
        BY <3>2 DEF Good
      <4> QED BY <3>1, <4>1 DEF GoodAnswer
    <3>3. CASE fetches[f].got # ride
      BY <1>10, <1>11, <3>1, <3>3 DEF Good
    <3> QED BY <3>2, <3>3
  <2>3. CASE Good(page.shown)
    <3>1. page.shown = ride => e.doc = ride
      BY <1>1, PastOrder DEF Past
    <3> QED BY <1>10, <1>11, <2>3, <3>1 DEF Good
  <2> QED BY <1>3, <2>1, <2>2, <2>3 DEF PageInv, CatchUp
<1>13. CatchUp'
  BY <1>1, <1>3, <1>8, <1>9, <1>12 DEF CatchUp
<1> QED BY <1>4, <1>13

\* A GET is sent: what was good stays so.
LEMMA Sends ==
    ASSUME PageInv, NEW f \in View!Free, NEW for \in {"page", "preview"}, View!Start(f, for),
           UNCHANGED <<ride, cancel>>, page'.shown = page.shown, page'.socket = page.socket,
           CaptureDue => CaptureDue', RideDue => RideDue' \/ for = "page"
    PROVE  /\ fetches' \in [Fetches -> Gets] /\ GetsInv'
           /\ excuse = "none" => CatchUp'
<1>1. /\ f \in Fetches /\ fetches \in [Fetches -> Gets] /\ fetches[f].pc = "idle"
      /\ fetches' = [fetches EXCEPT ![f] = [pc |-> "asked", for |-> for, got |-> View!NoRide]]
  BY DEF View!Free, View!Start, PageInv, ViewTypes
<1>2. [pc |-> "asked", for |-> for, got |-> View!NoRide] \in Gets
  BY DEF Gets
<1>3. fetches' \in [Fetches -> Gets] /\ fetches'[f].pc = "asked" /\ fetches'[f].for = for
      /\ \A g \in Fetches \ {f} : fetches'[g] = fetches[g]
  BY <1>1, <1>2
<1>4. GetsInv'
  BY <1>3 DEF PageInv, GetsInv, Past
<1>5. ASSUME excuse = "none" PROVE CatchUp'
  <2>1. Asking => Asking'
    BY <1>1, <1>3 DEF Asking
  <2>2. for = "page" => Asking'
    BY <1>1, <1>3 DEF Asking
  <2>3. for # "page" => \A doc : Good(doc) => Good(doc)'
    BY DEF Good
  <2>4. for # "page" => (GoodAnswer => GoodAnswer')
    BY <1>1, <1>3, <2>3 DEF GoodAnswer
  <2>5. \A g \in Fetches : fetches'[g].pc = "answered" => fetches[g] = fetches'[g]
    BY <1>3
  <2> QED BY <1>5, <2>1, <2>2, <2>3, <2>4, <2>5 DEF PageInv, CatchUp
<1> QED BY <1>3, <1>4, <1>5

LEMMA PageReceives ==
    ASSUME PageInv, View!Receive
    PROVE  PageInv'
<1> DEFINE e == Head(page.inbox)
<1>1. /\ page.inbox # <<>> /\ page.inbox \in Seq(Events) /\ UNCHANGED <<ride, emits, cancel, pay>>
      /\ page \in [socket : {"closed", "connecting", "open"}, shown : View!Document \cup {View!NoRide}, inbox : Seq(Events)]
      /\ fetches \in [Fetches -> Gets] /\ Len(emits) + Len(page.inbox) <= MaxEvents
      /\ MaxEvents \in Nat /\ emits \in Seq(Events) /\ ride \in View!Document
  BY DEF View!Receive, View!serverVars, PageInv, ViewTypes
<1>2. /\ Tail(page.inbox) \in Seq(Events) /\ Len(Tail(page.inbox)) = Len(page.inbox) - 1
      /\ e \in Events /\ Carried(page.inbox) = {e} \cup Carried(Tail(page.inbox))
      /\ InOrder(page.inbox) => InOrder(Tail(page.inbox))
  BY <1>1, FirstTaken
<1>3. PICK shown : /\ page' = [page EXCEPT !.inbox = Tail(@), !.shown = shown]
                   /\ shown \in {page.shown, [page.shown EXCEPT !.status = e.doc.status], e.doc}
                   /\ page.shown = View!NoRide => shown = View!NoRide
  BY DEF View!Receive
<1>4. e.doc \in View!Document /\ e.doc.status \in View!RideStatus /\ page # View!Closed /\ page.socket # "closed"
  BY <1>1, <1>2, Shapes DEF Events, View!Document, PageInv, ShownInv
<1>5. /\ shown \in View!Document \cup {View!NoRide} /\ (page.shown # View!NoRide => shown # View!NoRide)
      /\ page'.shown = shown /\ page'.inbox = Tail(page.inbox) /\ page'.socket = page.socket
      /\ page' \in [socket : {"closed", "connecting", "open"}, shown : View!Document \cup {View!NoRide}, inbox : Seq(Events)]
  <2>1. page.shown # View!NoRide => shown \in View!Document
    BY <1>1, <1>3, <1>4 DEF View!Document
  <2>2. shown \in View!Document \cup {View!NoRide} /\ (page.shown # View!NoRide => shown # View!NoRide)
    BY <1>3, <2>1, Shapes
  <2> QED BY <1>1, <1>2, <1>3, <2>2
<1>6. Len(emits') + Len(page'.inbox) <= MaxEvents
  BY <1>1, <1>2, <1>5
<1>7. Due = {e} \cup Due'
  BY <1>1, <1>2, <1>5 DEF Due
<1> HIDE DEF e
<1>8. CASE /\ e.kind = "accepted" /\ excuse' = excuse /\ shown = page.shown
           /\ \E f \in View!Free : View!Start(f, "page")
  <2>1. PICK f \in View!Free : View!Start(f, "page")
    BY <1>8
  <2>2. CaptureDue => CaptureDue'
    BY <1>7, <1>8 DEF CaptureDue
  <2>3. fetches' \in [Fetches -> Gets] /\ GetsInv' /\ (excuse = "none" => CatchUp')
    BY <1>1, <1>5, <1>8, <2>1, <2>2, Sends
  <2>4. ViewTypes' /\ RideLawful'
    BY <1>1, <1>5, <1>6, <1>8, <2>3 DEF PageInv, ViewTypes, RideLawful
  <2>5. EventsInv'
    BY <1>1, <1>2, <1>5, <1>8, EventsKeep
  <2>6. ShownInv' /\ CatchUp'
    BY <1>1, <1>4, <1>5, <1>8, <2>3 DEF PageInv, ShownInv, CatchUp
  <2> QED BY <2>3, <2>4, <2>5, <2>6 DEF PageInv
<1>9. CASE shown = page.shown /\ View!Behind /\ fetches' = fetches
  BY <1>1, <1>2, <1>4, <1>5, <1>6, <1>7, <1>9, PageBehind DEF PageInv, EventsInv
<1>10. CASE /\ page.shown # View!NoRide /\ fetches' = fetches
            /\ \/ e.kind = "status" /\ shown = [page.shown EXCEPT !.status = e.doc.status]
               \/ e.kind = "captured" /\ shown = e.doc /\ ~e.foreign
            /\ IF e.foreign THEN excuse' = "foreign"
               ELSE IF View!Older(e.doc, page.shown) THEN View!Behind ELSE UNCHANGED excuse
  <2>1. /\ excuse' \in {"none", "behind", "foreign"}
        /\ excuse' = "none" => excuse = "none" /\ ~e.foreign /\ ~View!Older(e.doc, page.shown)
        /\ excuse' # "foreign" => excuse # "foreign" /\ ~e.foreign
    BY <1>10, BehindFacts DEF PageInv, ViewTypes
  <2>2. ViewTypes' /\ RideLawful' /\ GetsInv'
    BY <1>1, <1>5, <1>6, <1>10, <2>1 DEF PageInv, ViewTypes, RideLawful, GetsInv, Past
  <2>3. EventsInv'
    BY <1>1, <1>2, <1>5, <2>1, EventsKeep
  <2>4. CASE excuse' = "none"
    <3>1. Past(e.doc) /\ Upto(page.shown, e.doc) /\ shown = e.doc
      BY <1>1, <1>2, <1>10, <2>1, <2>4, EventShown DEF e
    <3>2. ShownInv' /\ CatchUp'
      BY <1>1, <1>2, <1>3, <1>10, <2>1, <2>4, <3>1, InTurn DEF e
    <3> QED BY <2>2, <2>3, <3>2 DEF PageInv
  <2>5. CASE excuse' # "none"
    <3>1. ASSUME excuse' # "foreign" PROVE Upto(shown, ride)
      <4>1. Upto(page.shown, ride) /\ Past(e.doc)
        BY <1>7, <1>10, <2>1, <3>1 DEF PageInv, ShownInv, EventsInv
      <4>2. shown.status = e.doc.status /\ shown.paid \in {page.shown.paid, e.doc.paid}
        BY <1>1, <1>4, <1>10 DEF View!Document
      <4> QED BY <4>1, <4>2 DEF Past, Upto
    <3>2. ShownInv'
      BY <1>1, <1>4, <1>5, <1>10, <2>5, <3>1 DEF PageInv, ShownInv
    <3>3. CatchUp'
      BY <2>5 DEF CatchUp
    <3> QED BY <2>2, <2>3, <3>2, <3>3 DEF PageInv
  <2> QED BY <2>4, <2>5
<1>11. e.kind = "captured" => ~e.foreign
  BY <1>7 DEF PageInv, EventsInv
<1> QED
  <2>1. \/ /\ e.kind = "accepted"
           /\ \E f \in View!Free : View!Start(f, "page")
           /\ page' = [page EXCEPT !.inbox = Tail(@), !.shown = page.shown]
           /\ excuse' = excuse
        \/ /\ e.kind # "accepted" /\ page.shown = View!NoRide
           /\ page' = [page EXCEPT !.inbox = Tail(@), !.shown = View!NoRide]
           /\ View!Behind
           /\ fetches' = fetches
        \/ /\ e.kind = "status" /\ page.shown # View!NoRide
           /\ page' = [page EXCEPT !.inbox = Tail(@), !.shown = [page.shown EXCEPT !.status = e.doc.status]]
           /\ IF e.foreign THEN excuse' = "foreign"
              ELSE IF View!Older(e.doc, page.shown) THEN View!Behind ELSE UNCHANGED excuse
           /\ fetches' = fetches
        \/ /\ e.kind = "captured" /\ page.shown # View!NoRide
           /\ page' = [page EXCEPT !.inbox = Tail(@), !.shown = e.doc]
           /\ IF View!Older(e.doc, page.shown) THEN View!Behind ELSE UNCHANGED excuse
           /\ fetches' = fetches
    BY DEF View!Receive, e
  <2>2. \A doc : page' = [page EXCEPT !.inbox = Tail(@), !.shown = doc] => shown = doc
    BY <1>1, <1>5
  <2> QED BY <1>8, <1>9, <1>10, <1>11, <2>1, <2>2

LEMMA PageOpens ==
    ASSUME PageInv, View!OpenPage
    PROVE  PageInv'
<1>1. /\ page = View!Closed /\ page' = [View!Closed EXCEPT !.socket = "connecting"] /\ excuse' = "none"
      /\ UNCHANGED <<ride, emits, cancel, pay>> /\ \A f \in Fetches : fetches[f] = View!Idle
      /\ cancel \in {"none", "left"} /\ pay \in {"none", "left"}
  BY DEF View!OpenPage, View!serverVars
<1>2. /\ page'.socket = "connecting" /\ page'.shown = View!NoRide /\ page'.inbox = <<>>
      /\ page' \in [socket : {"closed", "connecting", "open"}, shown : View!Document \cup {View!NoRide}, inbox : Seq(Events)]
      /\ page.inbox = <<>>
  BY <1>1, Shapes
<1>3. PICK f \in Fetches : fetches' = [fetches EXCEPT ![f] = [pc |-> "asked", for |-> "page", got |-> View!NoRide]]
  BY DEF View!OpenPage, View!Start
<1>4. [pc |-> "asked", for |-> "page", got |-> View!NoRide] \in Gets
  BY DEF Gets
<1>5. /\ fetches' \in [Fetches -> Gets] /\ fetches'[f].pc = "asked" /\ fetches'[f].for = "page"
      /\ \A g \in Fetches : fetches'[g].pc # "answered"
  BY <1>1, <1>3, <1>4, Shapes DEF PageInv, ViewTypes
<1>6. ViewTypes' /\ RideLawful' /\ GetsInv'
  BY <1>1, <1>2, <1>5 DEF PageInv, ViewTypes, RideLawful, GetsInv
<1>7. EventsInv'
  BY <1>1, <1>2, NothingCarried, EventsKeep
<1>8. ShownInv'
  BY <1>1, <1>2 DEF ShownInv
<1>9. CatchUp'
  BY <1>1, <1>2, <1>5 DEF CatchUp, Asking
<1> QED BY <1>6, <1>7, <1>8, <1>9 DEF PageInv

LEMMA PageConnects ==
    ASSUME PageInv, View!Connected
    PROVE  PageInv'
<1>1. /\ page.socket = "connecting" /\ page' = [page EXCEPT !.socket = "open"]
      /\ UNCHANGED <<ride, emits, fetches, cancel, pay, excuse>>
      /\ page \in [socket : {"closed", "connecting", "open"}, shown : View!Document \cup {View!NoRide}, inbox : Seq(Events)]
  BY DEF View!Connected, View!serverVars, PageInv, ViewTypes
<1>2. page'.socket = "open" /\ page'.shown = page.shown /\ page'.inbox = page.inbox
      /\ page' \in [socket : {"closed", "connecting", "open"}, shown : View!Document \cup {View!NoRide}, inbox : Seq(Events)]
  BY <1>1
<1>3. ViewTypes' /\ RideLawful' /\ GetsInv' /\ ShownInv'
  BY <1>1, <1>2 DEF PageInv, ViewTypes, RideLawful, GetsInv, ShownInv, Past
<1>4. EventsInv'
  BY <1>1, <1>2 DEF PageInv, EventsInv, Due, Past
<1>5. CatchUp'
  BY <1>1, <1>2 DEF PageInv, CatchUp, CaptureDue, RideDue, Due, Good, Asking, GoodAnswer
<1> QED BY <1>3, <1>4, <1>5 DEF PageInv

LEMMA PageCloses ==
    ASSUME PageInv, View!ClosePage
    PROVE  PageInv'
<1>1. /\ page' = View!Closed /\ fetches' = [f \in Fetches |-> View!Idle]
      /\ cancel' \in {"none", "left"}
      /\ pay' = (IF pay \in {"checkout", "left"} THEN "left" ELSE "none")
      /\ UNCHANGED <<ride, emits, excuse>>
  BY DEF View!ClosePage, View!serverVars
<1>2. page'.inbox = <<>> /\ Carried(page'.inbox) = {} /\ InOrder(page'.inbox)
  BY <1>1, NothingCarried, Shapes
<1>3. ViewTypes'
  <2>1. /\ page' \in [socket : {"closed", "connecting", "open"}, shown : View!Document \cup {View!NoRide}, inbox : Seq(Events)]
        /\ fetches' \in [Fetches -> Gets] /\ Len(page'.inbox) = 0
    BY <1>1, <1>2, Shapes
  <2>2. emits \in Seq(Events) /\ page.inbox \in Seq(Events) /\ Len(emits) + Len(page.inbox) <= MaxEvents
        /\ MaxEvents \in Nat
    BY DEF PageInv, ViewTypes
  <2>3. Len(emits') + Len(page'.inbox) <= MaxEvents
    BY <1>1, <2>1, <2>2
  <2> QED BY <1>1, <2>1, <2>3 DEF PageInv, ViewTypes
<1>4. RideLawful' /\ GetsInv' /\ ShownInv' /\ CatchUp'
  BY <1>1, Shapes DEF PageInv, RideLawful, GetsInv, ShownInv, CatchUp
<1>5. EventsInv'
  BY <1>1, <1>2, EventsKeep
<1> QED BY <1>3, <1>4, <1>5 DEF PageInv

\* Nothing but the page's GETs, pay and what it shows changes.
LEMMA DueSame ==
    ASSUME UNCHANGED <<ride, emits, cancel>>, page'.inbox = page.inbox
    PROVE  Due' = Due /\ RideDue' = RideDue /\ CaptureDue' = CaptureDue /\ \A doc : Good(doc)' = Good(doc)
<1>1. Due' = Due
  BY DEF Due
<1>2. RideDue' = RideDue /\ CaptureDue' = CaptureDue
  BY <1>1 DEF RideDue, CaptureDue
<1> QED BY <1>1, <1>2 DEF Good

LEMMA GetAnswers ==
    ASSUME PageInv, NEW f \in Fetches, View!Answer(f)
    PROVE  PageInv'
<1>1. /\ fetches[f].pc = "asked" /\ UNCHANGED <<ride, emits, page, cancel, pay, excuse>>
      /\ \/ /\ fetches[f].for = "preview" => ride.status \in AtDestination
            /\ fetches' = [fetches EXCEPT ![f].pc = "answered", ![f].got = ride]
         \/ fetches' = [fetches EXCEPT ![f].pc = "failed"]
      /\ fetches \in [Fetches -> Gets] /\ ride \in View!Document
  BY DEF View!Answer, View!serverVars, PageInv, ViewTypes, AtDestination
<1>2. /\ fetches' \in [Fetches -> Gets] /\ fetches'[f].for = fetches[f].for
      /\ \/ fetches'[f].pc = "failed"
         \/ fetches'[f].pc = "answered" /\ fetches'[f].got = ride
            /\ (fetches[f].for = "preview" => ride.status \in AtDestination)
      /\ \A g \in Fetches \ {f} : fetches'[g] = fetches[g]
  BY <1>1 DEF Gets
<1>3. Past(ride) /\ Good(ride)
  BY <1>1, PastOrder DEF Past, Good, PageInv, RideLawful
<1>4. \A doc : Past(doc)' = Past(doc) /\ Good(doc)' = Good(doc)
  BY <1>1, DueSame DEF Past
<1>5. ViewTypes' /\ RideLawful'
  BY <1>1, <1>2 DEF PageInv, ViewTypes, RideLawful
<1>6. EventsInv'
  BY <1>1, EventsKeep
<1>7. GetsInv'
  BY <1>2, <1>3, <1>4 DEF PageInv, GetsInv
<1>8. ShownInv'
  BY <1>1, Shapes DEF PageInv, ShownInv
<1>9. CatchUp'
  <2>1. CaptureDue' = CaptureDue
    BY <1>1, DueSame
  <2>2. Asking => Asking' \/ GoodAnswer'
    <3> SUFFICES ASSUME NEW g \in Fetches, fetches[g].for = "page", fetches[g].pc \in {"asked", "failed"}
                 PROVE  Asking' \/ GoodAnswer'
      BY DEF Asking
    <3>1. CASE g = f /\ fetches'[f].pc = "answered"
      <4>1. Good(fetches[f].got)'
        BY <1>1, <1>2, <3>1 DEF Good
      <4> QED BY <3>1, <4>1 DEF GoodAnswer
    <3>2. CASE ~(g = f /\ fetches'[f].pc = "answered")
      <4>1. fetches'[g].for = "page" /\ fetches'[g].pc \in {"asked", "failed"}
        BY <1>2, <3>2
      <4> QED BY <4>1 DEF Asking
    <3> QED BY <3>1, <3>2
  <2>3. GoodAnswer => GoodAnswer'
    <3> SUFFICES ASSUME NEW g \in Fetches, fetches[g].pc = "answered", Good(fetches[g].got) PROVE GoodAnswer'
      BY DEF GoodAnswer
    <3>1. fetches'[g] = fetches[g]
      BY <1>1, <1>2
    <3>2. Good(fetches[g].got)'
      BY <1>1, <2>1, <3>1, DueSame DEF Good
    <3> QED BY <3>1, <3>2 DEF GoodAnswer
  <2>4. page' = page /\ ride' = ride /\ excuse' = excuse
    BY <1>1
  <2>5. \A g \in Fetches : fetches'[g].pc = "answered" => fetches'[g].got = ride \/ fetches'[g] = fetches[g]
    BY <1>2
  <2> QED BY <1>4, <2>1, <2>2, <2>3, <2>4, <2>5 DEF PageInv, CatchUp
<1> QED BY <1>5, <1>6, <1>7, <1>8, <1>9 DEF PageInv

LEMMA GetShown ==
    ASSUME PageInv, NEW f \in Fetches, View!Answered(f)
    PROVE  PageInv'
<1> DEFINE got == fetches[f].got
<1>1. /\ fetches[f].pc = "answered" /\ page' = [page EXCEPT !.shown = got]
      /\ fetches' = [fetches EXCEPT ![f] = View!Idle] /\ UNCHANGED <<ride, emits, cancel>>
      /\ pay' = (IF fetches[f].for = "preview" THEN "ordering" ELSE pay)
      /\ IF View!Older(got, page.shown) THEN View!Behind ELSE UNCHANGED excuse
      /\ page \in [socket : {"closed", "connecting", "open"}, shown : View!Document \cup {View!NoRide}, inbox : Seq(Events)]
      /\ fetches \in [Fetches -> Gets] /\ ride \in View!Document
  BY DEF View!Answered, View!serverVars, PageInv, ViewTypes
<1>2. /\ Past(got) /\ got \in View!Document /\ got # View!NoRide
      /\ fetches[f].for = "preview" => got.status \in AtDestination
      /\ page.socket # "closed"
  BY <1>1, Shapes DEF PageInv, GetsInv, Past, ShownInv
<1> HIDE DEF got
<1>3. /\ page'.shown = got /\ page'.inbox = page.inbox /\ page'.socket = page.socket
      /\ page' \in [socket : {"closed", "connecting", "open"}, shown : View!Document \cup {View!NoRide}, inbox : Seq(Events)]
      /\ fetches' \in [Fetches -> Gets] /\ fetches'[f] = View!Idle
      /\ \A g \in Fetches \ {f} : fetches'[g] = fetches[g]
  BY <1>1, <1>2, Shapes
<1>4. /\ excuse' \in {"none", "behind", "foreign"}
      /\ excuse' = "none" => excuse = "none" /\ ~View!Older(got, page.shown)
      /\ excuse' # "foreign" => excuse # "foreign"
  BY <1>1, BehindFacts DEF PageInv, ViewTypes
<1>5. excuse' = "none" => page.shown = View!NoRide \/ Upto(page.shown, got)
  BY <1>1, <1>2, <1>4, NotOlder DEF PageInv, ShownInv
<1>6. ViewTypes' /\ RideLawful'
  BY <1>1, <1>3, <1>4 DEF PageInv, ViewTypes, RideLawful
<1>7. EventsInv'
  BY <1>1, <1>3, <1>4, EventsKeep
<1>8. GetsInv'
  BY <1>1, <1>3, Shapes DEF PageInv, GetsInv, Past
<1>9. ShownInv'
  <2>1. excuse' = "none" /\ page.shown.status \in AtDestination => got.status \in AtDestination
    BY <1>1, <1>2, <1>5, ReachedFacts, Statuses, Shapes DEF Upto, After, AtDestination, View!Document
  <2> QED BY <1>1, <1>2, <1>3, <1>4, <2>1 DEF PageInv, ShownInv, Past
<1>10. CatchUp'
  <2> SUFFICES ASSUME excuse' = "none" PROVE CatchUp'
    BY DEF CatchUp
  <2>1. excuse = "none" /\ CaptureDue' = CaptureDue /\ RideDue' = RideDue /\ ride' = ride /\ cancel' = cancel
        /\ \A doc : Good(doc)' = Good(doc)
    BY <1>1, <1>3, <1>4, DueSame
  <2>2. page.shown.paid => got.paid
    BY <1>5, Shapes DEF Upto
  <2>3. ride.paid /\ ~got.paid => CaptureDue
    BY <1>1, <1>2, <2>1, <2>2 DEF PageInv, CatchUp, got
  <2>4. ASSUME NEW g \in Fetches, fetches'[g].pc = "answered", ride.paid, ~fetches'[g].got.paid
        PROVE  CaptureDue \/ got.paid
    <3>1. fetches'[g] = fetches[g]
      BY <1>3, <2>4, Shapes
    <3> QED BY <1>2, <2>1, <2>2, <2>4, <3>1 DEF PageInv, CatchUp
  <2>5. Asking => Asking'
    BY <1>1, <1>3 DEF Asking
  <2>6. GoodAnswer => GoodAnswer' \/ Good(got)
    <3> SUFFICES ASSUME NEW g \in Fetches, fetches[g].pc = "answered", Good(fetches[g].got)
                 PROVE  GoodAnswer' \/ Good(got)
      BY DEF GoodAnswer
    <3>1. CASE g = f
      BY <3>1 DEF got
    <3>2. CASE g # f
      <4>1. fetches'[g] = fetches[g]
        BY <1>3, <3>2
      <4>2. Good(fetches[g].got)'
        BY <2>1, <4>1 DEF Good
      <4> QED BY <4>1, <4>2 DEF GoodAnswer
    <3> QED BY <3>1, <3>2
  <2>7. page.shown # View!NoRide /\ Good(page.shown) => Good(got)
    <3>1. page.shown # View!NoRide /\ page.shown = ride => got = ride
      BY <1>1, <1>2, <1>5, PastOrder DEF Past
    <3> QED BY <2>3, <3>1 DEF Good
  <2>8. Good(got) => Good(page.shown)'
    BY <1>3, <2>1 DEF Good
  <2> QED BY <1>2, <1>3, <2>1, <2>3, <2>4, <2>5, <2>6, <2>7, <2>8 DEF PageInv, CatchUp
<1> QED BY <1>6, <1>7, <1>8, <1>9, <1>10 DEF PageInv

LEMMA GetFails ==
    ASSUME PageInv, NEW f \in Fetches, View!FetchFailed(f)
    PROVE  PageInv'
<1>1. /\ fetches[f].pc = "failed" /\ fetches' = [fetches EXCEPT ![f] = View!Idle]
      /\ UNCHANGED <<ride, emits, page, cancel>>
      /\ pay' = (IF fetches[f].for = "preview" THEN "none" ELSE pay)
      /\ IF fetches[f].for = "preview" THEN UNCHANGED excuse ELSE View!Behind
      /\ fetches \in [Fetches -> Gets]
  BY DEF View!FetchFailed, View!serverVars, PageInv, ViewTypes
<1>2. /\ fetches' \in [Fetches -> Gets] /\ fetches'[f] = View!Idle
      /\ \A g \in Fetches \ {f} : fetches'[g] = fetches[g]
  BY <1>1, Shapes
<1>3. /\ excuse' \in {"none", "behind", "foreign"} /\ (excuse' # "foreign" => excuse # "foreign")
      /\ excuse' = "none" => excuse = "none" /\ fetches[f].for = "preview"
  BY <1>1, BehindFacts DEF PageInv, ViewTypes
<1>4. ViewTypes' /\ RideLawful'
  BY <1>1, <1>2, <1>3 DEF PageInv, ViewTypes, RideLawful
<1>5. EventsInv'
  BY <1>1, <1>3, EventsKeep
<1>6. GetsInv'
  BY <1>1, <1>2, Shapes DEF PageInv, GetsInv, Past
<1>7. ShownInv'
  BY <1>1, <1>2, <1>3 DEF PageInv, ShownInv
<1>8. CatchUp'
  <2> SUFFICES ASSUME excuse' = "none" PROVE CatchUp'
    BY DEF CatchUp
  <2>1. CaptureDue' = CaptureDue /\ RideDue' = RideDue /\ ride' = ride /\ cancel' = cancel /\ page' = page
    BY <1>1, DueSame
  <2>2. Asking => Asking'
    BY <1>2, <1>3 DEF Asking
  <2>3. GoodAnswer => GoodAnswer'
    <3> SUFFICES ASSUME NEW g \in Fetches, fetches[g].pc = "answered", Good(fetches[g].got) PROVE GoodAnswer'
      BY DEF GoodAnswer
    <3>1. fetches'[g] = fetches[g]
      BY <1>1, <1>2
    <3>2. Good(fetches[g].got)'
      BY <2>1, <3>1 DEF Good
    <3> QED BY <3>1, <3>2 DEF GoodAnswer
  <2>4. Good(page.shown) => Good(page.shown)'
    BY <2>1 DEF Good
  <2>5. \A g \in Fetches : fetches'[g].pc = "answered" => fetches'[g] = fetches[g]
    BY <1>2, Shapes
  <2> QED BY <1>3, <2>1, <2>2, <2>3, <2>4, <2>5 DEF PageInv, CatchUp
<1> QED BY <1>4, <1>5, <1>6, <1>7, <1>8 DEF PageInv

\* Only cancel or pay changes, and no good ride relied on cancel.
LEMMA AsksOnly ==
    ASSUME PageInv, UNCHANGED <<ride, emits, page, fetches, excuse>>,
           cancel = "done" => cancel' = "done",
           RideLawful', ShownInv', cancel' \in {"none", "asked", "done", "left"},
           pay' \in {"none", "previewing", "ordering", "checkout", "left"}
    PROVE  PageInv'
<1>1. ViewTypes' /\ GetsInv'
  BY DEF PageInv, ViewTypes, GetsInv, Past
<1>2. EventsInv'
  BY EventsKeep
<1>3. CatchUp'
  <2>1. RideDue' = RideDue /\ CaptureDue' = CaptureDue
    BY DEF RideDue, CaptureDue, Due
  <2>2. \A doc : Good(doc) => Good(doc)'
    BY <2>1 DEF Good
  <2>3. (Asking => Asking') /\ (GoodAnswer => GoodAnswer')
    BY <2>2 DEF Asking, GoodAnswer
  <2> QED BY <2>1, <2>2, <2>3 DEF PageInv, CatchUp
<1> QED BY <1>1, <1>2, <1>3 DEF PageInv

LEMMA PageAsks ==
    ASSUME PageInv, View!AskCancel \/ View!OrderAnswered
    PROVE  PageInv'
<1>1. UNCHANGED <<ride, emits, page, fetches, excuse>> /\ ride.status \in View!RideStatus
  BY DEF View!AskCancel, View!OrderAnswered, View!serverVars, PageInv, ViewTypes, View!Document
<1>2. CASE View!AskCancel
  <2>1. cancel = "none" /\ cancel' = "asked" /\ pay' = pay /\ page.shown # View!NoRide
    BY <1>2, Shapes DEF View!AskCancel, View!canCancel
  <2>2. RideLawful' /\ ShownInv' /\ pay' \in {"none", "previewing", "ordering", "checkout", "left"}
    BY <1>1, <2>1 DEF PageInv, ViewTypes, RideLawful, ShownInv
  <2> QED BY <1>1, <2>1, <2>2, AsksOnly
<1>3. CASE View!OrderAnswered
  <2>1. /\ cancel' = cancel /\ pay = "ordering" /\ pay' \in {"checkout", "none"}
        /\ pay' = "checkout" => ride.status = "ARRIVED_AT_DESTINATION"
    BY <1>3 DEF View!OrderAnswered
  <2>2. RideLawful' /\ ShownInv' /\ cancel' \in {"none", "asked", "done", "left"}
    BY <1>1, <2>1 DEF PageInv, ViewTypes, RideLawful, ShownInv, AtDestination
  <2> QED BY <1>1, <2>1, <2>2, AsksOnly
<1> QED BY <1>2, <1>3

LEMMA PagePays ==
    ASSUME PageInv, View!PayNow
    PROVE  PageInv'
<1>1. /\ page.shown.status = "ARRIVED_AT_DESTINATION" /\ pay' = "previewing"
      /\ UNCHANGED <<ride, emits, page, cancel, excuse>>
  BY DEF View!PayNow, View!serverVars
<1>2. PICK f \in View!Free : View!Start(f, "preview")
  BY DEF View!PayNow
<1>3. RideDue' = RideDue /\ CaptureDue' = CaptureDue
  BY <1>1, DueSame
<1>4. fetches' \in [Fetches -> Gets] /\ GetsInv' /\ (excuse = "none" => CatchUp')
  BY <1>1, <1>2, <1>3, Sends
<1>5. ViewTypes' /\ RideLawful'
  BY <1>1, <1>4 DEF PageInv, ViewTypes, RideLawful
<1>6. EventsInv'
  BY <1>1, EventsKeep
<1>7. page.socket # "closed"
  BY <1>1, Shapes DEF PageInv, ShownInv
<1>8. ShownInv' /\ CatchUp'
  BY <1>1, <1>4, <1>7 DEF PageInv, ShownInv, CatchUp, AtDestination
<1> QED BY <1>4, <1>5, <1>6, <1>8 DEF PageInv

LEMMA PageHearsCancel ==
    ASSUME PageInv, View!CancelAnswered
    PROVE  PageInv'
<1>1. /\ UNCHANGED <<ride, emits, fetches, pay>> /\ cancel' = "none" /\ cancel \in {"asked", "done", "left"}
      /\ page \in [socket : {"closed", "connecting", "open"}, shown : View!Document \cup {View!NoRide}, inbox : Seq(Events)]
      /\ ride \in View!Document
      /\ cancel # "left" =>
          page.shown # View!NoRide /\ page.shown \in View!Document /\ page.socket # "closed"
  BY Shapes DEF View!CancelAnswered, View!serverVars, PageInv, ViewTypes, ShownInv
<1>2. CASE cancel = "done" /\ page' = [page EXCEPT !.shown = [page.shown EXCEPT !.status = "CANCELLED"]] /\ excuse' = excuse
  <2> DEFINE shown == [page.shown EXCEPT !.status = "CANCELLED"]
  <2>1. shown \in View!Document /\ shown.status = "CANCELLED" /\ shown.paid = page.shown.paid
    BY <1>1, <1>2, Statuses DEF View!Document
  <2>2. ride.status = "CANCELLED" /\ ~ride.paid
    BY <1>2 DEF PageInv, RideLawful, Lawful
  <2> HIDE DEF shown
  <2>3. /\ page'.shown = shown /\ page'.inbox = page.inbox /\ page'.socket = page.socket
        /\ page' \in [socket : {"closed", "connecting", "open"}, shown : View!Document \cup {View!NoRide}, inbox : Seq(Events)]
    BY <1>1, <1>2, <2>1 DEF shown
  <2>4. excuse # "foreign" => shown = ride
    BY <1>1, <1>2, <2>1, <2>2 DEF PageInv, ShownInv, Upto, View!Document
  <2>5. ViewTypes' /\ RideLawful' /\ GetsInv'
    BY <1>1, <1>2, <2>3 DEF PageInv, ViewTypes, RideLawful, GetsInv, Past
  <2>6. EventsInv'
    BY <1>1, <1>2, <2>3, EventsKeep
  <2>7. ~(page.shown.status \in AtDestination /\ excuse = "none")
    BY <1>1, <1>2, <2>2, ReachedFacts, Statuses DEF PageInv, ShownInv, Upto, After, AtDestination, View!Document
  <2>8. ShownInv'
    BY <1>1, <1>2, <2>3, <2>4, <2>7, PastOrder DEF PageInv, ShownInv, RideLawful
  <2>9. excuse = "none" => CatchUp'
    BY <1>1, <1>2, <2>1, <2>2, <2>3, <2>4, Shapes DEF CatchUp, Good
  <2> QED BY <1>2, <2>5, <2>6, <2>8, <2>9 DEF PageInv, CatchUp
<1>3. CASE page' = page /\ View!Behind
  <2>1. excuse' \in {"behind", "foreign"} /\ (excuse = "foreign" => excuse' = "foreign")
    BY <1>3, BehindFacts
  <2>2. ViewTypes' /\ RideLawful' /\ GetsInv'
    BY <1>1, <1>3, <2>1 DEF PageInv, ViewTypes, RideLawful, GetsInv, Past
  <2>3. EventsInv'
    BY <1>1, <1>3, <2>1, EventsKeep
  <2>4. ShownInv' /\ CatchUp'
    BY <1>1, <1>3, <2>1 DEF PageInv, ShownInv, CatchUp
  <2> QED BY <2>2, <2>3, <2>4 DEF PageInv
<1>4. CASE cancel = "left" /\ page' = page /\ excuse' = excuse
  <2>1. ViewTypes' /\ RideLawful' /\ GetsInv' /\ ShownInv'
    BY <1>1, <1>4 DEF PageInv, ViewTypes, RideLawful, GetsInv, ShownInv, Past
  <2>2. EventsInv'
    BY <1>1, <1>4, EventsKeep
  <2>3. RideDue' = RideDue /\ CaptureDue' = CaptureDue
    BY <1>1, <1>4 DEF RideDue, CaptureDue, Due
  <2>4. \A doc : Good(doc) => Good(doc)'
    BY <1>1, <1>4, <2>3 DEF Good
  <2>5. (Asking => Asking') /\ (GoodAnswer => GoodAnswer')
    BY <1>1, <2>4 DEF Asking, GoodAnswer
  <2> QED BY <1>1, <1>4, <2>1, <2>2, <2>3, <2>4, <2>5 DEF PageInv, CatchUp
<1> QED BY <1>1, <1>2, <1>3, <1>4 DEF View!CancelAnswered

LEMMA PageHearsPayment ==
    ASSUME PageInv, View!CheckoutEnds
    PROVE  PageInv'
<1>1. /\ UNCHANGED <<ride, emits, fetches, cancel, excuse>> /\ pay = "checkout" /\ pay' = "left"
      /\ page \in [socket : {"closed", "connecting", "open"}, shown : View!Document \cup {View!NoRide}, inbox : Seq(Events)]
      /\ ride \in View!Document
  BY DEF View!CheckoutEnds, View!serverVars, PageInv, ViewTypes
<1>2. CASE page' = page
  <2>1. RideLawful' /\ ShownInv'
    BY <1>1, <1>2 DEF PageInv, RideLawful, ShownInv
  <2>2. cancel' \in {"none", "asked", "done", "left"} /\ (cancel = "done" => cancel' = "done")
    BY <1>1 DEF PageInv, ViewTypes
  <2> QED BY <1>1, <1>2, <2>1, <2>2, AsksOnly
<1>3. CASE ride.paid /\ page.shown # View!NoRide /\ page' = [page EXCEPT !.shown.paid = TRUE]
  <2> DEFINE shown == [page.shown EXCEPT !.paid = TRUE]
  <2>1. page.shown \in View!Document /\ shown \in View!Document /\ shown.status = page.shown.status /\ shown.paid = TRUE
    BY <1>1, <1>3 DEF View!Document
  <2> HIDE DEF shown
  <2>2. /\ page'.shown = shown /\ page'.inbox = page.inbox /\ page'.socket = page.socket
        /\ page' \in [socket : {"closed", "connecting", "open"}, shown : View!Document \cup {View!NoRide}, inbox : Seq(Events)]
        /\ shown # View!NoRide
    BY <1>1, <1>3, <2>1, Shapes DEF shown
  <2>3. ViewTypes' /\ RideLawful' /\ GetsInv'
    BY <1>1, <2>2 DEF PageInv, ViewTypes, RideLawful, GetsInv, Past
  <2>4. EventsInv'
    BY <1>1, <2>2, EventsKeep
  <2>5. page.socket # "closed"
    BY <1>3, Shapes DEF PageInv, ShownInv
  <2>6. ShownInv'
    BY <1>1, <1>3, <2>1, <2>2, <2>5 DEF PageInv, ShownInv, Upto, Lawful, AtDestination
  <2>7. CatchUp'
    <3> SUFFICES ASSUME excuse = "none" PROVE CatchUp'
      BY <1>1 DEF CatchUp
    <3>1. CaptureDue' = CaptureDue /\ RideDue' = RideDue /\ ride' = ride /\ cancel' = cancel
          /\ \A doc : Good(doc)' = Good(doc)
      BY <1>1, <2>2, DueSame
    <3>2. page.shown = ride => shown = ride
      BY <1>1, <1>3, <2>1 DEF View!Document
    <3>3. Good(page.shown) => Good(page.shown)'
      BY <2>1, <2>2, <3>1, <3>2 DEF Good
    <3>4. Asking' = Asking
      BY <1>1 DEF Asking
    <3>5. GoodAnswer => GoodAnswer'
      BY <1>1, <3>1 DEF GoodAnswer, Good
    <3> QED BY <1>1, <2>1, <2>2, <2>5, <3>1, <3>3, <3>4, <3>5 DEF PageInv, CatchUp
  <2> QED BY <2>3, <2>4, <2>6, <2>7 DEF PageInv
<1> QED BY <1>2, <1>3 DEF View!CheckoutEnds

-----------------------------------------------------------------------------
LEMMA ViewStep == ViewInv /\ [View!Next]_View!vars => ViewInv'
<1> SUFFICES ASSUME ViewInv, [View!Next]_View!vars PROVE ViewInv'
  OBVIOUS
<1> USE DEF ViewInv
<1>1. ViewTypes /\ RideLawful /\ EventsInv
  BY DEF PageInv
<1>2. ASSUME NEW m \in View!Messages, View!HandleDriver(m) PROVE ViewInv'
  BY <1>1, <1>2, PageHandled, BoardHandled
<1>3. ASSUME NEW m \in View!Messages, View!RefuseDriver(m) \/ View!Send(m) PROVE ViewInv'
  <2>1. UNCHANGED <<ride, emits, page, fetches, cancel, pay, excuse>>
    BY <1>3 DEF View!RefuseDriver, View!Send, View!serverVars, View!riderVars
  <2> QED BY <1>1, <1>3, <2>1, PageSame, BoardRefused, BoardSends
<1>4. CASE View!CancelRide
  BY <1>1, <1>4, PageCancels, BoardCancelled
<1>5. CASE View!PaymentCaptured
  <2>1. ride'.status = ride.status /\ UNCHANGED <<dashboard, requests, refused>>
    BY <1>1, <1>5 DEF View!PaymentCaptured, View!Commit, View!driverVars, ViewTypes, View!Document
  <2> QED BY <1>5, <2>1, PageCaptured, BoardSame
<1>6. ASSUME NEW i \in 1 .. MaxEvents, NEW arrives \in BOOLEAN, View!Emit(i, arrives) PROVE ViewInv'
  <2>1. View!DriverHears(emits[i]) /\ UNCHANGED <<ride, requests, refused>>
    BY <1>6 DEF View!Emit
  <2>2. PageInv' /\ emits[i] \in Due /\ emits[i] \in Events
    BY <1>6, PageEmit
  <2> QED BY <1>1, <2>1, <2>2, BoardHears
<1>7. ASSUME NEW i \in 1 .. MaxEvents, View!OperationThrows(i) PROVE ViewInv'
  <2>1. ride' = ride /\ UNCHANGED <<dashboard, requests, refused>>
    BY <1>7 DEF View!OperationThrows, View!driverVars
  <2> QED BY <1>7, <2>1, PageThrows, BoardSame
<1>8. CASE View!OpenPage \/ View!Connected \/ View!ClosePage \/ View!Receive
  <2>1. ride' = ride /\ UNCHANGED <<dashboard, requests, refused>>
    BY <1>8 DEF View!OpenPage, View!Connected, View!ClosePage, View!Receive, View!serverVars, View!driverVars
  <2> QED BY <1>8, <2>1, PageOpens, PageConnects, PageCloses, PageReceives, BoardSame
<1>9. ASSUME NEW f \in Fetches, View!Settles(f) PROVE ViewInv'
  <2>1. ride' = ride /\ UNCHANGED <<dashboard, requests, refused>>
    BY <1>9 DEF View!Settles, View!Answer, View!Answered, View!FetchFailed, View!serverVars, View!driverVars
  <2> QED BY <1>9, <2>1, GetAnswers, GetShown, GetFails, BoardSame DEF View!Settles
<1>10. CASE View!AskCancel \/ View!CancelAnswered \/ View!PayNow \/ View!OrderAnswered \/ View!CheckoutEnds
  <2>1. ride' = ride /\ UNCHANGED <<dashboard, requests, refused>>
    BY <1>10 DEF View!AskCancel, View!CancelAnswered, View!PayNow, View!OrderAnswered, View!CheckoutEnds, View!serverVars, View!driverVars
  <2> QED BY <1>10, <2>1, PageAsks, PageHearsCancel, PagePays, PageHearsPayment, BoardSame
<1>11. CASE View!OpenDashboard \/ View!Offered \/ View!RejectRide
  <2>1. UNCHANGED <<ride, emits, page, fetches, cancel, pay, excuse>>
    BY <1>11 DEF View!OpenDashboard, View!Offered, View!RejectRide, View!serverVars, View!riderVars
  <2> QED BY <1>1, <1>11, <2>1, PageSame, BoardLoads
<1>12. CASE UNCHANGED View!vars
  <2>1. UNCHANGED <<ride, emits, page, fetches, cancel, pay, excuse, dashboard, requests, refused>>
    BY <1>12 DEF View!vars, View!serverVars, View!riderVars, View!driverVars
  <2> QED BY <2>1, PageSame, BoardSame
<1> QED
  BY <1>2, <1>3, <1>4, <1>5, <1>6, <1>7, <1>8, <1>9, <1>10, <1>11, <1>12 DEF View!Next, View!EmitNext

-----------------------------------------------------------------------------
(* The theorems about the two pages.                                       *)

\* Every reachable state of the two pages satisfies ViewInv: what is under way for the
\* rider's page will bring it up to date, and the dashboard is ahead of the ride by what
\* it asked for.
THEOREM ViewInductive == ASSUME View!ViewAssumption PROVE View!Spec => []ViewInv
BY ViewInit, ViewStep, PTL DEF View!Spec

\* The state of both pages keeps its types, whatever order events and answers come in.
THEOREM ViewTypeCorrect == ASSUME View!ViewAssumption PROVE View!Spec => []View!TypeOK
BY ViewInductive, ViewInvGives, PTL

\* The rider's page (RideDetails.tsx) shows nothing the ride has not been, and shows the
\* ride as it is once nothing is under way for it: in whatever order the emits of
\* ride.service.ts and payment.service.ts, the answers to its GETs and its own requests
\* come, unless an event missed it or an older answer came after a newer one.
THEOREM RiderPageInSync == ASSUME View!ViewAssumption PROVE View!Spec => []View!RiderIsInSync
BY ViewInductive, ViewInvGives, PTL

\* The dashboard (DriverDashboard.tsx), which changes the ride it shows before the server
\* did, is right once its messages were handled, as long as none was refused.
THEOREM DashboardInSync == ASSUME View!ViewAssumption PROVE View!Spec => []View!DriverIsInSync
BY ViewInductive, ViewInvGives, PTL

-----------------------------------------------------------------------------
(* RideView's ride is a ride of RideLifecycle.                             *)

ViewOf(r) == [status |-> status[r], paid |-> r \in paid]

\* The ride stays as it is, starts to search, or makes a step of RideView: a message of
\* the driver is handled, the rider cancels, a payment is captured at the destination.
StepsAsShown(r) ==
    \/ ViewOf(r)' = ViewOf(r)
    \/ status[r] = "NONE" /\ r \notin paid /\ ViewOf(r)' = [ViewOf(r) EXCEPT !.status = "SEARCHING"]
    \/ \E m \in View!Messages :
        /\ status[r] \in View!Wanted[m][1] /\ (m = "complete" => r \in paid)
        /\ ViewOf(r)' = [ViewOf(r) EXCEPT !.status = View!Wanted[m][2]]
    \/ status[r] \in View!canCancel /\ ViewOf(r)' = [ViewOf(r) EXCEPT !.status = "CANCELLED"]
    \/ /\ status[r] = "ARRIVED_AT_DESTINATION" /\ r \notin paid
       /\ ViewOf(r)' = [ViewOf(r) EXCEPT !.paid = TRUE]

\* Only rides with an order are paid, and a completed ride is paid.
PaidInv == paid \subseteq ordered /\ \A r \in Rides : status[r] = "COMPLETED" => r \in paid

LEMMA StepPaid == IInv /\ PaidInv /\ [Next]_vars => PaidInv'
<1> SUFFICES ASSUME IInv, PaidInv, [Next]_vars PROVE PaidInv'
  OBVIOUS
<1> USE DEF IInv, TypeOK, PaidInv, rideDocs, payments
<1>1. ASSUME NEW r \in Rides, RiderStep(r) PROVE PaidInv'
  BY <1>1 DEF RiderStep, BeginCreateRide, CommitRide, DispatchRide, DispatchTimeout, CancelRide,
              CreateOrder, HandlePaymentCaptured
<1>2. ASSUME NEW d \in Drivers, NEW r \in Rides, DriverStep(d, r) PROVE PaidInv'
  BY <1>2 DEF DriverStep, AcceptRide, ArriveAtPickup, StartRide, ArriveAtDestination, Advance,
              CancelRideByDriver, CompleteRide
<1>3. CASE ~ (\E r \in Rides : RiderStep(r)) /\ ~ (\E d \in Drivers, r \in Rides : DriverStep(d, r))
  BY <1>3 DEF Next, DriverSetsPresence, StopDispatch, SetPresence, OperationFails, Crash, vars
<1> QED BY <1>1, <1>2, <1>3

\* Ride x goes from one status to the next, no other ride does.
LEMMA Moves ==
    ASSUME TypeOK, NEW x \in Rides, NEW to, status' = [status EXCEPT ![x] = to],
           UNCHANGED paid, NEW r \in Rides
    PROVE  ViewOf(r)' = IF r = x THEN [ViewOf(r) EXCEPT !.status = to] ELSE ViewOf(r)
BY DEF TypeOK, ViewOf

LEMMA RiderStepShown ==
    ASSUME IInv, PaidInv, NEW x \in Rides, RiderStep(x), NEW r \in Rides
    PROVE  StepsAsShown(r)
<1> USE DEF StepsAsShown
<1>1. CASE UNCHANGED <<status, paid>>
  BY <1>1 DEF ViewOf
<1>2. CASE CommitRide(x)
  <2>1. status[x] = "NONE" /\ x \notin paid
    BY <1>2 DEF CommitRide, IInv, RideInv, DraftInv, OrderedInv, PaidInv, TypeOK
  <2>2. ViewOf(r)' = IF r = x THEN [ViewOf(r) EXCEPT !.status = "SEARCHING"] ELSE ViewOf(r)
    BY <1>2, Moves DEF CommitRide, payments, IInv
  <2> QED BY <2>1, <2>2
<1>3. CASE CancelRide(x)
  <2>1. ViewOf(r)' = IF r = x THEN [ViewOf(r) EXCEPT !.status = "CANCELLED"] ELSE ViewOf(r)
    BY <1>3, Moves DEF CancelRide, payments, IInv
  <2>2. status[x] \in View!canCancel
    BY <1>3 DEF CancelRide, CANCELLABLE_BY_RIDER, CANCELLABLE_BY_DRIVER, View!canCancel
  <2> QED BY <2>1, <2>2
<1>4. CASE HandlePaymentCaptured(x)
  <2>1. status[x] = "ARRIVED_AT_DESTINATION" /\ x \notin paid
    BY <1>4 DEF HandlePaymentCaptured, IInv, RideInv, OrderedInv, PaidInv
  <2>2. ViewOf(r)' = IF r = x THEN [ViewOf(r) EXCEPT !.paid = TRUE] ELSE ViewOf(r)
    <3>1. status' = status /\ paid' = paid \cup {x}
      BY <1>4 DEF HandlePaymentCaptured, rideDocs
    <3>2. r = x => (r \in paid') = TRUE
      BY <3>1
    <3>3. r # x => (r \in paid') = (r \in paid)
      BY <3>1
    <3> QED BY <3>1, <3>2, <3>3 DEF ViewOf
  <2> QED BY <2>1, <2>2
<1> QED
  BY <1>1, <1>2, <1>3, <1>4 DEF RiderStep, BeginCreateRide, DispatchRide, DispatchTimeout,
     CreateOrder, rideDocs, payments

LEMMA DriverStepShown ==
    ASSUME IInv, PaidInv, NEW d \in Drivers, NEW x \in Rides, DriverStep(d, x), NEW r \in Rides
    PROVE  StepsAsShown(r)
<1>1. ASSUME NEW m \in View!Messages, status[x] \in View!Wanted[m][1], m = "complete" => x \in paid,
             status' = [status EXCEPT ![x] = View!Wanted[m][2]], UNCHANGED paid
      PROVE  StepsAsShown(r)
  <2>1. ViewOf(r)' = IF r = x THEN [ViewOf(r) EXCEPT !.status = View!Wanted[m][2]] ELSE ViewOf(r)
    BY <1>1, Moves DEF IInv
  <2> QED BY <1>1, <2>1 DEF StepsAsShown
<1>2. CASE AcceptRide(d, x)
  BY <1>1, <1>2, WantedTable DEF AcceptRide, payments
<1>3. CASE ArriveAtPickup(d, x)
  BY <1>1, <1>3, WantedTable DEF ArriveAtPickup, Advance, payments
<1>4. CASE StartRide(d, x)
  BY <1>1, <1>4, WantedTable DEF StartRide, Advance, payments
<1>5. CASE ArriveAtDestination(d, x)
  BY <1>1, <1>5, WantedTable DEF ArriveAtDestination, Advance, payments
<1>6. CASE CancelRideByDriver(d, x)
  BY <1>1, <1>6, WantedTable DEF CancelRideByDriver, CANCELLABLE_BY_DRIVER, payments
<1>7. CASE CompleteRide(d, x)
  BY <1>1, <1>7, WantedTable DEF CompleteRide, payments
<1> QED BY <1>2, <1>3, <1>4, <1>5, <1>6, <1>7 DEF DriverStep

\* What RideView takes for granted of the server, the whole of ride.service.ts keeps for
\* every ride, with any number of riders and drivers, failures and crashes: its status and
\* its payment take the steps of RideView and no others, so that a captured payment finds
\* the ride at its destination and unpaid.
THEOREM RidesStepAsShown == Spec => [][\A r \in Rides : StepsAsShown(r)]_vars
<1>1. Init => PaidInv
  BY DEF Init, PaidInv
<1>2. IInv /\ PaidInv /\ [Next]_vars => [\A r \in Rides : StepsAsShown(r)]_vars
  <2> SUFFICES ASSUME IInv, PaidInv, [Next]_vars, NEW r \in Rides PROVE StepsAsShown(r)
    OBVIOUS
  <2>1. CASE \E x \in Rides : RiderStep(x)
    BY <2>1, RiderStepShown
  <2>2. CASE \E d \in Drivers, x \in Rides : DriverStep(d, x)
    BY <2>2, DriverStepShown
  <2>3. CASE ~ (\E x \in Rides : RiderStep(x)) /\ ~ (\E d \in Drivers, x \in Rides : DriverStep(d, x))
    <3>1. UNCHANGED <<status, paid>>
      BY <2>3 DEF Next, DriverSetsPresence, StopDispatch, SetPresence, OperationFails, Crash, vars,
                  rideDocs, payments
    <3> QED BY <3>1 DEF StepsAsShown, ViewOf
  <2> QED BY <2>1, <2>2, <2>3
<1> QED BY <1>1, <1>2, StepPaid, Inductive, PTL DEF Spec
=============================================================================

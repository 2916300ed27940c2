---------------------------- MODULE RideLifecycle ----------------------------
(***************************************************************************)
(* The life of a ride: created by a rider, dispatched, accepted by a       *)
(* driver, driven, paid, completed or cancelled                            *)
(* (backend/src/services/ride.service.ts), with what its operations do to  *)
(* the driver's document, to the in-memory dispatches and, after their     *)
(* transaction committed, to the driver's presence in Redis.               *)
(*                                                                         *)
(* A Mongo transaction whose reads it also writes commits in one action.   *)
(* createRide's does not: it reads the rider's other rides and inserts.    *)
(* Every driver here is APPROVED: no code of the repository changes        *)
(* verificationStatus.  One backend process runs.                          *)
(***************************************************************************)
EXTENDS Naturals, FiniteSets

CONSTANTS
    Rides,    \* ids of Ride documents
    Riders,   \* users that ask for rides
    Drivers,  \* Driver documents
    Nobody    \* no rider, no driver, no ride

ASSUME NobodyAssumption == Nobody \notin Rides \cup Riders \cup Drivers

VARIABLES
    status,         \* ride.status, NONE before the document exists
    rider,          \* ride.rider
    driver,         \* ride.driver
    ordered,        \* rides with a payment order (PaymentCapture)
    paid,           \* rides whose paymentStatus is CAPTURED
    currentRide,    \* driver.currentRide
    completedTrips, \* driver.statistics.completedTrips
    cancelledTrips, \* driver.statistics.cancelledTrips
    drafts,         \* createRide transactions that found no active ride
    beside,         \* history: the rider's other transactions a createRide started beside
    matching,       \* committed rides whose createRide still looks for drivers
    dispatching,    \* keys of activeDispatches
    after,          \* what committed operations still have to do
    presence        \* Redis: driver:presence:<id>

rideDocs == <<status, rider, driver>>
payments == <<ordered, paid>>
driverDocs == <<currentRide, completedTrips, cancelledTrips>>
memory == <<drafts, matching, dispatching, after>>
vars == <<rideDocs, payments, driverDocs, memory, presence, beside>>

-----------------------------------------------------------------------------
RideStatus == {"SEARCHING", "DRIVER_ASSIGNED", "DRIVER_ARRIVING", "STARTED",
               "ARRIVED_AT_DESTINATION", "COMPLETED", "CANCELLED"}
Ended == {"COMPLETED", "CANCELLED"}
\* The driver of the ride is assigned, on the way, or driving.
Serving == RideStatus \ (Ended \cup {"SEARCHING"})
\* Mutant of CANCELLABLE_BY_DRIVER: the driver may cancel a ride that was driven.
CancellableOnceStarted == Serving
CANCELLABLE_BY_DRIVER == {"DRIVER_ASSIGNED", "DRIVER_ARRIVING"}
CANCELLABLE_BY_RIDER == CANCELLABLE_BY_DRIVER \cup {"SEARCHING"}

Active(r) == status[r] \in RideStatus \ Ended
ActiveRidesOf(u) == {r \in Rides : rider[r] = u /\ Active(r)}
Serves(d, r) == driver[r] = d /\ status[r] \in Serving

\* Presence of a driver: no key, online and available, online and not available.
Presence == {"none", "available", "busy"}

\* What is left to do once a transaction committed: stopDispatch, then presence.
Work == [pc : {"stop", "presence"},
         ride : Rides,
         driver : Drivers \cup {Nobody},
         presence : {"available", "busy"}]

Init ==
    /\ status = [r \in Rides |-> "NONE"]
    /\ rider = [r \in Rides |-> Nobody]
    /\ driver = [r \in Rides |-> Nobody]
    /\ ordered = {}
    /\ paid = {}
    /\ currentRide = [d \in Drivers |-> Nobody]
    /\ completedTrips = [d \in Drivers |-> 0]
    /\ cancelledTrips = [d \in Drivers |-> 0]
    /\ drafts = {}
    /\ beside = [r \in Rides |-> {}]
    /\ matching = {}
    /\ dispatching = {}
    /\ after = {}
    /\ presence = [d \in Drivers |-> "none"]

-----------------------------------------------------------------------------
(* createRide                                                              *)

DraftsOf(u) == {r \in drafts : rider[r] = u}

\* Mutant of BeginCreateRide: a ride that is searching does not count as active.
BeginCreateRideWhileSearching(r, u) ==
    /\ status[r] = "NONE" /\ r \notin drafts
    /\ \A s \in ActiveRidesOf(u) : status[s] = "SEARCHING"
    /\ rider' = [rider EXCEPT ![r] = u]
    /\ drafts' = drafts \cup {r}
    /\ beside' = [beside EXCEPT ![r] = DraftsOf(u)]
    /\ UNCHANGED <<status, driver, payments, driverDocs, matching, dispatching, after,
                   presence>>

\* The transaction's snapshot shows no active ride of this rider.
BeginCreateRide(r, u) ==
    /\ status[r] = "NONE" /\ r \notin drafts
    /\ ActiveRidesOf(u) = {}
    /\ rider' = [rider EXCEPT ![r] = u]
    /\ drafts' = drafts \cup {r}
    /\ beside' = [beside EXCEPT ![r] = DraftsOf(u)]
    /\ UNCHANGED <<status, driver, payments, driverDocs, matching, dispatching, after,
                   presence>>

\* The insert conflicts with no other insert: snapshot isolation lets it commit.
CommitRide(r) ==
    /\ r \in drafts
    /\ status' = [status EXCEPT ![r] = "SEARCHING"]
    /\ drafts' = drafts \ {r}
    /\ matching' = matching \cup {r}
    /\ UNCHANGED <<rider, driver, payments, driverDocs, dispatching, after, presence, beside>>

\* Drivers that are available and not on a ride, as findEligibleDrivers sees them.
FindEligibleDrivers == {d \in Drivers : presence[d] = "available" /\ currentRide[d] = Nobody}

\* dispatchRide: some of them are near and drive that kind of vehicle, or none is.
DispatchRide(r) ==
    /\ r \in matching
    /\ matching' = matching \ {r}
    /\ \/ FindEligibleDrivers # {} /\ dispatching' = dispatching \cup {r}
       \/ UNCHANGED dispatching
    /\ UNCHANGED <<rideDocs, payments, driverDocs, drafts, after, presence, beside>>

\* handleDispatchTimeout: the ride is taken, or no driver is left to ask.
DispatchTimeout(r) ==
    /\ r \in dispatching
    /\ dispatching' = dispatching \ {r}
    /\ UNCHANGED <<rideDocs, payments, driverDocs, drafts, matching, after, presence, beside>>

-----------------------------------------------------------------------------
(* The driver's operations.  The filters of findOneAndUpdate name the ride *)
(* and its driver.                                                         *)

Then(pc, r, d, p) == after' = after \cup {[pc |-> pc, ride |-> r, driver |-> d, presence |-> p]}

\* Mutant of AcceptRide: the driver's own ride is not checked.
AcceptRideWhileBusy(d, r) ==
    /\ status[r] = "SEARCHING"
    /\ status' = [status EXCEPT ![r] = "DRIVER_ASSIGNED"]
    /\ driver' = [driver EXCEPT ![r] = d]
    /\ currentRide' = [currentRide EXCEPT ![d] = r]
    /\ Then("stop", r, d, "busy")
    /\ UNCHANGED <<rider, payments, completedTrips, cancelledTrips, drafts, matching,
                   dispatching, presence, beside>>
AcceptRide(d, r) ==
    /\ currentRide[d] = Nobody
    /\ status[r] = "SEARCHING"
    /\ status' = [status EXCEPT ![r] = "DRIVER_ASSIGNED"]
    /\ driver' = [driver EXCEPT ![r] = d]
    /\ currentRide' = [currentRide EXCEPT ![d] = r]
    /\ Then("stop", r, d, "busy")
    /\ UNCHANGED <<rider, payments, completedTrips, cancelledTrips, drafts, matching,
                   dispatching, presence, beside>>

Advance(d, r, from, to) ==
    /\ driver[r] = d
    /\ status[r] = from
    /\ status' = [status EXCEPT ![r] = to]
    /\ UNCHANGED <<rider, driver, payments, driverDocs, memory, presence, beside>>

ArriveAtPickup(d, r) == Advance(d, r, "DRIVER_ASSIGNED", "DRIVER_ARRIVING")
StartRide(d, r) == Advance(d, r, "DRIVER_ARRIVING", "STARTED")
ArriveAtDestination(d, r) == Advance(d, r, "STARTED", "ARRIVED_AT_DESTINATION")

\* The driver is freed, and the trip is counted among the cancelled ones.
FreeCancelled(d) ==
    /\ currentRide' = [currentRide EXCEPT ![d] = Nobody]
    /\ cancelledTrips' = [cancelledTrips EXCEPT ![d] = @ + 1]
    /\ UNCHANGED completedTrips

CancelRideByDriver(d, r) ==
    /\ driver[r] = d
    /\ status[r] \in CANCELLABLE_BY_DRIVER
    /\ status' = [status EXCEPT ![r] = "CANCELLED"]
    /\ FreeCancelled(d)
    /\ Then("stop", r, d, "available")
    /\ UNCHANGED <<rider, driver, payments, drafts, matching, dispatching, presence, beside>>

\* Mutant of CompleteRide: the statistics of the driver are written, the ride is not freed.
CompleteRideKeepingDriver(d, r) ==
    /\ driver[r] = d
    /\ status[r] = "ARRIVED_AT_DESTINATION" /\ r \in paid
    /\ status' = [status EXCEPT ![r] = "COMPLETED"]
    /\ completedTrips' = [completedTrips EXCEPT ![d] = @ + 1]
    /\ Then("presence", r, d, "available")
    /\ UNCHANGED <<rider, driver, payments, currentRide, cancelledTrips, drafts, matching,
                   dispatching, presence, beside>>

\* canCompleteRide: at the destination, and paid.
CompleteRide(d, r) ==
    /\ driver[r] = d
    /\ status[r] = "ARRIVED_AT_DESTINATION" /\ r \in paid
    /\ status' = [status EXCEPT ![r] = "COMPLETED"]
    /\ currentRide' = [currentRide EXCEPT ![d] = Nobody]
    /\ completedTrips' = [completedTrips EXCEPT ![d] = @ + 1]
    /\ Then("presence", r, d, "available")
    /\ UNCHANGED <<rider, driver, payments, cancelledTrips, drafts, matching, dispatching,
                   presence, beside>>

-----------------------------------------------------------------------------
(* The rider's operations                                                  *)

CancelRide(r) ==
    /\ status[r] \in CANCELLABLE_BY_RIDER
    /\ status' = [status EXCEPT ![r] = "CANCELLED"]
    /\ \/ driver[r] = Nobody /\ UNCHANGED driverDocs
       \/ driver[r] # Nobody /\ FreeCancelled(driver[r])
    /\ Then("stop", r, driver[r], "available")
    /\ UNCHANGED <<rider, driver, payments, drafts, matching, dispatching, presence, beside>>

\* paymentService.createOrder is open to rides at their destination.
CreateOrder(r) ==
    /\ status[r] = "ARRIVED_AT_DESTINATION"
    /\ r \notin ordered
    /\ ordered' = ordered \cup {r}
    /\ UNCHANGED <<rideDocs, paid, driverDocs, memory, presence, beside>>

\* handlePaymentCaptured, whenever the money arrives, whatever the ride became.
HandlePaymentCaptured(r) ==
    /\ r \in ordered \ paid
    /\ paid' = paid \cup {r}
    /\ UNCHANGED <<rideDocs, ordered, driverDocs, memory, presence, beside>>

-----------------------------------------------------------------------------
(* After a commit, and presence                                            *)

StopDispatch(w) ==
    /\ w \in after /\ w.pc = "stop"
    /\ dispatching' = dispatching \ {w.ride}
    /\ after' = (after \ {w}) \cup (IF w.driver = Nobody THEN {}
                                    ELSE {[w EXCEPT !.pc = "presence"]})
    /\ UNCHANGED <<rideDocs, payments, driverDocs, drafts, matching, presence, beside>>

\* setDriverBusy, setDriverAvailable: every field of the presence is overwritten.
SetPresence(w) ==
    /\ w \in after /\ w.pc = "presence"
    /\ presence' = [presence EXCEPT ![w.driver] = w.presence]
    /\ after' = after \ {w}
    /\ UNCHANGED <<rideDocs, payments, driverDocs, drafts, matching, dispatching, beside>>

\* An awaited call throws (commitTransaction itself may, once it committed): the rest of
\* the operation is skipped, what was committed stays.
OperationFails ==
    /\ \/ \E w \in after : after' = after \ {w} /\ UNCHANGED <<drafts, matching>>
       \/ \E r \in drafts : drafts' = drafts \ {r} /\ UNCHANGED <<matching, after>>
       \/ \E r \in matching : matching' = matching \ {r} /\ UNCHANGED <<drafts, after>>
    /\ UNCHANGED <<rideDocs, payments, driverDocs, dispatching, presence, beside>>

\* The process dies and starts again: Redis and Mongo stay, memory does not.
Crash ==
    /\ drafts' = {} /\ matching' = {} /\ dispatching' = {} /\ after' = {}
    /\ UNCHANGED <<rideDocs, payments, driverDocs, presence, beside>>

\* GO_ONLINE and SET_BUSY; SET_AVAILABLE, on a ride or not; GO_OFFLINE, a closed socket,
\* or the TTL.  updateDriverHeartbeat, GET and then SET of what it read, writes one of them.
DriverSetsPresence(d) ==
    /\ \E p \in Presence : presence' = [presence EXCEPT ![d] = p]
    /\ UNCHANGED <<rideDocs, payments, driverDocs, memory, beside>>

-----------------------------------------------------------------------------
RiderStep(r) ==
    \/ \E u \in Riders : BeginCreateRide(r, u)
    \/ CommitRide(r) \/ DispatchRide(r) \/ DispatchTimeout(r)
    \/ CancelRide(r) \/ CreateOrder(r) \/ HandlePaymentCaptured(r)

DriverStep(d, r) ==
    \/ AcceptRide(d, r) \/ ArriveAtPickup(d, r) \/ StartRide(d, r)
    \/ ArriveAtDestination(d, r) \/ CancelRideByDriver(d, r) \/ CompleteRide(d, r)

Next ==
    \/ \E r \in Rides : RiderStep(r)
    \/ \E d \in Drivers, r \in Rides : DriverStep(d, r)
    \/ \E d \in Drivers : DriverSetsPresence(d)
    \/ \E w \in after : StopDispatch(w) \/ SetPresence(w)
    \/ OperationFails \/ Crash

Spec == Init /\ [][Next]_vars

-----------------------------------------------------------------------------
(* Properties                                                              *)

\* The state is made of the documents, keys and local variables above.
TypeOK ==
    /\ status \in [Rides -> RideStatus \cup {"NONE"}]
    /\ rider \in [Rides -> Riders \cup {Nobody}]
    /\ driver \in [Rides -> Drivers \cup {Nobody}]
    /\ ordered \subseteq Rides /\ paid \subseteq Rides
    /\ currentRide \in [Drivers -> Rides \cup {Nobody}]
    /\ completedTrips \in [Drivers -> Nat]
    /\ cancelledTrips \in [Drivers -> Nat]
    /\ drafts \subseteq Rides /\ matching \subseteq Rides /\ dispatching \subseteq Rides
    /\ beside \in [Rides -> SUBSET Rides]
    /\ after \subseteq Work
    /\ presence \in [Drivers -> Presence]

\* The two documents agree: driver.currentRide is the one ride the driver serves, so
\* no driver is ever held by an ended ride or free while on one (acceptRide, cancelRide,
\* cancelRideByDriver, completeRide write both in a transaction).
DriverRideAgreement ==
    \A d \in Drivers, r \in Rides : currentRide[d] = r <=> Serves(d, r)

\* driver.statistics counts each ended ride of the driver once.
StatisticsMatchRides ==
    \A d \in Drivers :
        /\ completedTrips[d] = Cardinality({r \in Rides : driver[r] = d
                                                        /\ status[r] = "COMPLETED"})
        /\ cancelledTrips[d] = Cardinality({r \in Rides : driver[r] = d
                                                        /\ status[r] = "CANCELLED"})

\* A cancelled ride is never charged, although an order outlives every check made when
\* it was created: no ride with an order can be cancelled any more.
CancelledIsNotCharged == \A r \in Rides : status[r] = "CANCELLED" => r \notin ordered

\* An ended ride keeps its status and driver: no late accept, cancel or arrival, and
\* no retry after a crash, revives it.
EndedIsFinal ==
    [][\A r \in Rides : status[r] \in Ended =>
          status'[r] = status[r] /\ driver'[r] = driver[r]]_vars

\* Assignment as the rides record it implements DriverAssignment.
Assignment == INSTANCE DriverAssignment WITH
    serving <- [d \in Drivers |-> {r \in Rides : Serves(d, r)}],
    taken <- {r \in Rides : driver[r] # Nobody}
ImplementsDriverAssignment == Assignment!Spec

\* A rider has two active rides only if the createRide transactions of the two were
\* open at once, the later one started before the earlier one committed: no ride that
\* lives on after its request, however requests fail or the process restarts, lets the
\* rider have another.
SecondRideOverlapped ==
    \A u \in Riders : \A r, s \in ActiveRidesOf(u) :
        r # s => r \in beside[s] \/ s \in beside[r]

\* "Rider already has an active ride." (createRide, ride.service.ts): a rider has at
\* most one.  False: see SecondRideOverlapped; no unique index backs the check.
OneActiveRidePerRider == \A u \in Riders : \A r, s \in ActiveRidesOf(u) : r = s
=============================================================================

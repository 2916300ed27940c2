----------------------------- MODULE RideDispatch -----------------------------
(***************************************************************************)
(* The dispatch of one ride (backend/src/services/dispatch-ride.service.ts)*)
(* next to the operations of ride.service.ts that stop it.  createRide     *)
(* looks for drivers and asks them in batches; a timer asks the next batch *)
(* unless the ride was taken meanwhile.  Everything but the ride and what  *)
(* was sent lives in the memory of the process.                            *)
(*                                                                         *)
(* A driver is its place in the list of candidates, the nearest first.     *)
(* Two rides share no dispatch state, and a ride is dispatched once.       *)
(***************************************************************************)
EXTENDS Naturals, FiniteSets

CONSTANTS
    MaxDrivers,         \* bound on the candidates found (20 in findEligibleDrivers)
    DISPATCH_BATCH_SIZE

ASSUME DispatchAssumption == MaxDrivers \in Nat /\ DISPATCH_BATCH_SIZE \in Nat \ {0}

Drivers == 1..MaxDrivers

VARIABLES
    ride,       \* ride.status: searching, taken by a driver, or cancelled
    creating,   \* createRide committed and its dispatchRide looks for drivers
    active,     \* activeDispatches has the ride
    drivers,    \* dispatch.drivers, their number
    cursor,     \* dispatch.currentIndex
    timer,      \* dispatch.timeout will fire
    handler,    \* handleDispatchTimeout, which keeps the dispatch object meanwhile
    stops,      \* accepts and cancellations that committed and will call stopDispatch
    asked,      \* how often each driver was sent the ride
    told,       \* how often the rider was told that no driver is available
    late,       \* batches sent when the ride was no longer searching
    interrupted \* the process crashed, or dispatchRide threw

dispatch == <<active, drivers, cursor, timer>>
sent == <<asked, told, late>>
vars == <<ride, creating, dispatch, handler, stops, sent, interrupted>>

Init ==
    /\ ride = "SEARCHING"
    /\ creating = TRUE
    /\ active = FALSE /\ drivers = 0 /\ cursor = 0 /\ timer = FALSE
    /\ handler = "idle"
    /\ stops = {}
    /\ asked = [d \in Drivers |-> 0] /\ told = 0 /\ late = 0
    /\ interrupted = FALSE

-----------------------------------------------------------------------------
BatchAt(c, n) == {d \in 1..n : c < d /\ d <= c + DISPATCH_BATCH_SIZE}

\* cleanupDispatch: a dispatch that is not in the map any more keeps its timer.
CleanupDispatch ==
    /\ active' = FALSE
    /\ timer' = (timer /\ ~active)

\* notifyDrivers: the drivers of the batch that have a socket are sent the ride.
NotifyDrivers(batch) ==
    /\ asked' = [d \in Drivers |-> IF d \in batch THEN asked[d] + 1 ELSE asked[d]]
    /\ late' = IF ride = "SEARCHING" THEN late ELSE late + 1
    /\ UNCHANGED told

\* Mutants of DispatchNextBatch: currentIndex is not advanced; a batch with nobody online
\* is not followed by the next one.
DispatchSameBatch(n, c, live, online) ==
    /\ drivers' = n /\ cursor' = c /\ active' = live /\ timer' = TRUE
    /\ NotifyDrivers(BatchAt(c, n) \cap online)
DispatchOneBatch(n, c, live, online) ==
    /\ drivers' = n /\ cursor' = c + DISPATCH_BATCH_SIZE
    /\ active' = live /\ timer' = (BatchAt(c, n) \cap online # {})
    /\ NotifyDrivers(BatchAt(c, n) \cap online)

\* dispatchNextBatch of a dispatch with n drivers at currentIndex c, in the map or not:
\* batches with no driver online are passed over, and the next one is asked; when there
\* is none the rider is told and the dispatch is cleaned up.  Nothing here is awaited.
DispatchNextBatch(n, c, live, online) ==
    LET starts == {b \in c..n : \E k \in 0..n : b = c + k * DISPATCH_BATCH_SIZE}
    IN
    \/ /\ \A b \in starts : BatchAt(b, n) \cap online = {}
       /\ told' = told + 1
       /\ drivers' = n /\ cursor' = n
       /\ active' = FALSE /\ timer' = FALSE
       /\ UNCHANGED <<asked, late>>
    \/ \E b \in starts :
         /\ BatchAt(b, n) \cap online # {}
         /\ \A e \in starts : e < b => BatchAt(e, n) \cap online = {}
         /\ drivers' = n /\ cursor' = b + DISPATCH_BATCH_SIZE
         /\ active' = live /\ timer' = TRUE
         /\ NotifyDrivers(BatchAt(b, n) \cap online)

-----------------------------------------------------------------------------
(* dispatchRide                                                            *)

\* Mutant of DispatchRide: the rider is not told that there is no driver.
DispatchRideSilently(n, online) ==
    /\ creating
    /\ creating' = FALSE
    /\ \/ n > 0 /\ DispatchNextBatch(n, 0, TRUE, online)
       \/ n = 0 /\ UNCHANGED <<dispatch, sent>>
    /\ UNCHANGED <<ride, handler, stops, interrupted>>

\* n drivers are near, available and of the vehicle type.  The ride is not read again.
DispatchRide(n, online) ==
    /\ creating
    /\ creating' = FALSE
    /\ \/ n > 0 /\ DispatchNextBatch(n, 0, TRUE, online)
       \/ n = 0 /\ told' = told + 1 /\ UNCHANGED <<dispatch, asked, late>>
    /\ UNCHANGED <<ride, handler, stops, interrupted>>

\* Redis or Mongo fails: createRide logs it and answers.
DispatchRideThrows ==
    /\ creating
    /\ creating' = FALSE
    /\ interrupted' = TRUE
    /\ UNCHANGED <<ride, dispatch, handler, stops, sent>>

-----------------------------------------------------------------------------
(* handleDispatchTimeout                                                   *)

TimerFires ==
    /\ timer
    /\ timer' = FALSE
    /\ handler' = IF active THEN "checking" ELSE "idle"
    /\ UNCHANGED <<ride, creating, active, drivers, cursor, stops, sent, interrupted>>

\* Mutant of IsRideAccepted: the handler does not look at the ride.
AssumeSearching ==
    /\ handler = "checking"
    /\ handler' = "searching"
    /\ UNCHANGED <<ride, creating, dispatch, stops, sent, interrupted>>

\* The answer of isRideAccepted, which the handler acts on when its await returns.
IsRideAccepted ==
    /\ handler = "checking"
    /\ handler' = IF ride = "SEARCHING" THEN "searching" ELSE "accepted"
    /\ UNCHANGED <<ride, creating, dispatch, stops, sent, interrupted>>

HandlerCleansUp ==
    /\ handler = "accepted"
    /\ handler' = "idle"
    /\ CleanupDispatch
    /\ UNCHANGED <<ride, creating, drivers, cursor, stops, sent, interrupted>>

HandlerAsksNext(online) ==
    /\ handler = "searching"
    /\ handler' = "idle"
    /\ DispatchNextBatch(drivers, cursor, active, online)
    /\ UNCHANGED <<ride, creating, stops, interrupted>>

-----------------------------------------------------------------------------
(* ride.service.ts, other requests, the process                            *)

AcceptRide ==
    /\ ride = "SEARCHING"
    /\ ride' = "TAKEN"
    /\ stops' = stops \cup {"accept"}
    /\ UNCHANGED <<creating, dispatch, handler, sent, interrupted>>

\* cancelRide, or cancelRideByDriver once the ride is taken.
CancelRide ==
    /\ ride \in {"SEARCHING", "TAKEN"}
    /\ ride' = "CANCELLED"
    /\ stops' = stops \cup {"cancel"}
    /\ UNCHANGED <<creating, dispatch, handler, sent, interrupted>>

StopDispatch(s) ==
    /\ s \in stops
    /\ stops' = stops \ {s}
    /\ CleanupDispatch
    /\ UNCHANGED <<ride, creating, drivers, cursor, handler, sent, interrupted>>

\* The process dies, of its own when a handler's query rejects (index.ts exits on an
\* unhandled rejection): timers, dispatches and calls in flight are gone.
Crash ==
    /\ creating' = FALSE
    /\ active' = FALSE /\ drivers' = 0 /\ cursor' = 0 /\ timer' = FALSE
    /\ handler' = "idle"
    /\ stops' = {}
    /\ interrupted' = TRUE
    /\ UNCHANGED <<ride, sent>>

-----------------------------------------------------------------------------
Dispatching ==
    \E online \in SUBSET Drivers :
        (\E n \in 0..MaxDrivers : DispatchRide(n, online)) \/ HandlerAsksNext(online)

Next ==
    \/ Dispatching \/ DispatchRideThrows
    \/ TimerFires \/ IsRideAccepted \/ HandlerCleansUp
    \/ AcceptRide \/ CancelRide \/ (\E s \in {"accept", "cancel"} : StopDispatch(s))
    \/ Crash

Spec == Init /\ [][Next]_vars

\* The event loop: timers fire, awaited queries answer, calls go on.
Fairness ==
    /\ WF_vars(Dispatching) /\ WF_vars(TimerFires)
    /\ WF_vars(IsRideAccepted) /\ WF_vars(HandlerCleansUp)

FairSpec == Spec /\ Fairness

-----------------------------------------------------------------------------
(* Properties                                                              *)

\* The state is made of the variables of the service and of what was sent.
TypeOK ==
    /\ ride \in {"SEARCHING", "TAKEN", "CANCELLED"}
    /\ creating \in BOOLEAN /\ active \in BOOLEAN /\ timer \in BOOLEAN
    /\ drivers \in 0..MaxDrivers /\ cursor \in Nat
    /\ handler \in {"idle", "checking", "searching", "accepted"}
    /\ stops \subseteq {"accept", "cancel"}
    /\ asked \in [Drivers -> Nat] /\ told \in Nat /\ late \in Nat
    /\ interrupted \in BOOLEAN

\* No driver is sent the same ride twice, whatever timers, stops and crashes do
\* (currentIndex only moves forward, and no two timers serve one dispatch).
AskedOnce == \A d \in Drivers : asked[d] <= 1

\* Stopping races with a dispatch that has not started and with a handler that has already
\* read the ride; at most one batch is sent after the ride was taken or cancelled.
AtMostOneLateBatch == late <= 1

\* A searching ride is being dispatched or its rider was told that nobody is available,
\* unless the process lost the dispatch; it is told so once.
SearchingIsPursued ==
    /\ told <= 1
    /\ ride = "SEARCHING" => creating \/ active \/ told = 1 \/ interrupted

\* Every dispatch ends: no ride stays in activeDispatches for ever, even one that was
\* cancelled before its dispatch was stored or whose stopDispatch was never called.
DispatchEnds == []<>(~active)
=============================================================================

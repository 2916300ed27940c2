------------------------------- MODULE RideView -------------------------------
(***************************************************************************)
(* What the two people on a ride see of it: the rider's page               *)
(* (frontend/src/RideDetails.tsx) and the driver's dashboard               *)
(* (frontend/src/DriverDashboard.tsx), kept up to date by the events that  *)
(* ride.service and payment.service emit after they wrote the ride         *)
(* (backend/src/sockets/emitters), by what a page fetches, and by what a   *)
(* page assumes its own requests do.  Nothing polls and nothing reconnects. *)
(*                                                                         *)
(* The pages' requests run side by side and the emits follow each commit   *)
(* by an await, so neither keeps an order.  Events on one socket do.       *)
(***************************************************************************)
EXTENDS Naturals, Sequences, FiniteSets, SequencesExt

CONSTANTS
    Fetches,     \* GETs of the rider's page that may be under way at once
    MaxRequests, \* bound on the driver's messages under way at once
    MaxEvents    \* bound on events emitted or still to be emitted to the rider

ASSUME ViewAssumption == MaxRequests \in Nat \ {0} /\ MaxEvents \in Nat \ {0}

VARIABLES
    ride,      \* the Ride document: its status, and whether it is paid
    emits,     \* what committed operations still have to emit, in commit order
    requests,  \* the driver's messages that no handler has finished
    page,      \* the rider's page: its socket, the ride it shows, its events
    fetches,   \* GETs of the rider's page, with what the server answered
    cancel,    \* the PATCH of handleCancel; "left": the page that sent it is gone
    pay,       \* handlePayNow
    driver,    \* the driver's dashboard: whether it is open, the ride it shows
    excuse,    \* history: why the rider's page may be wrong, see Behind
    refused    \* history: the server did not, or may yet, do other than the dashboard assumes

serverVars == <<ride, emits>>
riderVars == <<page, fetches, cancel, pay>>
driverVars == <<driver, requests>>
vars == <<serverVars, riderVars, driverVars, excuse, refused>>

-----------------------------------------------------------------------------
Path == <<"SEARCHING", "DRIVER_ASSIGNED", "DRIVER_ARRIVING", "STARTED",
          "ARRIVED_AT_DESTINATION", "COMPLETED">>
RideStatus == ToSet(Path) \cup {"CANCELLED"}
Ended == {"COMPLETED", "CANCELLED"}
BUSY_RIDE_STATUSES == {"DRIVER_ASSIGNED", "DRIVER_ARRIVING", "STARTED", "ARRIVED_AT_DESTINATION"}
canCancel == {"SEARCHING", "DRIVER_ASSIGNED", "DRIVER_ARRIVING"}

Rank(s) == CHOOSE i \in 1 .. Len(Path) : Path[i] = s
\* A ride in status t has been in status s.
Reached(s, t) ==
    \/ s = t
    \/ s \notin Ended /\ t # "CANCELLED" /\ Rank(s) < Rank(t)
    \/ s \in canCancel /\ t = "CANCELLED"


Document == [status : RideStatus, paid : BOOLEAN]
NoRide == [status |-> "none", paid |-> FALSE]

\* What is shown is ahead of doc.
Older(doc, shown) ==
    /\ doc # shown /\ shown # NoRide
    /\ Reached(doc.status, shown.status)
    /\ doc.paid => shown.paid

\* An event: what it is, and the ride's status or the whole ride it carries.
\* A foreign one is of a ride the same rider had before.
Event(kind, doc) == [kind |-> kind, doc |-> doc, foreign |-> FALSE]
Late(s) == [kind |-> "status", doc |-> [status |-> s, paid |-> FALSE], foreign |-> TRUE]

Closed == [socket |-> "closed", shown |-> NoRide, inbox |-> <<>>]
Free == {f \in Fetches : fetches[f].pc = "idle"}
\* Which free place a request takes makes no difference.
Takes(f) == f = CHOOSE g \in Free : TRUE
Idle == [pc |-> "idle", for |-> "page", got |-> NoRide]

Init ==
    /\ ride = [status |-> "SEARCHING", paid |-> FALSE]
    /\ emits \in {<<>>, <<Late("COMPLETED")>>, <<Late("CANCELLED")>>}
    /\ requests = {}
    /\ page = Closed
    /\ fetches = [f \in Fetches |-> Idle]
    /\ cancel = "none" /\ pay = "none"
    /\ driver = [open |-> FALSE, shown |-> NoRide]
    /\ excuse = "none"
    /\ refused = FALSE

\* The rider's page may be wrong from here until it is loaded again: an event
\* did not reach it, or not in order, or an older answer came after it.
Behind == excuse' = IF excuse = "foreign" THEN "foreign" ELSE "behind"

-----------------------------------------------------------------------------
(* Operations of ride.service, as the ride and those on it see them        *)
(* (RideLifecycle has the rest of them).                                   *)

Commit(doc, events) ==
    /\ Len(emits) + Len(page.inbox) + Len(events) <= MaxEvents
    /\ ride' = doc
    /\ emits' = emits \o events

\* Mutant of Step: the rider is told of the next step only, not of a cancellation.
StepUntold(from, to) ==
    LET doc == [ride EXCEPT !.status = to]
    IN  /\ ride.status \in from
        /\ Commit(doc, IF to = "CANCELLED" THEN <<>>
                       ELSE <<Event(IF to = "DRIVER_ASSIGNED" THEN "accepted" ELSE "status", doc)>>)

\* The update filters on the status; the event tells the rider.
Step(from, to) ==
    LET doc == [ride EXCEPT !.status = to]
    IN  /\ ride.status \in from
        /\ Commit(doc, <<Event(IF to = "DRIVER_ASSIGNED" THEN "accepted" ELSE "status", doc)>>)

\* What a message of the driver asks for, and the statuses it is good for.
Wanted ==
    [accept |-> <<{"SEARCHING"}, "DRIVER_ASSIGNED">>,
     arrive |-> <<{"DRIVER_ASSIGNED"}, "DRIVER_ARRIVING">>,
     start |-> <<{"DRIVER_ARRIVING"}, "STARTED">>,
     destination |-> <<{"STARTED"}, "ARRIVED_AT_DESTINATION">>,
     complete |-> <<{"ARRIVED_AT_DESTINATION"}, "COMPLETED">>,
     cancel |-> <<{"DRIVER_ASSIGNED", "DRIVER_ARRIVING"}, "CANCELLED">>]
Messages == DOMAIN Wanted

Allowed(m) == ride.status \in Wanted[m][1] /\ (m = "complete" => ride.paid)

HandleDriver(m) ==
    /\ m \in requests
    /\ requests' = requests \ {m}
    /\ Allowed(m)
    /\ Step(Wanted[m][1], Wanted[m][2])
    /\ UNCHANGED <<riderVars, driver, excuse, refused>>

\* The update matches nothing, a transaction aborts or the message is lost; the
\* dashboard shows the error, if it is there, and not the ride as it is.
RefuseDriver(m) ==
    /\ m \in requests
    /\ requests' = requests \ {m}
    /\ refused' = TRUE
    /\ UNCHANGED <<serverVars, riderVars, driver, excuse>>

\* cancelRide.  Its RIDE_CANCELLED goes to the rider sockets of the driver's id:
\* there are none, so that only the page that asked hears of it.
CancelRide ==
    /\ cancel \in {"asked", "left"}
    /\ ride.status \in canCancel
    /\ ride' = [ride EXCEPT !.status = "CANCELLED"]
    /\ cancel' = IF cancel = "asked" THEN "done" ELSE "none"
    /\ IF cancel = "asked" THEN UNCHANGED excuse ELSE Behind
    /\ UNCHANGED <<emits, page, fetches, pay, driverVars, refused>>

\* The ride was assigned to this driver, who rides along the Path; a capture
\* puts the ride in the events for both.
PaymentCaptured ==
    /\ pay \in {"checkout", "left"} /\ ~ride.paid
    /\ LET doc == [ride EXCEPT !.paid = TRUE]
       IN  Commit(doc, <<Event("captured", doc)>>)
    /\ UNCHANGED <<riderVars, driverVars, excuse, refused>>

-----------------------------------------------------------------------------
(* emitToRider, emitToDriver                                               *)

\* The driver's dashboard merges the ride of PAYMENT_CAPTURED, if it shows one.
DriverHears(e) ==
    driver' = IF e.kind = "captured" /\ driver.shown # NoRide
              THEN [driver EXCEPT !.shown = e.doc] ELSE driver

\* One of the emits that are due: to the page if its socket is registered.
Emit(i, arrives) ==
    /\ i \in 1 .. Len(emits)
    /\ emits' = RemoveAt(emits, i)
    /\ arrives => page.socket = "open"
    /\ IF arrives
       THEN /\ page' = [page EXCEPT !.inbox = Append(@, emits[i])]
            /\ IF i = 1 THEN UNCHANGED excuse ELSE Behind
       ELSE UNCHANGED page /\ IF emits[i].foreign THEN UNCHANGED excuse ELSE Behind
    /\ DriverHears(emits[i])
    /\ UNCHANGED <<ride, fetches, cancel, pay, requests, refused>>

\* setDriverBusy or setDriverAvailable throws between the commit and the emit.
OperationThrows(i) ==
    /\ i \in 1 .. Len(emits)
    /\ emits[i].kind # "captured"
    /\ emits' = RemoveAt(emits, i)
    /\ Behind
    /\ UNCHANGED <<ride, riderVars, driverVars, refused>>

-----------------------------------------------------------------------------
(* RideDetails.                                                            *)

Start(f, for) == fetches' = [fetches EXCEPT ![f] = [pc |-> "asked", for |-> for, got |-> NoRide]]

\* Both effects of the mount: fetchRideDetails and connectRiderSocket.
OpenPage ==
    /\ page = Closed
    /\ fetches = [f \in Fetches |-> Idle] /\ cancel \in {"none", "left"} /\ pay \in {"none", "left"}
    /\ \E f \in Fetches : Takes(f) /\ Start(f, "page")
    /\ page' = [Closed EXCEPT !.socket = "connecting"]
    /\ excuse' = "none"
    /\ UNCHANGED <<serverVars, cancel, pay, driverVars, refused>>

Connected ==
    /\ page.socket = "connecting"
    /\ page' = [page EXCEPT !.socket = "open"]
    /\ UNCHANGED <<serverVars, fetches, cancel, pay, driverVars, excuse, refused>>

\* The page is left or loaded again: the answers to what it asked are forgotten,
\* but the server may still cancel the ride or capture the payment.
ClosePage ==
    /\ page.socket # "closed"
    /\ page' = Closed
    /\ fetches' = [f \in Fetches |-> Idle]
    /\ cancel' = IF cancel \in {"asked", "left"} THEN "left" ELSE "none"
    /\ pay' = IF pay \in {"checkout", "left"} THEN "left" ELSE "none"
    /\ UNCHANGED <<serverVars, driverVars, excuse, refused>>

\* The server answers GET /ride/:id; fare-preview answers at the destination only.
Answer(f) ==
    /\ fetches[f].pc = "asked"
    /\ \/ /\ fetches[f].for = "preview" => ride.status \in {"ARRIVED_AT_DESTINATION", "COMPLETED"}
          /\ fetches' = [fetches EXCEPT ![f].pc = "answered", ![f].got = ride]
       \/ fetches' = [fetches EXCEPT ![f].pc = "failed"]
    /\ UNCHANGED <<serverVars, page, cancel, pay, driverVars, excuse, refused>>

\* setRide of the whole answer, whatever the page learned since it was read.
Answered(f) ==
    /\ fetches[f].pc = "answered"
    /\ page' = [page EXCEPT !.shown = fetches[f].got]
    /\ fetches' = [fetches EXCEPT ![f] = Idle]
    /\ pay' = IF fetches[f].for = "preview" THEN "ordering" ELSE pay
    /\ IF Older(fetches[f].got, page.shown) THEN Behind ELSE UNCHANGED excuse
    /\ UNCHANGED <<serverVars, cancel, driverVars, refused>>

\* fetchRideDetails ignores an error; handlePayNow stops.
FetchFailed(f) ==
    /\ fetches[f].pc = "failed"
    /\ fetches' = [fetches EXCEPT ![f] = Idle]
    /\ pay' = IF fetches[f].for = "preview" THEN "none" ELSE pay
    /\ IF fetches[f].for = "preview" THEN UNCHANGED excuse ELSE Behind
    /\ UNCHANGED <<serverVars, page, cancel, driverVars, refused>>

\* The next event.  Only PAYMENT_CAPTURED says which ride it is about.
Receive ==
    /\ page.inbox # <<>>
    /\ LET e == Head(page.inbox)
           show(doc) == page' = [page EXCEPT !.inbox = Tail(@), !.shown = doc]
           shown == page.shown
       IN  \/ /\ e.kind = "accepted"
              /\ \E f \in Free : Takes(f) /\ Start(f, "page")
              /\ show(shown)
              /\ UNCHANGED excuse
           \/ /\ e.kind # "accepted" /\ shown = NoRide
              /\ show(NoRide)
              /\ Behind
              /\ UNCHANGED fetches
           \/ /\ e.kind = "status" /\ shown # NoRide
              /\ show([shown EXCEPT !.status = e.doc.status])
              /\ IF e.foreign THEN excuse' = "foreign"
                 ELSE IF Older(e.doc, shown) THEN Behind ELSE UNCHANGED excuse
              /\ UNCHANGED fetches
           \/ /\ e.kind = "captured" /\ shown # NoRide
              /\ show(e.doc)
              /\ IF Older(e.doc, shown) THEN Behind ELSE UNCHANGED excuse
              /\ UNCHANGED fetches
    /\ UNCHANGED <<serverVars, cancel, pay, driverVars, refused>>

-----------------------------------------------------------------------------
(* handleCancel and handlePayNow.                                          *)

\* A page asks once while a PATCH is with the server, be it another page's.
AskCancel ==
    /\ page.shown.status \in canCancel /\ cancel = "none"
    /\ cancel' = "asked"
    /\ UNCHANGED <<serverVars, page, fetches, pay, driverVars, excuse, refused>>

\* 200, or an error: refused, or lost, or setDriverAvailable threw after the commit.
\* Nobody sees the answer to a page that was left.
CancelAnswered ==
    /\ \/ /\ cancel = "done"
          /\ page' = [page EXCEPT !.shown = IF @ = NoRide THEN @ ELSE [@ EXCEPT !.status = "CANCELLED"]]
          /\ UNCHANGED excuse
       \/ cancel \in {"asked", "done"} /\ UNCHANGED page /\ Behind
       \/ cancel = "left" /\ UNCHANGED <<page, excuse>>
    /\ cancel' = "none"
    /\ UNCHANGED <<serverVars, fetches, pay, driverVars, refused>>

PayNow ==
    /\ page.shown.status = "ARRIVED_AT_DESTINATION" /\ ~page.shown.paid
    /\ pay \in {"none", "left"}
    /\ pay' = "previewing"
    /\ \E f \in Free : Takes(f) /\ Start(f, "preview")
    /\ UNCHANGED <<serverVars, page, cancel, driverVars, excuse, refused>>

\* createPaymentOrder; PaymentCapture has what the server does.
OrderAnswered ==
    /\ pay = "ordering"
    /\ \/ pay' = "checkout" /\ ride.status = "ARRIVED_AT_DESTINATION" /\ ~ride.paid
       \/ pay' = "none"
    /\ UNCHANGED <<serverVars, page, fetches, cancel, driverVars, excuse, refused>>

\* verifyPaymentSignature answered with the payment's status; or the rider
\* closed the checkout, or /verify failed.
CheckoutEnds ==
    /\ pay = "checkout"
    /\ \/ ride.paid /\ page.shown # NoRide /\ page' = [page EXCEPT !.shown.paid = TRUE]
       \/ UNCHANGED page
    /\ pay' = "left"
    /\ UNCHANGED <<serverVars, fetches, cancel, driverVars, excuse, refused>>

-----------------------------------------------------------------------------
(* DriverDashboard.                                                        *)

\* The dashboard loads the driver's current ride, whatever messages of an earlier
\* one the server has still to handle.
OpenDashboard ==
    /\ driver' = [open |-> TRUE,
                  shown |-> IF ride.status \in BUSY_RIDE_STATUSES THEN ride ELSE NoRide]
    /\ refused' = (requests # {})
    /\ UNCHANGED <<serverVars, riderVars, requests, excuse>>

\* NEW_RIDE of this ride, see RideDispatch.
Offered ==
    /\ driver.open /\ driver.shown = NoRide
    /\ ride.status = "SEARCHING"
    /\ driver' = [driver EXCEPT !.shown = ride]
    /\ UNCHANGED <<serverVars, riderVars, requests, excuse, refused>>

\* handleRejectRide: the server has nothing to do.
RejectRide ==
    /\ driver.open /\ driver.shown.status = "SEARCHING"
    /\ driver' = [driver EXCEPT !.shown = NoRide]
    /\ UNCHANGED <<serverVars, riderVars, requests, excuse, refused>>

Buttons(s) == {m \in Messages : s \in Wanted[m][1]}

\* Mutant of Assume: START_RIDE leaves the ride as it is.
AssumeLess(m) == IF m \in {"complete", "start"} THEN driver.shown.status ELSE Wanted[m][2]

\* Mutant of Assume: COMPLETE_RIDE clears the status of the ride shown, not the ride.
AssumeCleared(m) == IF m = "complete" THEN "none" ELSE Wanted[m][2]

\* What the dashboard shows at once: COMPLETE_RIDE leaves it as it is.
Assume(m) == IF m = "complete" THEN driver.shown.status ELSE Wanted[m][2]

\* handleAcceptRide, handleCancelRide, sendRideAction.
Send(m) ==
    /\ driver.open /\ m \in Buttons(driver.shown.status) \ requests
    /\ m = "complete" => driver.shown.paid
    /\ Cardinality(requests) < MaxRequests
    /\ requests' = requests \cup {m}
    /\ driver' = [driver EXCEPT !.shown.status = Assume(m)]
    /\ UNCHANGED <<serverVars, riderVars, excuse, refused>>

-----------------------------------------------------------------------------
EmitNext == \E i \in 1 .. MaxEvents, arrives \in BOOLEAN : Emit(i, arrives)
Settles(f) == Answer(f) \/ Answered(f) \/ FetchFailed(f)

Next ==
    \/ \E m \in Messages : HandleDriver(m) \/ RefuseDriver(m) \/ Send(m)
    \/ CancelRide \/ PaymentCaptured
    \/ EmitNext \/ \E i \in 1 .. MaxEvents : OperationThrows(i)
    \/ OpenPage \/ Connected \/ ClosePage \/ Receive
    \/ \E f \in Fetches : Settles(f)
    \/ AskCancel \/ CancelAnswered \/ PayNow \/ OrderAnswered \/ CheckoutEnds
    \/ OpenDashboard \/ Offered \/ RejectRide

Spec == Init /\ [][Next]_vars

\* Events go out and arrive, connections are made, requests are answered.
FairSpec ==
    /\ Spec
    /\ WF_vars(EmitNext)
    /\ WF_vars(Connected \/ Receive)
    /\ WF_vars(CancelAnswered \/ \E f \in Fetches : Settles(f))

-----------------------------------------------------------------------------
\* Shape of the state.
TypeOK ==
    /\ ride \in Document
    /\ \A e \in ToSet(emits \o page.inbox) :
        e.kind \in {"accepted", "status", "captured"} /\ e.doc \in Document
    /\ Len(emits) + Len(page.inbox) <= MaxEvents
    /\ requests \subseteq Messages /\ Cardinality(requests) <= MaxRequests
    /\ page.socket \in {"closed", "connecting", "open"}
    /\ page.shown \in Document \cup {NoRide}
    /\ \A f \in Fetches :
        /\ fetches[f].pc \in {"idle", "asked", "answered", "failed"}
        /\ fetches[f].for \in {"page", "preview"}
        /\ fetches[f].got \in Document \cup {NoRide}
    /\ cancel \in {"none", "asked", "done", "left"}
    /\ pay \in {"none", "previewing", "ordering", "checkout", "left"}
    /\ driver.open \in BOOLEAN /\ driver.shown \in Document \cup {NoRide}
    /\ excuse \in {"none", "behind", "foreign"} /\ refused \in BOOLEAN

\* The rider's page never shows a step the ride has not made, nor a payment
\* that was not captured, unless an event of another ride was taken for one of
\* this ride (the handlers of RideDetails do not look at rideId); and when
\* nothing is under way any more it shows the ride as it is, unless an event
\* was lost or came out of turn.
Quiet == emits = <<>> /\ page.inbox = <<>> /\ Free = Fetches /\ cancel \in {"none", "left"}
RiderIsInSync ==
    /\ page.shown # NoRide /\ excuse # "foreign" =>
        /\ Reached(page.shown.status, ride.status)
        /\ page.shown.paid => ride.paid
    /\ Quiet /\ page.socket # "closed" /\ excuse = "none" => page.shown = ride

\* The dashboard shows the step the ride is in once its messages are handled,
\* none was refused and it was not loaded over any; how a ride ends it learns only where it ended it.
DriverIsInSync ==
    driver.shown.status \in BUSY_RIDE_STATUSES /\ requests = {} /\ ~refused =>
        \/ driver.shown.status = ride.status
        \/ driver.shown.status = "ARRIVED_AT_DESTINATION" /\ ride.status = "COMPLETED"
        \/ driver.shown.status \in canCancel /\ ride.status = "CANCELLED"

\* The rider of a ride that ended sees it end, or has left the page, or an
\* event was lost or came out of turn.
EndIsShown ==
    ride.status \in Ended ~>
        page.shown.status \in Ended \/ page.socket = "closed" \/ excuse # "none"

\* "Notify Driver" (cancelRide, ride.service.ts): a dashboard that shows the ride under
\* way learns that it was cancelled.  False, see CancelRide: the driver hears of the
\* rider's cancellation only by a refusal.
CancellationReachesDriver ==
    ride.status = "CANCELLED" /\ driver.shown.status \in BUSY_RIDE_STATUSES /\ requests = {}
        ~> driver.shown.status \notin BUSY_RIDE_STATUSES
=============================================================================

------------------------ MODULE PaymentCaptureProofs ------------------------
(***************************************************************************)
(* Proofs about PaymentCapture, for any number of rides, orders, attempts, *)
(* requests and handlers: its safety invariants, that a paid payment never *)
(* changes again, and that the whole flow implements FareContract.         *)
(***************************************************************************)
EXTENDS PaymentCapture, TLAPS

-----------------------------------------------------------------------------
(* The inductive invariant.                                                *)

\* A Payment document belongs to a ride, and a ride has at most one of them:
\* the unique index on idempotencyKey.
UniqueKey ==
    /\ \A o \in Orders : Recorded(o) => rideOf[o] \in Rides
    /\ \A o1, o2 \in Orders :
          Recorded(o1) /\ Recorded(o2) /\ rideOf[o1] = rideOf[o2] => o1 = o2

\* Only recorded orders reach a browser.
CheckoutRecorded == \A o \in checkout : Recorded(o)

\* What a createOrder request carries from one await to the next.
RequestOK(q) ==
    /\ req[q].pc # "idle" => req[q].ride \in Rides
    /\ req[q].pc = "insert" =>
          req[q].order \in Orders /\ rideOf[req[q].order] = req[q].ride
    /\ req[q].pc \in {"reopen", "reopenRide"} =>
          req[q].order \in Orders /\ Recorded(req[q].order)
    /\ req[q].pc = "respond" /\ req[q].order # Nobody =>
          req[q].order \in Orders /\ Recorded(req[q].order)
RequestInv == \A q \in Requests : RequestOK(q)

\* A try is made on an order the browser was given, and an order is captured once.
AttemptInv ==
    /\ \A p \in Attempts : attempt[p].status # "none" => attempt[p].order \in checkout
    /\ \A p \in Attempts : attempt[p].signed => attempt[p].status # "none"
    /\ \A p1, p2 \in Attempts :
          /\ attempt[p1].status = "captured" /\ attempt[p2].status = "captured"
          /\ attempt[p1].order = attempt[p2].order
          => p1 = p2

\* What an event handler carries from one await to the next.
JobOK(h) ==
    job[h].pc # "idle" =>
        /\ job[h].attempt \in Attempts
        /\ attempt[job[h].attempt].status # "none"
        /\ job[h].pc = "capture" => attempt[job[h].attempt].status = "captured"
JobInv == \A h \in Handlers \cup {Sweep} : JobOK(h)

MoneyInv == LedgerFollowsCapture /\ RideFollowsCapture /\ CapturedNamesTheMoney

\* The part about documents, orders and money.
DocumentInv == UniqueKey /\ CheckoutRecorded /\ AttemptInv /\ MoneyInv

IInv == TypeOK /\ DocumentInv /\ RequestInv /\ JobInv

-----------------------------------------------------------------------------
(* What the state updates of the model do, stated once.                    *)

\* The fields of every record of the state are of their types.
LEMMA FieldTypes ==
    ASSUME TypeOK
    PROVE  /\ \A o \in Orders : /\ payment[o].status \in PaymentStatus \cup {ABSENT}
                                /\ payment[o].attemptNumber \in 0 .. AttemptNumberBound
                                /\ payment[o].lastFailed \in Attempts \cup {Nobody}
                                /\ payment[o].gatewayPaymentId \in Attempts \cup {Nobody}
           /\ \A q \in Requests : /\ req[q].pc \in RequestPC
                                  /\ req[q].ride \in Rides \cup {Nobody}
                                  /\ req[q].order \in Orders \cup {Nobody}
           /\ \A p \in Attempts : /\ attempt[p].order \in Orders \cup {Nobody}
                                  /\ attempt[p].status \in AttemptStatus
                                  /\ attempt[p].signed \in BOOLEAN
           /\ \A h \in Handlers \cup {Sweep} : /\ job[h].pc \in JobPC
                                               /\ job[h].attempt \in Attempts \cup {Nobody}
<1>1. \A o \in Orders : payment[o] \in PaymentDoc
  BY DEF TypeOK
<1>2. \A q \in Requests : req[q] \in RequestState
  BY DEF TypeOK
<1>3. \A p \in Attempts : attempt[p] \in AttemptState
  BY DEF TypeOK
<1>4. \A h \in Handlers \cup {Sweep} : job[h] \in JobState
  BY DEF TypeOK
<1>5. QED
  BY <1>1, <1>2, <1>3, <1>4 DEF PaymentDoc, RequestState, AttemptState, JobState

\* Save writes one document and leaves the others alone.
LEMMA SaveEffect ==
    ASSUME TypeOK, NEW o \in Orders, NEW s \in PaymentStatus \cup {ABSENT},
           NEW n \in 0 .. AttemptNumberBound, NEW f \in Attempts \cup {Nobody},
           NEW id \in Attempts \cup {Nobody}, Save(o, Document(s, n, f, id))
    PROVE  /\ payment' \in [Orders -> PaymentDoc]
           /\ payment'[o] = Document(s, n, f, id)
           /\ payment'[o].status = s /\ payment'[o].gatewayPaymentId = id
           /\ \A o2 \in Orders \ {o} : payment'[o2] = payment[o2]
<1>1. Document(s, n, f, id) \in PaymentDoc
  BY DEF Document, PaymentDoc
<1>2. payment \in [Orders -> PaymentDoc]
  BY DEF TypeOK
<1>3. /\ payment' \in [Orders -> PaymentDoc]
      /\ payment'[o] = Document(s, n, f, id)
      /\ \A o2 \in Orders \ {o} : payment'[o2] = payment[o2]
  BY <1>1, <1>2 DEF Save
<1>4. QED
  BY <1>3 DEF Document

\* At moves one request and leaves the others alone.
LEMMA AtEffect ==
    ASSUME TypeOK, NEW q \in Requests, NEW pc \in RequestPC,
           NEW r \in Rides \cup {Nobody}, NEW o \in Orders \cup {Nobody}, At(q, pc, r, o)
    PROVE  /\ req' \in [Requests -> RequestState]
           /\ req'[q].pc = pc /\ req'[q].ride = r /\ req'[q].order = o
           /\ \A q2 \in Requests \ {q} : req'[q2] = req[q2]
<1>1. [pc |-> pc, ride |-> r, order |-> o] \in RequestState
  BY DEF RequestState
<1>2. req \in [Requests -> RequestState]
  BY DEF TypeOK
<1>3. /\ req' \in [Requests -> RequestState]
      /\ req'[q] = [pc |-> pc, ride |-> r, order |-> o]
      /\ \A q2 \in Requests \ {q} : req'[q2] = req[q2]
  BY <1>1, <1>2 DEF At
<1>4. QED
  BY <1>3

\* Start moves one event handler and leaves the others alone.
LEMMA StartEffect ==
    ASSUME TypeOK, NEW h \in Handlers \cup {Sweep}, NEW pc \in JobPC,
           NEW p \in Attempts \cup {Nobody}, Start(h, pc, p)
    PROVE  /\ job' \in [Handlers \cup {Sweep} -> JobState]
           /\ job'[h].pc = pc /\ job'[h].attempt = p
           /\ \A h2 \in (Handlers \cup {Sweep}) \ {h} : job'[h2] = job[h2]
<1>1. [pc |-> pc, attempt |-> p] \in JobState
  BY DEF JobState
<1>2. job \in [Handlers \cup {Sweep} -> JobState]
  BY DEF TypeOK
<1>3. /\ job' \in [Handlers \cup {Sweep} -> JobState]
      /\ job'[h] = [pc |-> pc, attempt |-> p]
      /\ \A h2 \in (Handlers \cup {Sweep}) \ {h} : job'[h2] = job[h2]
  BY <1>1, <1>2 DEF Start
<1>4. QED
  BY <1>3

\* SetAttempt changes one attempt and leaves the others alone.
LEMMA SetAttemptEffect ==
    ASSUME TypeOK, NEW p \in Attempts, NEW o \in Orders \cup {Nobody},
           NEW s \in AttemptStatus, NEW signed \in BOOLEAN, SetAttempt(p, o, s, signed)
    PROVE  /\ attempt' \in [Attempts -> AttemptState]
           /\ attempt'[p].order = o /\ attempt'[p].status = s /\ attempt'[p].signed = signed
           /\ \A p2 \in Attempts \ {p} : attempt'[p2] = attempt[p2]
<1>1. [order |-> o, status |-> s, signed |-> signed] \in AttemptState
  BY DEF AttemptState
<1>2. attempt \in [Attempts -> AttemptState]
  BY DEF TypeOK
<1>3. /\ attempt' \in [Attempts -> AttemptState]
      /\ attempt'[p] = [order |-> o, status |-> s, signed |-> signed]
      /\ \A p2 \in Attempts \ {p} : attempt'[p2] = attempt[p2]
  BY <1>1, <1>2 DEF SetAttempt
<1>4. QED
  BY <1>3

-----------------------------------------------------------------------------
(* What each part of the invariant depends on.                             *)

\* Nothing recorded is forgotten and no order changes its ride.
OrdersGrow ==
    /\ \A o \in Orders : Recorded(o) => Recorded(o)'
    /\ \A o \in Orders : rideOf[o] \in Rides => rideOf'[o] = rideOf[o]

\* Nothing the gateway reported is taken back.
AttemptsGrow ==
    /\ \A p \in Attempts : attempt[p].status # "none" => attempt'[p].status # "none"
    /\ \A p \in Attempts : attempt[p].status = "captured" => attempt'[p] = attempt[p]

\* A createOrder step keeps RequestInv when the moved request respects it.
LEMMA RequestMoves ==
    ASSUME TypeOK, RequestInv, OrdersGrow,
           NEW q \in Requests, NEW pc \in RequestPC, NEW r \in Rides \cup {Nobody},
           NEW o \in Orders \cup {Nobody}, At(q, pc, r, o),
           pc # "idle" => r \in Rides,
           pc = "insert" => o \in Orders /\ rideOf'[o] = r,
           pc \in {"reopen", "reopenRide"} => o \in Orders /\ Recorded(o)',
           pc = "respond" /\ o # Nobody => o \in Orders /\ Recorded(o)'
    PROVE  req' \in [Requests -> RequestState] /\ RequestInv'
<1>1. /\ req' \in [Requests -> RequestState]
      /\ req'[q].pc = pc /\ req'[q].ride = r /\ req'[q].order = o
      /\ \A q2 \in Requests \ {q} : req'[q2] = req[q2]
  BY AtEffect
<1>2. RequestOK(q)'
  BY <1>1 DEF RequestOK
<1>3. ASSUME NEW q2 \in Requests \ {q} PROVE RequestOK(q2)'
  <2>1. RequestOK(q2) /\ req'[q2] = req[q2]
    BY <1>1, <1>3 DEF RequestInv
  <2>2. QED
    BY <2>1 DEF RequestOK, OrdersGrow
<1>4. QED
  BY <1>1, <1>2, <1>3 DEF RequestInv

LEMMA RequestsKept ==
    ASSUME RequestInv, OrdersGrow, UNCHANGED req
    PROVE  RequestInv'
<1>1. ASSUME NEW q \in Requests PROVE RequestOK(q)'
  <2>1. RequestOK(q)
    BY <1>1 DEF RequestInv
  <2>2. QED
    BY <2>1 DEF RequestOK, OrdersGrow
<1>2. QED
  BY <1>1 DEF RequestInv

\* An event step keeps JobInv when the moved handler respects it.
LEMMA JobMoves ==
    ASSUME TypeOK, JobInv, AttemptsGrow,
           NEW h \in Handlers \cup {Sweep}, NEW pc \in JobPC,
           NEW p \in Attempts \cup {Nobody}, Start(h, pc, p),
           pc # "idle" => p \in Attempts /\ attempt'[p].status # "none",
           pc = "capture" => attempt'[p].status = "captured"
    PROVE  job' \in [Handlers \cup {Sweep} -> JobState] /\ JobInv'
<1>1. /\ job' \in [Handlers \cup {Sweep} -> JobState]
      /\ job'[h].pc = pc /\ job'[h].attempt = p
      /\ \A h2 \in (Handlers \cup {Sweep}) \ {h} : job'[h2] = job[h2]
  BY StartEffect
<1>2. JobOK(h)'
  BY <1>1 DEF JobOK
<1>3. ASSUME NEW h2 \in (Handlers \cup {Sweep}) \ {h} PROVE JobOK(h2)'
  <2>1. JobOK(h2) /\ job'[h2] = job[h2]
    BY <1>1, <1>3 DEF JobInv
  <2>2. QED
    BY <2>1 DEF JobOK, AttemptsGrow
<1>4. QED
  BY <1>1, <1>2, <1>3 DEF JobInv

LEMMA JobsKept ==
    ASSUME JobInv, AttemptsGrow, UNCHANGED job
    PROVE  JobInv'
<1>1. ASSUME NEW h \in Handlers \cup {Sweep} PROVE JobOK(h)'
  <2>1. JobOK(h)
    BY <1>1 DEF JobInv
  <2>2. QED
    BY <2>1 DEF JobOK, AttemptsGrow
<1>2. QED
  BY <1>1 DEF JobInv

LEMMA NothingGrows ==
    ASSUME UNCHANGED <<payment, rideOf, attempt>>
    PROVE  OrdersGrow /\ AttemptsGrow
BY DEF OrdersGrow, AttemptsGrow, Recorded

LEMMA DocumentsKept ==
    ASSUME DocumentInv,
           UNCHANGED <<ridePayment, payment, captures, rideOf, attempt, checkout>>
    PROVE  DocumentInv' /\ OrdersGrow /\ AttemptsGrow
<1>1. UniqueKey' /\ CheckoutRecorded' /\ AttemptInv'
  BY DEF DocumentInv, UniqueKey, CheckoutRecorded, AttemptInv, Recorded
<1>2. MoneyInv'
  BY DEF DocumentInv, MoneyInv, LedgerFollowsCapture, RideFollowsCapture,
     CapturedNamesTheMoney, PaymentsOf, Paid, Recorded
<1>3. QED
  BY <1>1, <1>2, NothingGrows DEF DocumentInv

\* Rewriting an unpaid document without paying it disturbs nothing: reopening a
\* failed payment, authorizing it, marking it pending or failed.
LEMMA UnpaidRewritten ==
    ASSUME TypeOK, DocumentInv, NEW o \in Orders, Recorded(o), ~ Paid(o),
           NEW s \in PaymentStatus \ PAID_STATUSES, NEW n \in 0 .. AttemptNumberBound,
           NEW f \in Attempts \cup {Nobody}, NEW id \in Attempts \cup {Nobody},
           Save(o, Document(s, n, f, id)),
           UNCHANGED <<ridePayment, captures, rideOf, attempt, checkout>>
    PROVE  /\ payment' \in [Orders -> PaymentDoc]
           /\ DocumentInv' /\ OrdersGrow /\ AttemptsGrow
<1>0. s # ABSENT /\ s \notin PAID_STATUSES
  BY DEF PaymentStatus, CAPTURABLE_FROM_STATUSES, PAID_STATUSES, ABSENT
<1>1. /\ payment' \in [Orders -> PaymentDoc]
      /\ payment'[o].status = s
      /\ \A o2 \in Orders \ {o} : payment'[o2] = payment[o2]
  BY SaveEffect
<1>2. \A o2 \in Orders : /\ Recorded(o2)' <=> Recorded(o2)
                         /\ Paid(o2)' <=> Paid(o2)
                         /\ Paid(o2) => payment'[o2] = payment[o2]
  BY <1>0, <1>1 DEF Recorded, Paid
<1>3. checkout \subseteq Orders
  BY DEF TypeOK
<1>4. UniqueKey' /\ CheckoutRecorded' /\ AttemptInv'
  BY <1>2, <1>3 DEF DocumentInv, UniqueKey, CheckoutRecorded, AttemptInv
<1>5. LedgerFollowsCapture'
  BY <1>2 DEF DocumentInv, MoneyInv, LedgerFollowsCapture
<1>6. RideFollowsCapture'
  <2>1. \A r \in Rides : PaymentsOf(r)' = PaymentsOf(r)
    BY <1>2 DEF PaymentsOf
  <2>2. QED
    BY <1>2, <2>1 DEF DocumentInv, MoneyInv, RideFollowsCapture, PaymentsOf
<1>7. CapturedNamesTheMoney'
  BY <1>2 DEF DocumentInv, MoneyInv, CapturedNamesTheMoney
<1>8. OrdersGrow /\ AttemptsGrow
  BY <1>2 DEF OrdersGrow, AttemptsGrow
<1>9. QED
  BY <1>1, <1>4, <1>5, <1>6, <1>7, <1>8 DEF DocumentInv, MoneyInv

\* A ride's status may move among the unpaid ones, and only there.
LEMMA UnpaidRideRewritten ==
    ASSUME TypeOK, DocumentInv,
           \A r \in Rides : ridePayment'[r] = "CAPTURED" <=> ridePayment[r] = "CAPTURED",
           UNCHANGED <<payment, captures, rideOf, attempt, checkout>>
    PROVE  DocumentInv' /\ OrdersGrow /\ AttemptsGrow
<1>1. UniqueKey' /\ CheckoutRecorded' /\ AttemptInv'
  BY DEF DocumentInv, UniqueKey, CheckoutRecorded, AttemptInv, Recorded
<1>2. LedgerFollowsCapture' /\ CapturedNamesTheMoney'
  BY DEF DocumentInv, MoneyInv, LedgerFollowsCapture, CapturedNamesTheMoney, Paid
<1>3. RideFollowsCapture'
  BY DEF DocumentInv, MoneyInv, RideFollowsCapture, PaymentsOf, Paid, Recorded
<1>4. QED
  BY <1>1, <1>2, <1>3, NothingGrows DEF DocumentInv, MoneyInv

-----------------------------------------------------------------------------
(* The initial states.                                                     *)

LEMMA InitInv == ASSUME Init PROVE IInv
<1>1. TypeOK
  BY ConstantsAssumption
     DEF Init, TypeOK, PaymentDoc, NoDoc, Document, PaymentStatus, ABSENT,
         PAYABLE_RIDE_PAYMENT_STATUSES, RequestState, RequestPC, AttemptState,
         AttemptStatus, JobState, JobPC
<1>2. \A o \in Orders : ~ Recorded(o) /\ ~ Paid(o)
  BY DEF Init, NoDoc, Document, Recorded, Paid, ABSENT, PAID_STATUSES
<1>3. UniqueKey /\ CheckoutRecorded
  BY <1>2 DEF Init, UniqueKey, CheckoutRecorded
<1>4. AttemptInv
  BY DEF Init, AttemptInv
<1>5. MoneyInv
  BY <1>2 DEF Init, MoneyInv, LedgerFollowsCapture, RideFollowsCapture,
     CapturedNamesTheMoney, PaymentsOf
<1>6. RequestInv /\ JobInv
  BY DEF Init, RequestInv, RequestOK, JobInv, JobOK
<1>7. QED
  BY <1>1, <1>3, <1>4, <1>5, <1>6 DEF IInv, DocumentInv

-----------------------------------------------------------------------------
(* The steps of createOrder, of the fare preview and of the lock.          *)

\* A step that only moves a request, takes or frees a lock or prices a ride.
LEMMA OnlyRequestMoves ==
    ASSUME IInv, req' \in [Requests -> RequestState], RequestInv',
           priced' \in [Rides -> BOOLEAN], lock' \in [Rides -> Requests \cup {Nobody}],
           UNCHANGED <<ridePayment, aged, payment, captures, rideOf, attempt, checkout, job>>
    PROVE  IInv'
<1>1. DocumentInv' /\ AttemptsGrow
  BY DocumentsKept DEF IInv
<1>2. JobInv'
  BY <1>1, JobsKept DEF IInv
<1>3. TypeOK'
  BY DEF IInv, TypeOK
<1>4. QED
  BY <1>1, <1>2, <1>3 DEF IInv

LEMMA PreviewKeeps == ASSUME IInv, NEW r \in Rides, PreviewRideFare(r) PROVE IInv'
<1>1. UNCHANGED <<ridePayment, aged, payment, captures, rideOf, attempt, checkout, job, req, lock>>
  BY DEF PreviewRideFare, gateway
<1>2. priced' \in [Rides -> BOOLEAN] /\ lock' \in [Rides -> Requests \cup {Nobody}]
      /\ req' \in [Requests -> RequestState]
  BY <1>1 DEF PreviewRideFare, IInv, TypeOK
<1>3. RequestInv'
  BY <1>1, NothingGrows, RequestsKept DEF IInv
<1>4. QED
  BY <1>1, <1>2, <1>3, OnlyRequestMoves

LEMMA LockExpiresKeeps == ASSUME IInv, NEW r \in Rides, LockExpires(r) PROVE IInv'
<1>1. UNCHANGED <<ridePayment, payment, captures, rideOf, attempt, checkout, job, req, priced, aged>>
  BY DEF LockExpires, gateway, db
<1>2. priced' \in [Rides -> BOOLEAN] /\ lock' \in [Rides -> Requests \cup {Nobody}]
      /\ req' \in [Requests -> RequestState]
  BY <1>1 DEF LockExpires, IInv, TypeOK
<1>3. RequestInv'
  BY <1>1, NothingGrows, RequestsKept DEF IInv
<1>4. QED
  BY <1>1, <1>2, <1>3, OnlyRequestMoves

LEMMA ReleaseEarlyKeeps == ASSUME IInv, NEW q \in Requests, ReleaseEarly(q) PROVE IInv'
<1>1. UNCHANGED <<ridePayment, priced, aged, payment, captures, rideOf, attempt, checkout, job, req>>
  BY DEF ReleaseEarly, gateway, db
<1>2. priced' \in [Rides -> BOOLEAN] /\ lock' \in [Rides -> Requests \cup {Nobody}]
      /\ req' \in [Requests -> RequestState]
  BY <1>1 DEF ReleaseEarly, IInv, TypeOK
<1>3. RequestInv'
  BY <1>1, NothingGrows, RequestsKept DEF IInv
<1>4. QED
  BY <1>1, <1>2, <1>3, OnlyRequestMoves

\* resumeOrder leaves with an order that is recorded for the ride.
LEMMA ResumeMoves ==
    ASSUME IInv, NEW q \in Requests, NEW r \in Rides, NEW o \in PaymentsOf(r),
           ResumeOrder(q, r, o), UNCHANGED <<payment, rideOf, attempt>>
    PROVE  req' \in [Requests -> RequestState] /\ RequestInv'
<1>1. OrdersGrow
  BY NothingGrows
<1>2. o \in Orders /\ Recorded(o) /\ Recorded(o)'
  BY DEF PaymentsOf, Recorded
<1>3. TypeOK /\ RequestInv
  BY DEF IInv
<1>4. CASE At(q, "respond", r, o)
  BY <1>1, <1>2, <1>3, <1>4, RequestMoves DEF RequestPC
<1>5. CASE At(q, "respond", r, Nobody)
  BY <1>1, <1>3, <1>5, RequestMoves DEF RequestPC
<1>6. CASE At(q, "reopen", r, o)
  BY <1>1, <1>2, <1>3, <1>6, RequestMoves DEF RequestPC
<1>7. QED
  BY <1>4, <1>5, <1>6 DEF ResumeOrder

LEMMA CreateOrderKeeps ==
    ASSUME IInv, NEW q \in Requests, NEW r \in Rides, CreateOrder(q, r)
    PROVE  IInv'
<1>1. UNCHANGED <<ridePayment, priced, aged, payment, captures, rideOf, attempt, checkout, job, lock>>
  BY DEF CreateOrder, gateway, db
<1>2. req' \in [Requests -> RequestState] /\ RequestInv'
  <2>1. CASE \E o \in PaymentsOf(r) : ResumeOrder(q, r, o)
    BY <1>1, <2>1, ResumeMoves
  <2>2. CASE At(q, "lock", r, Nobody)
    BY <1>1, <2>2, NothingGrows, RequestMoves DEF IInv, RequestPC
  <2>3. QED
    BY <2>1, <2>2 DEF CreateOrder
<1>3. priced' \in [Rides -> BOOLEAN] /\ lock' \in [Rides -> Requests \cup {Nobody}]
  BY <1>1 DEF IInv, TypeOK
<1>4. QED
  BY <1>1, <1>2, <1>3, OnlyRequestMoves

LEMMA AcquireLockKeeps == ASSUME IInv, NEW q \in Requests, AcquireLock(q) PROVE IInv'
<1>1. UNCHANGED <<ridePayment, priced, aged, payment, captures, rideOf, attempt, checkout, job>>
  BY DEF AcquireLock, gateway, db
<1>2. req[q].ride \in Rides /\ req[q].order \in Orders \cup {Nobody}
  BY FieldTypes DEF AcquireLock, IInv, RequestInv, RequestOK
<1>3. req' \in [Requests -> RequestState] /\ RequestInv'
  <2>1. CASE At(q, "recheck", req[q].ride, req[q].order)
    BY <1>1, <1>2, <2>1, NothingGrows, RequestMoves DEF IInv, RequestPC
  <2>2. CASE At(q, "idle", Nobody, Nobody)
    BY <1>1, <2>2, NothingGrows, RequestMoves DEF IInv, RequestPC
  <2>3. QED
    BY <2>1, <2>2 DEF AcquireLock, Goto
<1>4. priced' \in [Rides -> BOOLEAN] /\ lock' \in [Rides -> Requests \cup {Nobody}]
  BY <1>1 DEF AcquireLock, IInv, TypeOK
<1>5. QED
  BY <1>1, <1>3, <1>4, OnlyRequestMoves

LEMMA RecheckKeeps == ASSUME IInv, NEW q \in Requests, Recheck(q) PROVE IInv'
<1>1. UNCHANGED <<ridePayment, priced, aged, payment, captures, rideOf, attempt, checkout, job, lock>>
  BY DEF Recheck, gateway, db
<1>2. req[q].ride \in Rides /\ req[q].order \in Orders \cup {Nobody}
  BY FieldTypes DEF Recheck, IInv, RequestInv, RequestOK
<1>3. req' \in [Requests -> RequestState] /\ RequestInv'
  <2>1. CASE \E o \in PaymentsOf(req[q].ride) : ResumeOrder(q, req[q].ride, o)
    BY <1>1, <1>2, <2>1, ResumeMoves
  <2>2. CASE At(q, "respond", req[q].ride, Nobody)
    BY <1>1, <1>2, <2>2, NothingGrows, RequestMoves DEF IInv, RequestPC
  <2>3. CASE At(q, "order", req[q].ride, req[q].order)
    BY <1>1, <1>2, <2>3, NothingGrows, RequestMoves DEF IInv, RequestPC
  <2>4. QED
    BY <2>1, <2>2, <2>3 DEF Recheck, Refuse, Goto
<1>4. priced' \in [Rides -> BOOLEAN] /\ lock' \in [Rides -> Requests \cup {Nobody}]
  BY <1>1 DEF IInv, TypeOK
<1>5. QED
  BY <1>1, <1>3, <1>4, OnlyRequestMoves

LEMMA RequestLostKeeps ==
    ASSUME IInv, NEW q \in Requests, RequestFails(q) \/ RequestCrashes(q)
    PROVE  IInv'
<1>1. UNCHANGED <<ridePayment, priced, aged, payment, captures, rideOf, attempt, checkout, job, lock>>
  BY DEF RequestFails, RequestCrashes, gateway, db
<1>2. req' \in [Requests -> RequestState] /\ RequestInv'
  <2>1. CASE RequestFails(q)
    <3>1. req[q].ride \in Rides /\ At(q, "respond", req[q].ride, Nobody)
      BY <2>1 DEF RequestFails, Refuse, IInv, RequestInv, RequestOK
    <3>2. QED
      BY <1>1, <3>1, NothingGrows, RequestMoves DEF IInv, RequestPC
  <2>2. CASE RequestCrashes(q)
    BY <1>1, <2>2, NothingGrows, RequestMoves DEF RequestCrashes, IInv, RequestPC
  <2>3. QED
    BY <2>1, <2>2
<1>3. priced' \in [Rides -> BOOLEAN] /\ lock' \in [Rides -> Requests \cup {Nobody}]
  BY <1>1 DEF IInv, TypeOK
<1>4. QED
  BY <1>1, <1>2, <1>3, OnlyRequestMoves

\* A new gateway order has no document yet.
LEMMA CreateGatewayOrderKeeps ==
    ASSUME IInv, NEW q \in Requests, CreateGatewayOrder(q)
    PROVE  IInv'
<1>1. UNCHANGED <<ridePayment, priced, aged, payment, captures, attempt, checkout, job, lock>>
  BY DEF CreateGatewayOrder, db
<1>2. PICK o \in Orders : /\ rideOf[o] = Nobody
                          /\ rideOf' = [rideOf EXCEPT ![o] = req[q].ride]
                          /\ At(q, "insert", req[q].ride, o)
  BY DEF CreateGatewayOrder
<1>3. req[q].ride \in Rides
  BY DEF CreateGatewayOrder, IInv, RequestInv, RequestOK
<1>4. /\ rideOf' \in [Orders -> Rides \cup {Nobody}]
      /\ rideOf'[o] = req[q].ride
      /\ \A o2 \in Orders \ {o} : rideOf'[o2] = rideOf[o2]
  BY <1>2, <1>3 DEF IInv, TypeOK
<1>5. Nobody \notin Rides
  BY ConstantsAssumption
<1>6. \A o2 \in Orders : /\ Recorded(o2)' <=> Recorded(o2)
                         /\ Paid(o2)' <=> Paid(o2)
                         /\ Recorded(o2) => rideOf'[o2] = rideOf[o2]
  BY <1>1, <1>2, <1>4, <1>5 DEF IInv, DocumentInv, UniqueKey, Recorded, Paid
<1>7. OrdersGrow /\ AttemptsGrow
  BY <1>1, <1>2, <1>4, <1>5, <1>6 DEF OrdersGrow, AttemptsGrow
<1>8. req' \in [Requests -> RequestState] /\ RequestInv'
  BY <1>2, <1>3, <1>4, <1>7, RequestMoves DEF IInv, RequestPC
<1>9. JobInv'
  BY <1>1, <1>7, JobsKept DEF IInv
<1>10. UniqueKey'
  BY <1>6 DEF IInv, DocumentInv, UniqueKey
<1>11. checkout \subseteq Orders
  BY DEF IInv, TypeOK
<1>12. CheckoutRecorded' /\ AttemptInv'
  BY <1>1, <1>6, <1>11 DEF IInv, DocumentInv, CheckoutRecorded, AttemptInv
<1>13. LedgerFollowsCapture' /\ CapturedNamesTheMoney'
  BY <1>1, <1>6 DEF IInv, DocumentInv, MoneyInv, LedgerFollowsCapture, CapturedNamesTheMoney
<1>14. RideFollowsCapture'
  <2>1. \A r \in Rides : PaymentsOf(r)' = PaymentsOf(r)
    BY <1>2, <1>5, <1>6 DEF PaymentsOf
  <2>2. QED
    BY <1>1, <1>6, <2>1
       DEF IInv, DocumentInv, MoneyInv, RideFollowsCapture, PaymentsOf
<1>15. TypeOK'
  BY <1>1, <1>4, <1>8 DEF IInv, TypeOK
<1>16. QED
  BY <1>8, <1>9, <1>10, <1>12, <1>13, <1>14, <1>15 DEF IInv, DocumentInv, MoneyInv

\* The unique index lets a ride have one document, and the first one is unpaid.
LEMMA InsertPaymentKeeps ==
    ASSUME IInv, NEW q \in Requests, InsertPayment(q)
    PROVE  IInv'
<1>1. UNCHANGED <<ridePayment, priced, aged, captures, rideOf, attempt, checkout, job, lock>>
  BY DEF InsertPayment, gateway
<1>2. PICK r \in Rides, o \in Orders :
         r = req[q].ride /\ o = req[q].order /\ rideOf[o] = r
  BY DEF InsertPayment, IInv, RequestInv, RequestOK
<1>3. CASE \E o2 \in PaymentsOf(r) : ResumeOrder(q, r, o2) /\ UNCHANGED payment
  <2>1. req' \in [Requests -> RequestState] /\ RequestInv'
    BY <1>1, <1>2, <1>3, ResumeMoves
  <2>2. priced' \in [Rides -> BOOLEAN] /\ lock' \in [Rides -> Requests \cup {Nobody}]
    BY <1>1 DEF IInv, TypeOK
  <2>3. QED
    BY <1>1, <1>3, <2>1, <2>2, OnlyRequestMoves
<1>4. CASE PaymentsOf(r) = {} /\ Save(o, NewDoc) /\ Goto(q, "respond")
  <2>1. 1 \in 0 .. AttemptNumberBound
    BY ConstantsAssumption
  <2>2. /\ payment' \in [Orders -> PaymentDoc]
        /\ payment'[o].status = "CREATED"
        /\ \A o2 \in Orders \ {o} : payment'[o2] = payment[o2]
    <3>1. "CREATED" \in PaymentStatus \cup {ABSENT}
      BY DEF PaymentStatus, CAPTURABLE_FROM_STATUSES
    <3>2. Save(o, Document("CREATED", 1, Nobody, Nobody))
      BY <1>4 DEF NewDoc
    <3>3. QED
      BY <1>2, <2>1, <3>1, <3>2, SaveEffect DEF IInv
  <2>3. ~ Recorded(o) /\ ~ Paid(o)
    BY <1>2, <1>4 DEF PaymentsOf, Recorded, Paid, ABSENT, PAID_STATUSES
  <2>4. Recorded(o)' /\ ~ Paid(o)'
    BY <2>2 DEF Recorded, Paid, ABSENT, PAID_STATUSES
  <2>5. \A o2 \in Orders \ {o} : /\ Recorded(o2)' <=> Recorded(o2)
                                 /\ Paid(o2)' <=> Paid(o2)
    BY <2>2 DEF Recorded, Paid
  <2>6. OrdersGrow /\ AttemptsGrow
    BY <1>1, <2>3, <2>4, <2>5 DEF OrdersGrow, AttemptsGrow
  <2>7. req' \in [Requests -> RequestState] /\ RequestInv'
    <3>1. At(q, "respond", r, o)
      BY <1>2, <1>4 DEF Goto
    <3>2. QED
      BY <1>2, <2>4, <2>6, <3>1, RequestMoves DEF IInv, RequestPC
  <2>8. JobInv'
    BY <1>1, <2>6, JobsKept DEF IInv
  <2>9. UniqueKey'
    <3>1. \A o2 \in Orders \ {o} : Recorded(o2) => rideOf[o2] # r
      BY <1>4 DEF PaymentsOf
    <3>2. QED
      BY <1>1, <1>2, <2>4, <2>5, <3>1 DEF IInv, DocumentInv, UniqueKey
  <2>10. CheckoutRecorded' /\ AttemptInv'
    <3>1. checkout \subseteq Orders
      BY DEF IInv, TypeOK
    <3>2. QED
      BY <1>1, <2>6, <3>1
         DEF IInv, DocumentInv, CheckoutRecorded, AttemptInv, OrdersGrow
  <2>11. LedgerFollowsCapture'
    BY <1>1, <2>3, <2>4, <2>5 DEF IInv, DocumentInv, MoneyInv, LedgerFollowsCapture
  <2>12. RideFollowsCapture'
    <3>1. ASSUME NEW r2 \in Rides
          PROVE  (\E o2 \in PaymentsOf(r2) : Paid(o2))' <=> \E o2 \in PaymentsOf(r2) : Paid(o2)
      BY <1>1, <2>3, <2>4, <2>5 DEF PaymentsOf
    <3>2. QED
      BY <1>1, <3>1 DEF IInv, DocumentInv, MoneyInv, RideFollowsCapture
  <2>13. CapturedNamesTheMoney'
    BY <1>1, <2>2, <2>4, <2>5 DEF IInv, DocumentInv, MoneyInv, CapturedNamesTheMoney
  <2>14. TypeOK'
    BY <1>1, <2>2, <2>7 DEF IInv, TypeOK
  <2>15. QED
    BY <2>7, <2>8, <2>9, <2>10, <2>11, <2>12, <2>13, <2>14 DEF IInv, DocumentInv, MoneyInv
<1>5. QED
  BY <1>2, <1>3, <1>4 DEF InsertPayment

\* The other fields of a document that is rewritten with Updated.
LEMMA UpdatedRewritten ==
    ASSUME TypeOK, DocumentInv, NEW o \in Orders, Recorded(o), ~ Paid(o),
           NEW s \in PaymentStatus \ PAID_STATUSES, NEW id \in Attempts \cup {Nobody},
           Save(o, Updated(o, s, id)),
           UNCHANGED <<ridePayment, captures, rideOf, attempt, checkout>>
    PROVE  /\ payment' \in [Orders -> PaymentDoc]
           /\ DocumentInv' /\ OrdersGrow /\ AttemptsGrow
<1>1. /\ payment[o].attemptNumber \in 0 .. AttemptNumberBound
      /\ payment[o].lastFailed \in Attempts \cup {Nobody}
  BY FieldTypes
<1>2. Save(o, Document(s, payment[o].attemptNumber, payment[o].lastFailed, id))
  BY DEF Updated
<1>3. QED
  BY <1>1, <1>2, UnpaidRewritten

LEMMA ReopenPaymentKeeps ==
    ASSUME IInv, NEW q \in Requests, ReopenPayment(q)
    PROVE  IInv'
<1>1. UNCHANGED <<ridePayment, priced, aged, captures, rideOf, attempt, checkout, job, lock>>
  BY DEF ReopenPayment, gateway
<1>2. PICK r \in Rides, o \in Orders :
         r = req[q].ride /\ o = req[q].order /\ Recorded(o)
  BY DEF ReopenPayment, IInv, RequestInv, RequestOK
<1>3. CASE payment[o].status # "FAILED" /\ Goto(q, "respond") /\ UNCHANGED payment
  <2>1. At(q, "respond", r, o) /\ Recorded(o)'
    BY <1>2, <1>3 DEF Goto, Recorded
  <2>2. req' \in [Requests -> RequestState] /\ RequestInv'
    BY <1>1, <1>2, <1>3, <2>1, NothingGrows, RequestMoves DEF IInv, RequestPC
  <2>3. priced' \in [Rides -> BOOLEAN] /\ lock' \in [Rides -> Requests \cup {Nobody}]
    BY <1>1 DEF IInv, TypeOK
  <2>4. QED
    BY <1>1, <1>3, <2>2, <2>3, OnlyRequestMoves
<1>4. CASE /\ payment[o].status = "FAILED"
           /\ Save(o, Updated(o, "CREATED", payment[o].gatewayPaymentId))
           /\ Goto(q, "reopenRide")
  <2>1. ~ Paid(o) /\ payment[o].gatewayPaymentId \in Attempts \cup {Nobody}
    BY <1>2, <1>4, FieldTypes DEF Paid, PAID_STATUSES, IInv
  <2>2. "CREATED" \in PaymentStatus \ PAID_STATUSES
    BY DEF PaymentStatus, CAPTURABLE_FROM_STATUSES, PAID_STATUSES
  <2>3. /\ payment' \in [Orders -> PaymentDoc]
        /\ DocumentInv' /\ OrdersGrow /\ AttemptsGrow
    BY <1>1, <1>2, <1>4, <2>1, <2>2, UpdatedRewritten DEF IInv
  <2>4. At(q, "reopenRide", r, o) /\ Recorded(o)'
    BY <1>2, <1>4, <2>3 DEF Goto, OrdersGrow
  <2>5. req' \in [Requests -> RequestState] /\ RequestInv'
    BY <1>2, <2>3, <2>4, RequestMoves DEF IInv, RequestPC
  <2>6. JobInv'
    BY <1>1, <2>3, JobsKept DEF IInv
  <2>7. TypeOK'
    BY <1>1, <2>3, <2>5 DEF IInv, TypeOK
  <2>8. QED
    BY <2>3, <2>5, <2>6, <2>7 DEF IInv
<1>5. QED
  BY <1>2, <1>3, <1>4 DEF ReopenPayment

LEMMA ReopenRideKeeps == ASSUME IInv, NEW q \in Requests, ReopenRide(q) PROVE IInv'
<1>1. UNCHANGED <<priced, aged, payment, captures, rideOf, attempt, checkout, job, lock>>
  BY DEF ReopenRide, gateway
<1>2. PICK r \in Rides, o \in Orders :
         r = req[q].ride /\ o = req[q].order /\ Recorded(o) /\ Recorded(o)'
  BY <1>1 DEF ReopenRide, IInv, RequestInv, RequestOK, Recorded
<1>3. ridePayment \in [Rides -> PAYABLE_RIDE_PAYMENT_STATUSES \cup {"CAPTURED"}]
  BY DEF IInv, TypeOK
<1>4. /\ ridePayment' \in [Rides -> PAYABLE_RIDE_PAYMENT_STATUSES \cup {"CAPTURED"}]
      /\ \A r2 \in Rides : ridePayment'[r2] = "CAPTURED" <=> ridePayment[r2] = "CAPTURED"
  BY <1>2, <1>3 DEF ReopenRide, PAYABLE_RIDE_PAYMENT_STATUSES
<1>5. DocumentInv' /\ OrdersGrow /\ AttemptsGrow
  BY <1>1, <1>4, UnpaidRideRewritten DEF IInv
<1>6. req' \in [Requests -> RequestState] /\ RequestInv'
  <2>1. At(q, "respond", r, o)
    BY <1>2 DEF ReopenRide, Goto
  <2>2. QED
    BY <1>2, <1>5, <2>1, RequestMoves DEF IInv, RequestPC
<1>7. JobInv'
  BY <1>1, <1>5, JobsKept DEF IInv
<1>8. TypeOK'
  BY <1>1, <1>4, <1>6 DEF IInv, TypeOK
<1>9. QED
  BY <1>5, <1>6, <1>7, <1>8 DEF IInv

\* Only a recorded order leaves the server.
LEMMA RespondKeeps == ASSUME IInv, NEW q \in Requests, Respond(q) PROVE IInv'
<1>1. UNCHANGED <<ridePayment, priced, aged, payment, captures, rideOf, attempt, job>>
  BY DEF Respond, gateway, db
<1>2. req[q].order # Nobody => req[q].order \in Orders /\ Recorded(req[q].order)
  BY DEF Respond, IInv, RequestInv, RequestOK
<1>3. OrdersGrow /\ AttemptsGrow
  BY <1>1, NothingGrows
<1>4. req' \in [Requests -> RequestState] /\ RequestInv'
  BY <1>3, RequestMoves DEF Respond, IInv, RequestPC
<1>5. /\ checkout \subseteq checkout' /\ checkout' \subseteq Orders
      /\ \A o2 \in checkout' : Recorded(o2)
  BY <1>2 DEF Respond, IInv, TypeOK, DocumentInv, CheckoutRecorded
<1>6. CheckoutRecorded'
  BY <1>1, <1>5 DEF CheckoutRecorded, Recorded
<1>7. AttemptInv'
  BY <1>1, <1>5 DEF IInv, DocumentInv, AttemptInv
<1>8. UniqueKey'
  BY <1>1 DEF IInv, DocumentInv, UniqueKey, Recorded
<1>9. MoneyInv'
  BY <1>1 DEF IInv, DocumentInv, MoneyInv, LedgerFollowsCapture, RideFollowsCapture,
     CapturedNamesTheMoney, PaymentsOf, Paid, Recorded
<1>10. JobInv'
  BY <1>1, <1>3, JobsKept DEF IInv
<1>11. lock' \in [Rides -> Requests \cup {Nobody}]
  BY DEF Respond, IInv, TypeOK
<1>12. TypeOK'
  BY <1>1, <1>4, <1>5, <1>11 DEF IInv, TypeOK
<1>13. QED
  BY <1>4, <1>6, <1>7, <1>8, <1>9, <1>10, <1>12 DEF IInv, DocumentInv

-----------------------------------------------------------------------------
(* The steps of the gateway.                                               *)

\* A try was made on a recorded order of some ride.
LEMMA AttemptedOrder ==
    ASSUME TypeOK, DocumentInv, NEW p \in Attempts, attempt[p].status # "none"
    PROVE  /\ attempt[p].order \in checkout /\ attempt[p].order \in Orders
           /\ Recorded(attempt[p].order)
           /\ rideOf[attempt[p].order] \in Rides
BY DEF TypeOK, DocumentInv, AttemptInv, CheckoutRecorded, UniqueKey

\* A gateway step changes one attempt, which was not captured, on an order that
\* is in a browser; it captures it only when no other attempt was captured.
LEMMA AttemptChanges ==
    ASSUME IInv, NEW p \in Attempts, NEW o \in checkout, NEW s \in AttemptStatus \ {"none"},
           NEW signed \in BOOLEAN, SetAttempt(p, o, s, signed),
           attempt[p].status # "captured",
           s = "captured" => ~ GatewayCaptured(o),
           UNCHANGED <<ridePayment, priced, aged, payment, captures, rideOf, checkout, job, lock, req>>
    PROVE  IInv'
<1>1. o \in Orders
  BY DEF IInv, TypeOK
<1>2. /\ attempt' \in [Attempts -> AttemptState]
      /\ attempt'[p].order = o /\ attempt'[p].status = s /\ attempt'[p].signed = signed
      /\ \A p2 \in Attempts \ {p} : attempt'[p2] = attempt[p2]
  BY <1>1, SetAttemptEffect DEF IInv
<1>3. OrdersGrow
  BY DEF OrdersGrow, Recorded
<1>4. AttemptsGrow
  BY <1>2 DEF AttemptsGrow
<1>5. RequestInv' /\ JobInv'
  BY <1>3, <1>4, RequestsKept, JobsKept DEF IInv
<1>6. UniqueKey' /\ CheckoutRecorded'
  BY DEF IInv, DocumentInv, UniqueKey, CheckoutRecorded, Recorded
<1>7. AttemptInv'
  <2>1. \A p2 \in Attempts : attempt'[p2].status # "none" => attempt'[p2].order \in checkout
    BY <1>2 DEF IInv, DocumentInv, AttemptInv
  <2>2. \A p2 \in Attempts : attempt'[p2].signed => attempt'[p2].status # "none"
    BY <1>2 DEF IInv, DocumentInv, AttemptInv
  <2>3. \A p1, p2 \in Attempts :
          /\ attempt'[p1].status = "captured" /\ attempt'[p2].status = "captured"
          /\ attempt'[p1].order = attempt'[p2].order
          => p1 = p2
    BY <1>2 DEF IInv, DocumentInv, AttemptInv, GatewayCaptured
  <2>4. QED
    BY <2>1, <2>2, <2>3 DEF AttemptInv
<1>8. LedgerFollowsCapture' /\ RideFollowsCapture'
  BY DEF IInv, DocumentInv, MoneyInv, LedgerFollowsCapture, RideFollowsCapture,
     PaymentsOf, Paid, Recorded
<1>9. CapturedNamesTheMoney'
  BY <1>4 DEF IInv, DocumentInv, MoneyInv, CapturedNamesTheMoney, AttemptsGrow, Paid
<1>10. TypeOK'
  BY <1>2 DEF IInv, TypeOK
<1>11. QED
  BY <1>5, <1>6, <1>7, <1>8, <1>9, <1>10 DEF IInv, DocumentInv, MoneyInv

LEMMA GatewayStepKeeps == ASSUME IInv, NEW p \in Attempts, GatewayStep(p) PROVE IInv'
<1>1. UNCHANGED <<ridePayment, priced, aged, payment, captures, rideOf, checkout, job, lock, req>>
  BY DEF GatewayStep, StartAttempt, Authorize, CaptureAtGateway, FailAtGateway, db
<1>2. attempt[p].signed \in BOOLEAN
  BY FieldTypes DEF IInv
<1>3. CASE \E o \in Orders : StartAttempt(p, o)
  BY <1>1, <1>3, AttemptChanges DEF StartAttempt, AttemptStatus
<1>4. ASSUME attempt[p].status # "none" PROVE attempt[p].order \in checkout
  BY <1>4, AttemptedOrder DEF IInv
<1>5. CASE Authorize(p)
  BY <1>1, <1>4, <1>5, AttemptChanges DEF Authorize, AttemptStatus
<1>6. CASE CaptureAtGateway(p)
  BY <1>1, <1>2, <1>4, <1>6, AttemptChanges DEF CaptureAtGateway, AttemptStatus
<1>7. CASE FailAtGateway(p)
  BY <1>1, <1>2, <1>4, <1>7, AttemptChanges DEF FailAtGateway, AttemptStatus
<1>8. QED
  BY <1>3, <1>5, <1>6, <1>7 DEF GatewayStep

-----------------------------------------------------------------------------
(* The steps of the event handlers.                                        *)

\* A step that only moves a handler.
LEMMA OnlyJobMoves ==
    ASSUME IInv, job' \in [Handlers \cup {Sweep} -> JobState], JobInv',
           UNCHANGED <<ridePayment, priced, aged, payment, captures, rideOf, attempt, checkout, lock, req>>
    PROVE  IInv'
<1>1. DocumentInv' /\ OrdersGrow
  BY DocumentsKept DEF IInv
<1>2. RequestInv'
  BY <1>1, RequestsKept DEF IInv
<1>3. TypeOK'
  BY DEF IInv, TypeOK
<1>4. QED
  BY <1>1, <1>2, <1>3 DEF IInv

\* handlePaymentCaptured and handlePaymentFailed act on what the gateway reports.
LEMMA HandlerStarts ==
    ASSUME IInv, NEW h \in Handlers \cup {Sweep}, NEW p \in Attempts,
           \/ attempt[p].status = "captured" /\ HandlePaymentCaptured(h, p)
           \/ attempt[p].status = "failed" /\ HandlePaymentFailed(h, p)
           \/ attempt[p].signed /\ Start(h, "pending", p)
           \/ Finish(h),
           UNCHANGED <<ridePayment, priced, aged, payment, captures, rideOf, attempt, checkout, lock, req>>
    PROVE  IInv'
<1>1. OrdersGrow /\ AttemptsGrow
  BY NothingGrows
<1>2. TypeOK /\ JobInv
  BY DEF IInv
<1>3. CASE Finish(h)
  BY <1>1, <1>2, <1>3, JobMoves, OnlyJobMoves DEF Finish, JobPC
<1>4. CASE attempt[p].status = "captured" /\ Start(h, "capture", p)
  BY <1>1, <1>2, <1>4, JobMoves, OnlyJobMoves DEF JobPC
<1>5. CASE attempt[p].status = "failed" /\ Start(h, "fail", p)
  BY <1>1, <1>2, <1>5, JobMoves, OnlyJobMoves DEF JobPC
<1>6. CASE attempt[p].signed /\ Start(h, "pending", p)
  <2>1. attempt[p].status # "none"
    BY <1>6 DEF IInv, DocumentInv, AttemptInv
  <2>2. QED
    BY <1>1, <1>2, <1>6, <2>1, JobMoves, OnlyJobMoves DEF JobPC
<1>7. QED
  BY <1>3, <1>4, <1>5, <1>6 DEF HandlePaymentCaptured, HandlePaymentFailed

\* A step that rewrites an unpaid document and may move a handler.
LEMMA RewriteKeeps ==
    ASSUME IInv, payment' \in [Orders -> PaymentDoc], DocumentInv', OrdersGrow,
           job' \in [Handlers \cup {Sweep} -> JobState], JobInv',
           ridePayment' \in [Rides -> PAYABLE_RIDE_PAYMENT_STATUSES \cup {"CAPTURED"}],
           captures' \in [Orders -> Nat],
           UNCHANGED <<priced, aged, rideOf, attempt, checkout, lock, req>>
    PROVE  IInv'
<1>1. RequestInv'
  BY RequestsKept DEF IInv
<1>2. TypeOK'
  BY DEF IInv, TypeOK
<1>3. QED
  BY <1>1, <1>2 DEF IInv

LEMMA DeliverAuthorizedKeeps ==
    ASSUME IInv, NEW h \in Handlers, NEW p \in Attempts, DeliverAuthorized(h, p)
    PROVE  IInv'
<1>1. UNCHANGED <<ridePayment, priced, aged, captures, rideOf, attempt, checkout, lock, req, job>>
  BY DEF DeliverAuthorized, gateway
<1>2. attempt[p].status # "none"
  BY DEF DeliverAuthorized, IInv, DocumentInv, AttemptInv
<1>3. PICK o \in Orders : o = attempt[p].order /\ Recorded(o)
  BY <1>2, AttemptedOrder DEF IInv
<1>4. ~ Paid(o) /\ Save(o, Updated(o, "AUTHORIZED", p))
  BY <1>3 DEF DeliverAuthorized, Paid, PAID_STATUSES
<1>5. "AUTHORIZED" \in PaymentStatus \ PAID_STATUSES
  BY DEF PaymentStatus, CAPTURABLE_FROM_STATUSES, PAID_STATUSES
<1>6. /\ payment' \in [Orders -> PaymentDoc]
      /\ DocumentInv' /\ OrdersGrow /\ AttemptsGrow
  BY <1>1, <1>3, <1>4, <1>5, UpdatedRewritten DEF IInv
<1>7. JobInv'
  BY <1>1, <1>6, JobsKept DEF IInv
<1>8. QED
  BY <1>1, <1>6, <1>7, RewriteKeeps DEF IInv, TypeOK

LEMMA EventArrivesKeeps ==
    ASSUME IInv, NEW h \in Handlers, NEW p \in Attempts, EventArrives(h, p)
    PROVE  IInv'
<1>1. CASE DeliverAuthorized(h, p)
  BY <1>1, DeliverAuthorizedKeeps
<1>2. CASE DeliverCaptured(h, p) \/ DeliverFailed(h, p) \/ VerifyCheckout(h, p)
  BY <1>2, HandlerStarts DEF DeliverCaptured, DeliverFailed, VerifyCheckout, db, gateway
<1>3. QED
  BY <1>1, <1>2 DEF EventArrives

\* The attempt a busy handler works on was made on a recorded order.
LEMMA JobAttempt ==
    ASSUME IInv, NEW h \in Handlers \cup {Sweep}, job[h].pc # "idle"
    PROVE  \E p \in Attempts, o \in Orders :
              /\ p = job[h].attempt /\ o = attempt[p].order
              /\ attempt[p].status # "none"
              /\ Recorded(o) /\ rideOf[o] \in Rides
BY AttemptedOrder DEF IInv, JobInv, JobOK

LEMMA MarkPendingKeeps ==
    ASSUME IInv, NEW h \in Handlers \cup {Sweep}, MarkPending(h)
    PROVE  IInv'
<1>1. UNCHANGED <<ridePayment, priced, aged, captures, rideOf, attempt, checkout, lock, req>>
  BY DEF MarkPending, gateway
<1>2. PICK p \in Attempts, o \in Orders :
         /\ p = job[h].attempt /\ o = attempt[p].order
         /\ attempt[p].status # "none" /\ Recorded(o)
  BY JobAttempt DEF MarkPending
<1>3. payment' \in [Orders -> PaymentDoc] /\ DocumentInv' /\ OrdersGrow /\ AttemptsGrow
  <2>1. CASE UNCHANGED payment
    BY <1>1, <2>1, DocumentsKept DEF IInv, TypeOK
  <2>2. CASE /\ payment[o].status \in VERIFIABLE_FROM_STATUSES
             /\ Save(o, Updated(o, "PENDING", p))
    <3>1. ~ Paid(o)
      BY <2>2 DEF Paid, PAID_STATUSES, VERIFIABLE_FROM_STATUSES
    <3>2. "PENDING" \in PaymentStatus \ PAID_STATUSES
      BY DEF PaymentStatus, CAPTURABLE_FROM_STATUSES, PAID_STATUSES
    <3>3. QED
      BY <1>1, <1>2, <2>2, <3>1, <3>2, UpdatedRewritten DEF IInv
  <2>3. QED
    BY <1>2, <2>1, <2>2 DEF MarkPending
<1>4. job' \in [Handlers \cup {Sweep} -> JobState] /\ JobInv'
  <2>1. Start(h, "fetch", p) /\ attempt'[p].status # "none"
    BY <1>1, <1>2 DEF MarkPending
  <2>2. QED
    BY <1>3, <2>1, JobMoves DEF IInv, JobPC
<1>5. QED
  BY <1>1, <1>3, <1>4, RewriteKeeps DEF IInv, TypeOK

LEMMA FetchPaymentKeeps ==
    ASSUME IInv, NEW h \in Handlers \cup {Sweep}, FetchPayment(h)
    PROVE  IInv'
<1>1. PICK p \in Attempts : p = job[h].attempt
  BY JobAttempt DEF FetchPayment
<1>2. QED
  BY <1>1, HandlerStarts DEF FetchPayment, db, gateway

\* The capture transaction writes payment, ledger and ride together.
LEMMA RecordCaptureKeeps ==
    ASSUME IInv, NEW h \in Handlers \cup {Sweep}, RecordCapture(h)
    PROVE  IInv'
<1>1. UNCHANGED <<priced, aged, rideOf, attempt, checkout, lock, req>>
  BY DEF RecordCapture, gateway
<1>2. PICK p \in Attempts, o \in Orders :
         /\ p = job[h].attempt /\ o = attempt[p].order
         /\ attempt[p].status # "none" /\ Recorded(o) /\ rideOf[o] \in Rides
  BY JobAttempt DEF RecordCapture
<1>3. attempt[p].status = "captured"
  BY <1>2 DEF RecordCapture, IInv, JobInv, JobOK
<1>4. job' \in [Handlers \cup {Sweep} -> JobState] /\ JobInv'
  <2>1. AttemptsGrow
    BY <1>1 DEF AttemptsGrow
  <2>2. QED
    BY <2>1, JobMoves DEF RecordCapture, Finish, IInv, JobPC
<1>5. CASE UNCHANGED <<payment, captures, ridePayment>>
  BY <1>1, <1>4, <1>5, OnlyJobMoves
<1>6. CASE /\ CanClaim(o) /\ Save(o, Updated(o, "CAPTURED", p))
           /\ captures' = [captures EXCEPT ![o] = captures[o] + 1]
           /\ ridePayment' = [ridePayment EXCEPT ![rideOf[o]] = "CAPTURED"]
  <2>1. /\ payment' \in [Orders -> PaymentDoc]
        /\ payment'[o].status = "CAPTURED" /\ payment'[o].gatewayPaymentId = p
        /\ \A o2 \in Orders \ {o} : payment'[o2] = payment[o2]
    <3>1. /\ payment[o].attemptNumber \in 0 .. AttemptNumberBound
          /\ payment[o].lastFailed \in Attempts \cup {Nobody}
      BY FieldTypes DEF IInv
    <3>2. "CAPTURED" \in PaymentStatus \cup {ABSENT}
      BY DEF PaymentStatus, PAID_STATUSES
    <3>3. Save(o, Document("CAPTURED", payment[o].attemptNumber, payment[o].lastFailed, p))
      BY <1>6 DEF Updated
    <3>4. QED
      BY <3>1, <3>2, <3>3, SaveEffect DEF IInv
  <2>2. Recorded(o)' /\ Paid(o)'
    BY <2>1 DEF Recorded, Paid, ABSENT, PAID_STATUSES
  <2>3. \A o2 \in Orders \ {o} : (Recorded(o2)' <=> Recorded(o2)) /\ (Paid(o2)' <=> Paid(o2))
    BY <2>1 DEF Recorded, Paid
  <2>4. OrdersGrow
    BY <1>1, <2>2, <2>3 DEF OrdersGrow
  <2>5. UniqueKey' /\ CheckoutRecorded' /\ AttemptInv'
    <3>1. checkout \subseteq Orders
      BY DEF IInv, TypeOK
    <3>2. QED
      BY <1>1, <1>2, <2>2, <2>3, <3>1
         DEF IInv, DocumentInv, UniqueKey, CheckoutRecorded, AttemptInv
  <2>6. captures' \in [Orders -> Nat] /\ LedgerFollowsCapture'
    <3>1. captures[o] = 0 /\ captures \in [Orders -> Nat]
      BY <1>6 DEF CanClaim, IInv, TypeOK
    <3>2. captures'[o] = 1 /\ \A o2 \in Orders \ {o} : captures'[o2] = captures[o2]
      BY <1>6, <3>1
    <3>3. captures' \in [Orders -> Nat]
      BY <1>6, <3>1
    <3>4. QED
      BY <2>2, <2>3, <3>2, <3>3 DEF IInv, DocumentInv, MoneyInv, LedgerFollowsCapture
  <2>7. /\ ridePayment' \in [Rides -> PAYABLE_RIDE_PAYMENT_STATUSES \cup {"CAPTURED"}]
        /\ ridePayment'[rideOf[o]] = "CAPTURED"
        /\ \A r \in Rides \ {rideOf[o]} : ridePayment'[r] = ridePayment[r]
    BY <1>2, <1>6 DEF IInv, TypeOK
  <2>8. RideFollowsCapture'
    <3>1. (\E o2 \in PaymentsOf(rideOf[o]) : Paid(o2))'
      BY <1>1, <2>2 DEF PaymentsOf
    <3>2. ASSUME NEW r \in Rides \ {rideOf[o]}
          PROVE  (\E o2 \in PaymentsOf(r) : Paid(o2))' <=> \E o2 \in PaymentsOf(r) : Paid(o2)
      BY <1>1, <2>3 DEF PaymentsOf
    <3>3. ASSUME NEW r \in Rides, r = rideOf[o]
          PROVE  (\E o2 \in PaymentsOf(r) : Paid(o2))'
      BY <1>1, <2>2, <3>3 DEF PaymentsOf
    <3>4. QED
      BY <2>7, <3>2, <3>3 DEF IInv, DocumentInv, MoneyInv, RideFollowsCapture
  <2>9. CapturedNamesTheMoney'
    BY <1>1, <1>2, <1>3, <2>1, <2>3 DEF IInv, DocumentInv, MoneyInv, CapturedNamesTheMoney
  <2>10. QED
    BY <1>1, <1>4, <2>1, <2>4, <2>5, <2>6, <2>7, <2>8, <2>9, RewriteKeeps
       DEF DocumentInv, MoneyInv
<1>7. QED
  BY <1>2, <1>5, <1>6 DEF RecordCapture

LEMMA RecordFailedAttemptKeeps ==
    ASSUME IInv, NEW h \in Handlers \cup {Sweep}, RecordFailedAttempt(h)
    PROVE  IInv'
<1>1. UNCHANGED <<ridePayment, priced, aged, captures, rideOf, attempt, checkout, lock, req>>
  BY DEF RecordFailedAttempt, gateway
<1>2. PICK p \in Attempts, o \in Orders :
         /\ p = job[h].attempt /\ o = attempt[p].order
         /\ attempt[p].status # "none" /\ Recorded(o)
  BY JobAttempt DEF RecordFailedAttempt
<1>3. CASE UNCHANGED payment /\ Finish(h)
  <2>1. OrdersGrow /\ AttemptsGrow
    BY <1>1, <1>3, NothingGrows
  <2>2. job' \in [Handlers \cup {Sweep} -> JobState] /\ JobInv'
    BY <1>3, <2>1, JobMoves DEF Finish, IInv, JobPC
  <2>3. QED
    BY <1>1, <1>3, <2>2, OnlyJobMoves
<1>4. CASE /\ payment[o].status \in FAILABLE_FROM_STATUSES
           /\ payment[o].attemptNumber < AttemptNumberBound
           /\ Save(o, Document("FAILED", payment[o].attemptNumber + 1, p,
                               payment[o].gatewayPaymentId))
           /\ Start(h, "failRide", p)
  <2>1. ~ Paid(o)
    BY <1>4 DEF Paid, PAID_STATUSES, FAILABLE_FROM_STATUSES
  <2>2. /\ payment[o].attemptNumber + 1 \in 0 .. AttemptNumberBound
        /\ payment[o].gatewayPaymentId \in Attempts \cup {Nobody}
    BY <1>4, FieldTypes, ConstantsAssumption DEF IInv
  <2>3. "FAILED" \in PaymentStatus \ PAID_STATUSES
    BY DEF PaymentStatus, CAPTURABLE_FROM_STATUSES, PAID_STATUSES
  <2>4. /\ payment' \in [Orders -> PaymentDoc]
        /\ DocumentInv' /\ OrdersGrow /\ AttemptsGrow
    BY <1>1, <1>2, <1>4, <2>1, <2>2, <2>3, UnpaidRewritten DEF IInv
  <2>5. job' \in [Handlers \cup {Sweep} -> JobState] /\ JobInv'
    BY <1>1, <1>2, <1>4, <2>4, JobMoves DEF IInv, JobPC
  <2>6. QED
    BY <1>1, <2>4, <2>5, RewriteKeeps DEF IInv, TypeOK
<1>5. QED
  BY <1>2, <1>3, <1>4 DEF RecordFailedAttempt

LEMMA MarkRideFailedKeeps ==
    ASSUME IInv, NEW h \in Handlers \cup {Sweep}, MarkRideFailed(h)
    PROVE  IInv'
<1>1. UNCHANGED <<priced, aged, payment, captures, rideOf, attempt, checkout, lock, req>>
  BY DEF MarkRideFailed, gateway
<1>2. ridePayment \in [Rides -> PAYABLE_RIDE_PAYMENT_STATUSES \cup {"CAPTURED"}]
  BY DEF IInv, TypeOK
<1>3. PICK r \in Rides :
         ridePayment' = [ridePayment EXCEPT ![r] = IF @ = "PENDING" THEN "FAILED" ELSE @]
  BY JobAttempt DEF MarkRideFailed
<1>4. /\ ridePayment' \in [Rides -> PAYABLE_RIDE_PAYMENT_STATUSES \cup {"CAPTURED"}]
      /\ \A r2 \in Rides : ridePayment'[r2] = "CAPTURED" <=> ridePayment[r2] = "CAPTURED"
  BY <1>2, <1>3 DEF PAYABLE_RIDE_PAYMENT_STATUSES
<1>5. DocumentInv' /\ OrdersGrow /\ AttemptsGrow
  BY <1>1, <1>4, UnpaidRideRewritten DEF IInv
<1>6. job' \in [Handlers \cup {Sweep} -> JobState] /\ JobInv'
  BY <1>5, JobMoves DEF MarkRideFailed, Finish, IInv, JobPC
<1>7. QED
  BY <1>1, <1>4, <1>5, <1>6, RewriteKeeps DEF IInv, TypeOK

LEMMA JobLostKeeps ==
    ASSUME IInv, NEW h \in Handlers \cup {Sweep}, JobLost(h)
    PROVE  IInv'
<1>1. UNCHANGED <<ridePayment, priced, aged, payment, captures, rideOf, attempt, checkout, lock, req>>
  BY DEF JobLost, db, gateway
<1>2. job' \in [Handlers \cup {Sweep} -> JobState] /\ JobInv'
  BY <1>1, NothingGrows, JobMoves DEF JobLost, Finish, IInv, JobPC
<1>3. QED
  BY <1>1, <1>2, OnlyJobMoves

LEMMA ReconcileKeeps == ASSUME IInv, NEW o \in Orders, Reconcile(o) PROVE IInv'
BY HandlerStarts DEF Reconcile, db, gateway

LEMMA LeaveWindowKeeps == ASSUME IInv, NEW o \in Orders, LeaveWindow(o) PROVE IInv'
<1>1. UNCHANGED <<ridePayment, priced, payment, captures, rideOf, attempt, checkout, lock, req, job>>
  BY DEF LeaveWindow, gateway
<1>2. DocumentInv' /\ OrdersGrow /\ AttemptsGrow
  BY <1>1, DocumentsKept DEF IInv
<1>3. RequestInv' /\ JobInv'
  BY <1>1, <1>2, RequestsKept, JobsKept DEF IInv
<1>4. TypeOK'
  BY <1>1 DEF LeaveWindow, IInv, TypeOK
<1>5. QED
  BY <1>2, <1>3, <1>4 DEF IInv

LEMMA StutterKeeps == ASSUME IInv, UNCHANGED vars PROVE IInv'
<1>1. UNCHANGED <<ridePayment, priced, aged, payment, captures, rideOf, attempt, checkout, lock, req, job>>
  BY DEF vars
<1>2. JobInv' /\ job' \in [Handlers \cup {Sweep} -> JobState]
  BY <1>1, NothingGrows, JobsKept DEF IInv, TypeOK
<1>3. QED
  BY <1>1, <1>2, OnlyJobMoves

-----------------------------------------------------------------------------
LEMMA InductiveStep == IInv /\ [Next]_vars => IInv'
<1> SUFFICES ASSUME IInv, [Next]_vars PROVE IInv'
  OBVIOUS
<1>1. ASSUME NEW q \in Requests, RequestStep(q) PROVE IInv'
  BY <1>1, CreateOrderKeeps, AcquireLockKeeps, RecheckKeeps, CreateGatewayOrderKeeps,
     InsertPaymentKeeps, ReopenPaymentKeeps, ReopenRideKeeps, RespondKeeps,
     ReleaseEarlyKeeps, RequestLostKeeps DEF RequestStep
<1>2. ASSUME NEW h \in Handlers \cup {Sweep}, JobStep(h) PROVE IInv'
  BY <1>2, MarkPendingKeeps, FetchPaymentKeeps, RecordCaptureKeeps,
     RecordFailedAttemptKeeps, MarkRideFailedKeeps, JobLostKeeps DEF JobStep
<1>3. QED
  BY <1>1, <1>2, PreviewKeeps, LockExpiresKeeps, GatewayStepKeeps, EventArrivesKeeps,
     LeaveWindowKeeps, ReconcileKeeps, StutterKeeps DEF Next

THEOREM Inductive == Spec => []IInv
<1>1. Init => IInv
  BY InitInv
<1>2. QED
  BY <1>1, InductiveStep, PTL DEF Spec

-----------------------------------------------------------------------------
(* The safety theorems.                                                    *)

\* Every state component keeps its shape, in every action of the flow.
THEOREM TypeCorrect == Spec => []TypeOK
BY Inductive, PTL DEF IInv

\* A rider never holds two orders of one ride, nor one without a Payment
\* document, for any number of overlapping createOrder requests, of crashes and of
\* expired locks: it rests on the unique key, not on the lock.
THEOREM OneOrder == Spec => []OneOrderPerRide
<1>1. IInv => OneOrderPerRide
  BY DEF IInv, TypeOK, DocumentInv, CheckoutRecorded, UniqueKey, OneOrderPerRide
<1>2. QED
  BY <1>1, Inductive, PTL

\* The ledger posts a capture once for each paid payment (recordPaymentCapture).
THEOREM LedgerExact == Spec => []LedgerFollowsCapture
BY Inductive, PTL DEF IInv, DocumentInv, MoneyInv

\* The ride is paid when and only when its payment is.
THEOREM RideExact == Spec => []RideFollowsCapture
BY Inductive, PTL DEF IInv, DocumentInv, MoneyInv

\* A paid payment names the captured attempt on its own order.
THEOREM RefundTarget == Spec => []CapturedNamesTheMoney
BY Inductive, PTL DEF IInv, DocumentInv, MoneyInv

\* No step of any actor rewrites the document of a paid payment.
THEOREM PaidStays == Spec => PaidIsFinal
<1>1. IInv /\ [Next]_vars => [\A o \in Orders : Paid(o) => payment'[o] = payment[o]]_vars
  <2> SUFFICES ASSUME IInv, Next, NEW o \in Orders, Paid(o)
               PROVE  payment'[o] = payment[o]
    BY DEF Paid, vars
  <2>1. /\ payment[o].status = "CAPTURED" /\ Recorded(o)
        /\ payment \in [Orders -> PaymentDoc]
    BY DEF Paid, PAID_STATUSES, Recorded, ABSENT, IInv, TypeOK
  <2>2. CASE UNCHANGED payment
    BY <2>2
  <2>3. ASSUME NEW o2, NEW doc, Save(o2, doc), o2 # o PROVE payment'[o] = payment[o]
    BY <2>1, <2>3 DEF Save
  <2>4. ASSUME NEW q \in Requests, InsertPayment(q) PROVE payment'[o] = payment[o]
    <3>1. rideOf[req[q].order] = req[q].ride
      BY <2>4 DEF InsertPayment, IInv, RequestInv, RequestOK
    <3>2. PaymentsOf(req[q].ride) = {} => req[q].order # o
      BY <2>1, <3>1 DEF PaymentsOf
    <3>3. QED
      BY <2>2, <2>3, <2>4, <3>2 DEF InsertPayment
  <2>5. ASSUME NEW q \in Requests, ReopenPayment(q) PROVE payment'[o] = payment[o]
    BY <2>1, <2>2, <2>3, <2>5 DEF ReopenPayment
  <2>6. ASSUME NEW h \in Handlers, NEW p \in Attempts, DeliverAuthorized(h, p)
        PROVE payment'[o] = payment[o]
    BY <2>1, <2>3, <2>6 DEF DeliverAuthorized
  <2>7. ASSUME NEW h \in Handlers \cup {Sweep}, MarkPending(h) PROVE payment'[o] = payment[o]
    BY <2>1, <2>2, <2>3, <2>7 DEF MarkPending, VERIFIABLE_FROM_STATUSES
  <2>8. ASSUME NEW h \in Handlers \cup {Sweep}, RecordCapture(h)
        PROVE payment'[o] = payment[o]
    BY <2>1, <2>2, <2>3, <2>8 DEF RecordCapture, CanClaim, CAPTURABLE_FROM_STATUSES
  <2>9. ASSUME NEW h \in Handlers \cup {Sweep}, RecordFailedAttempt(h)
        PROVE payment'[o] = payment[o]
    BY <2>1, <2>2, <2>3, <2>9 DEF RecordFailedAttempt, FAILABLE_FROM_STATUSES
  <2>10. ASSUME NEW q \in Requests, RequestStep(q) PROVE payment'[o] = payment[o]
    BY <2>2, <2>4, <2>5, <2>10
       DEF RequestStep, CreateOrder, AcquireLock, Recheck, CreateGatewayOrder, ReopenRide,
           ReleaseEarly, Respond, RequestFails, RequestCrashes, db
  <2>11. ASSUME NEW h \in Handlers, NEW p \in Attempts, EventArrives(h, p)
         PROVE payment'[o] = payment[o]
    BY <2>2, <2>6, <2>11
       DEF EventArrives, DeliverCaptured, DeliverFailed, VerifyCheckout, db
  <2>12. ASSUME NEW h \in Handlers \cup {Sweep}, JobStep(h) PROVE payment'[o] = payment[o]
    BY <2>2, <2>7, <2>8, <2>9, <2>12 DEF JobStep, FetchPayment, MarkRideFailed, JobLost, db
  <2>13. ASSUME NEW p \in Attempts, GatewayStep(p) PROVE payment'[o] = payment[o]
    BY <2>2, <2>13
       DEF GatewayStep, StartAttempt, Authorize, CaptureAtGateway, FailAtGateway, db
  <2>14. QED
    BY <2>2, <2>10, <2>11, <2>12, <2>13
       DEF Next, PreviewRideFare, LockExpires, LeaveWindow, Reconcile, db
<1>2. QED
  BY <1>1, Inductive, PTL DEF Spec, PaidIsFinal

-----------------------------------------------------------------------------
(* The refinement: a capture at the gateway is the contract's Charge, the  *)
(* capture transaction its Record, and every other step a stutter.         *)

ChargedTo(r) ==
    {p \in Attempts : attempt[p].status = "captured" /\ rideOf[attempt[p].order] = r}
PaidRides == {r \in Rides : ridePayment[r] = "CAPTURED"}

\* Steps that neither capture at the gateway nor change a ride's paid status.
LEMMA NothingCharged ==
    ASSUME IInv, \A p \in Attempts : attempt'[p].status = "captured" <=>
                                     attempt[p].status = "captured",
           AttemptsGrow,
           \A o \in Orders : rideOf[o] \in Rides => rideOf'[o] = rideOf[o],
           \A r \in Rides : ridePayment'[r] = "CAPTURED" <=> ridePayment[r] = "CAPTURED"
    PROVE  UNCHANGED Contract!vars
<1>1. \A p \in Attempts : attempt[p].status = "captured" =>
         attempt'[p] = attempt[p] /\ rideOf'[attempt[p].order] = rideOf[attempt[p].order]
  BY AttemptedOrder DEF IInv, AttemptsGrow
<1>2. \A r \in Rides : ChargedTo(r)' = ChargedTo(r)
  BY <1>1 DEF ChargedTo
<1>3. PaidRides' = PaidRides
  BY DEF PaidRides
<1>4. QED
  BY <1>2, <1>3 DEF Contract!vars, ChargedTo, PaidRides

\* CaptureAtGateway charges a ride no other attempt was charged for: every order
\* of a ride in a browser is the same order.
LEMMA CaptureCharges ==
    ASSUME IInv, NEW p \in Attempts, CaptureAtGateway(p)
    PROVE  Contract!Next
<1>1. UNCHANGED <<ridePayment, rideOf, checkout>>
  BY DEF CaptureAtGateway, db
<1>2. PICK r \in Rides, o \in Orders :
         /\ o = attempt[p].order /\ r = rideOf[o] /\ Recorded(o)
  BY AttemptedOrder DEF CaptureAtGateway, IInv
<1>3. ChargedTo(r) = {}
  <2>1. ASSUME NEW p2 \in Attempts, attempt[p2].status = "captured",
               rideOf[attempt[p2].order] = r
        PROVE  FALSE
    <3>1. attempt[p2].order \in Orders /\ Recorded(attempt[p2].order)
      BY <2>1, AttemptedOrder DEF IInv
    <3>2. attempt[p2].order = o
      BY <1>2, <2>1, <3>1 DEF IInv, DocumentInv, UniqueKey
    <3>3. QED
      BY <1>2, <2>1, <3>2 DEF CaptureAtGateway, GatewayCaptured
  <2>2. QED
    BY <2>1 DEF ChargedTo
<1>4. /\ attempt'[p].order = o /\ attempt'[p].status = "captured"
      /\ \A p2 \in Attempts \ {p} : attempt'[p2] = attempt[p2]
  <2>1. attempt[p].signed \in BOOLEAN
    BY FieldTypes DEF IInv
  <2>2. QED
    BY <1>2, <2>1, SetAttemptEffect DEF CaptureAtGateway, IInv, AttemptStatus
<1>5. attempt[p].status # "captured"
  BY DEF CaptureAtGateway
<1>6. ChargedTo(r)' = ChargedTo(r) \cup {p}
  BY <1>1, <1>2, <1>4 DEF ChargedTo
<1>7. \A r2 \in Rides \ {r} : ChargedTo(r2)' = ChargedTo(r2)
  BY <1>1, <1>2, <1>4, <1>5 DEF ChargedTo
<1>8. PaidRides' = PaidRides
  BY <1>1 DEF PaidRides
<1>9. Contract!Charge(r, p)
  <2> DEFINE c == [r2 \in Rides |-> ChargedTo(r2)]
             d == [r2 \in Rides |-> ChargedTo(r2)']
  <2>1. c[r] = {} /\ d = [c EXCEPT ![r] = {p}]
    BY <1>2, <1>3, <1>6, <1>7
  <2>2. QED
    BY <1>8, <2>1 DEF Contract!Charge, ChargedTo, PaidRides
<1>10. QED
  BY <1>2, <1>9 DEF Contract!Next

\* The capture transaction pays a ride that was charged and is not paid yet.
LEMMA CaptureRecords ==
    ASSUME IInv, NEW h \in Handlers \cup {Sweep}, RecordCapture(h)
    PROVE  Contract!Next \/ UNCHANGED Contract!vars
<1>1. UNCHANGED <<rideOf, attempt>>
  BY DEF RecordCapture, gateway
<1>2. PICK p \in Attempts, o \in Orders, r \in Rides :
         p = job[h].attempt /\ o = attempt[p].order /\ Recorded(o) /\ r = rideOf[o]
  BY JobAttempt DEF RecordCapture
<1>3. CASE UNCHANGED ridePayment
  BY <1>1, <1>3 DEF Contract!vars
<1>4. CASE CanClaim(o) /\ ridePayment' = [ridePayment EXCEPT ![r] = "CAPTURED"]
  <2>1. p \in ChargedTo(r)
    BY <1>2 DEF ChargedTo, RecordCapture, IInv, JobInv, JobOK
  <2>2. r \notin PaidRides
    <3>1. ~ Paid(o)
      BY <1>4 DEF CanClaim, Paid, PAID_STATUSES, CAPTURABLE_FROM_STATUSES
    <3>2. \A o2 \in PaymentsOf(r) : o2 = o
      BY <1>2 DEF PaymentsOf, IInv, DocumentInv, UniqueKey
    <3>3. QED
      BY <3>1, <3>2 DEF PaidRides, IInv, DocumentInv, MoneyInv, RideFollowsCapture
  <2>3. PaidRides' = PaidRides \cup {r}
    BY <1>2, <1>4 DEF PaidRides, IInv, TypeOK
  <2>4. \A r2 \in Rides : ChargedTo(r2)' = ChargedTo(r2)
    BY <1>1 DEF ChargedTo
  <2>5. Contract!Record(r)
    BY <1>2, <2>1, <2>2, <2>3, <2>4 DEF Contract!Record, ChargedTo, PaidRides
  <2>6. QED
    BY <2>5 DEF Contract!Next
<1>5. QED
  BY <1>2, <1>3, <1>4 DEF RecordCapture

\* The contract's state does not move when gateway and rides are left alone.
LEMMA StillCharged ==
    ASSUME UNCHANGED <<ridePayment, rideOf, attempt>>
    PROVE  UNCHANGED Contract!vars
BY DEF Contract!vars

LEMMA AttemptStepStutters ==
    ASSUME IInv, NEW p \in Attempts, NEW o \in Orders, NEW s \in AttemptStatus \ {"captured"},
           NEW signed \in BOOLEAN, SetAttempt(p, o, s, signed),
           attempt[p].status # "captured", attempt[p].status = "none" \/ s # "none",
           UNCHANGED <<ridePayment, rideOf>>
    PROVE  UNCHANGED Contract!vars
<1>1. /\ attempt'[p].status = s
      /\ \A p2 \in Attempts \ {p} : attempt'[p2] = attempt[p2]
  BY SetAttemptEffect DEF IInv
<1>2. AttemptsGrow
  BY <1>1 DEF AttemptsGrow
<1>3. QED
  BY <1>1, <1>2, NothingCharged

LEMMA GatewayStepMaps ==
    ASSUME IInv, NEW p \in Attempts, GatewayStep(p)
    PROVE  Contract!Next \/ UNCHANGED Contract!vars
<1>1. UNCHANGED <<ridePayment, rideOf>>
  BY DEF GatewayStep, StartAttempt, Authorize, CaptureAtGateway, FailAtGateway, db
<1>2. attempt[p].signed \in BOOLEAN
  BY FieldTypes DEF IInv
<1>3. ASSUME attempt[p].status # "none" PROVE attempt[p].order \in Orders
  BY <1>3, AttemptedOrder DEF IInv
<1>4. CASE \E o \in Orders : StartAttempt(p, o)
  BY <1>1, <1>4, AttemptStepStutters DEF StartAttempt, AttemptStatus
<1>5. CASE Authorize(p)
  BY <1>1, <1>3, <1>5, AttemptStepStutters DEF Authorize, AttemptStatus
<1>6. CASE CaptureAtGateway(p)
  BY <1>6, CaptureCharges
<1>7. CASE FailAtGateway(p)
  BY <1>1, <1>2, <1>3, <1>7, AttemptStepStutters DEF FailAtGateway, AttemptStatus
<1>8. QED
  BY <1>4, <1>5, <1>6, <1>7 DEF GatewayStep

LEMMA RequestStepMaps ==
    ASSUME IInv, NEW q \in Requests, RequestStep(q)
    PROVE  UNCHANGED Contract!vars
<1>1. CASE CreateGatewayOrder(q)
  <2>1. UNCHANGED <<ridePayment, attempt>>
    BY <1>1 DEF CreateGatewayOrder, db
  <2>2. \A o \in Orders : rideOf[o] \in Rides => rideOf'[o] = rideOf[o]
    BY <1>1, ConstantsAssumption DEF CreateGatewayOrder, IInv, TypeOK
  <2>3. QED
    BY <2>1, <2>2, NothingCharged DEF AttemptsGrow
<1>2. CASE ReopenRide(q)
  <2>1. UNCHANGED <<rideOf, attempt>>
    BY <1>2 DEF ReopenRide, gateway
  <2>2. \A r \in Rides : ridePayment'[r] = "CAPTURED" <=> ridePayment[r] = "CAPTURED"
    BY <1>2 DEF ReopenRide, IInv, TypeOK
  <2>3. QED
    BY <2>1, <2>2, NothingCharged DEF AttemptsGrow
<1>3. CASE ~ CreateGatewayOrder(q) /\ ~ ReopenRide(q)
  BY <1>3, StillCharged
     DEF RequestStep, CreateOrder, AcquireLock, Recheck, InsertPayment, ReopenPayment,
         ReleaseEarly, Respond, RequestFails, RequestCrashes, db, gateway
<1>4. QED
  BY <1>1, <1>2, <1>3

LEMMA JobStepMaps ==
    ASSUME IInv, NEW h \in Handlers \cup {Sweep}, JobStep(h)
    PROVE  Contract!Next \/ UNCHANGED Contract!vars
<1>1. CASE RecordCapture(h)
  BY <1>1, CaptureRecords
<1>2. CASE MarkRideFailed(h)
  <2>1. UNCHANGED <<rideOf, attempt>>
    BY <1>2 DEF MarkRideFailed, gateway
  <2>2. \A r \in Rides : ridePayment'[r] = "CAPTURED" <=> ridePayment[r] = "CAPTURED"
    BY <1>2 DEF MarkRideFailed, IInv, TypeOK
  <2>3. QED
    BY <2>1, <2>2, NothingCharged DEF AttemptsGrow
<1>3. CASE MarkPending(h) \/ FetchPayment(h) \/ RecordFailedAttempt(h) \/ JobLost(h)
  BY <1>3, StillCharged
     DEF MarkPending, FetchPayment, RecordFailedAttempt, JobLost, db, gateway
<1>4. QED
  BY <1>1, <1>2, <1>3 DEF JobStep

\* The flow of createOrder, checkout, webhooks and sweep keeps the contract: a ride is
\* charged at most once, and paid once, after it was charged.
THEOREM Refinement == Spec => ImplementsFareContract
<1>1. Init => Contract!Init
  BY DEF Init, Contract!Init
<1>2. IInv /\ [Next]_vars => [Contract!Next]_(Contract!vars)
  <2> SUFFICES ASSUME IInv, [Next]_vars
               PROVE  Contract!Next \/ UNCHANGED Contract!vars
    OBVIOUS
  <2>1. CASE \E r \in Rides : PreviewRideFare(r) \/ LockExpires(r)
    BY <2>1, StillCharged DEF PreviewRideFare, LockExpires, db, gateway
  <2>2. CASE \E q \in Requests : RequestStep(q)
    BY <2>2, RequestStepMaps
  <2>3. CASE \E p \in Attempts : GatewayStep(p)
    BY <2>3, GatewayStepMaps
  <2>4. CASE \E h \in Handlers, p \in Attempts : EventArrives(h, p)
    BY <2>4, StillCharged
       DEF EventArrives, DeliverCaptured, DeliverFailed, DeliverAuthorized, VerifyCheckout,
           db, gateway
  <2>5. CASE \E h \in Handlers \cup {Sweep} : JobStep(h)
    BY <2>5, JobStepMaps
  <2>6. CASE \E o \in Orders : LeaveWindow(o) \/ Reconcile(o)
    BY <2>6, StillCharged DEF LeaveWindow, Reconcile, db, gateway
  <2>7. CASE UNCHANGED vars
    BY <2>7, StillCharged DEF vars
  <2>8. QED
    BY <2>1, <2>2, <2>3, <2>4, <2>5, <2>6, <2>7 DEF Next
<1>3. QED
  BY <1>1, <1>2, Inductive, PTL DEF Spec, ImplementsFareContract, Contract!Spec
=============================================================================

---------------------------- MODULE PayoutsProofs ----------------------------
(***************************************************************************)
(* Proofs about Payouts, for any driver share and any number of payout     *)
(* records, requests, deliveries and events.                               *)
(***************************************************************************)
EXTENDS Payouts, TLAPS

-----------------------------------------------------------------------------
(* The inductive invariant.                                                *)

\* Behind every marker there is a handler that finished, is at work, threw or died.
MarkersTell ==
    /\ AnsweredIsHandled
    /\ \A e \in PayoutEvents : marker[e] = "done" => e \in handled
    /\ \A e \in PayoutEvents :
        marker[e] = "processing" => e \in handled \/ AtWork(e) \/ e \in interrupted
    /\ \A h \in Handlers : handler[h].pc = "complete" => handler[h].event \in handled

IntakeInv == IntakeTypeOK /\ MarkersTell

\* Documents and ledger agree.
Book ==
    /\ payouts \in [Records -> Payout]
    /\ ledger \in 0 .. DriverEarning
    /\ \A r \in LivePayouts : payouts[r].amount # 0
    /\ OneLivePayout
    /\ LedgerFollowsPayouts

\* Only a payout.reversed at its dispatch has read a status.
SeenIsReversal ==
    \A h \in Handlers : seen[h] # "none" =>
        handler[h].pc = "dispatch" /\ handler[h].event[2] = "reversed"

\* A request that would take more than refunds left of the share knows.
RequestsKnow == \A q \in Requests : request[q].amount > PayableShare => request[q].outrun

IInv ==
    /\ TypeOK /\ IntakeInv /\ Book /\ SeenIsReversal /\ RequestsKnow
    /\ PostedMoneyWasSent /\ OverdraftIsFlagged

USE DEF Kinds, AtWork, AnsweredIsHandled

-----------------------------------------------------------------------------
(* WebhookIntake keeps its part.                                           *)

LEMMA IntakeInit_ == IntakeInit => IntakeInv
BY PayoutsAssumption DEF IntakeInit, IntakeInv, IntakeTypeOK, MarkersTell, Idle

LEMMA EmitKeeps == ASSUME IntakeInv, NEW e \in PayoutEvents, Emit(e) PROVE IntakeInv'
BY DEF Emit, IntakeInv, IntakeTypeOK, MarkersTell

LEMMA ClaimKeeps ==
    ASSUME IntakeInv, NEW h \in Handlers, NEW e \in PayoutEvents, Claim(h, e)
    PROVE  IntakeInv'
<1>1. \A g \in Handlers : handler'[g] = IF g = h THEN [pc |-> "dispatch", event |-> e] ELSE handler[g]
  BY DEF Claim, StartHandler, IntakeInv, IntakeTypeOK
<1>2. IntakeTypeOK'
  BY <1>1 DEF Claim, Due, StartHandler, IntakeInv, IntakeTypeOK
<1>3. /\ \A d \in PayoutEvents : AtWork(d) => AtWork(d)'
      /\ AtWork(e)'
      /\ \A d \in PayoutEvents : marker'[d] = IF d = e THEN "processing" ELSE marker[d]
  BY <1>1 DEF Claim, Due, IntakeInv, IntakeTypeOK
<1>4. MarkersTell'
  BY <1>1, <1>3 DEF Claim, IntakeInv, IntakeTypeOK, MarkersTell
<1>5. QED
  BY <1>2, <1>4 DEF IntakeInv

LEMMA AnswerDuplicateKeeps ==
    ASSUME IntakeInv, NEW h \in Handlers, NEW e \in PayoutEvents, AnswerDuplicate(h, e)
    PROVE  IntakeInv'
BY DEF AnswerDuplicate, Due, IntakeInv, IntakeTypeOK, MarkersTell

LEMMA ReturnsKeeps ==
    ASSUME IntakeInv, NEW h \in Handlers, handler[h].pc = "dispatch", Returns(h)
    PROVE  IntakeInv'
<1> DEFINE r == [handler[h] EXCEPT !.pc = "complete"]
<1>1. handler[h] \in [pc : {"dispatch", "complete"}, event : emitted]
  BY DEF IntakeInv, IntakeTypeOK, Idle
<1>2. r \in [pc : {"dispatch", "complete"}, event : emitted] /\ r.pc = "complete"
      /\ r.event = handler[h].event
  BY <1>1
<1>3. handler' = [handler EXCEPT ![h] = r]
  BY DEF Returns
<1> HIDE DEF r
<1>4. \A g \in Handlers : handler'[g] = IF g = h THEN r ELSE handler[g]
  BY <1>3 DEF IntakeInv, IntakeTypeOK
<1>5. IntakeTypeOK'
  BY <1>1, <1>2, <1>3, <1>4 DEF Returns, IntakeInv, IntakeTypeOK
<1>6. MarkersTell'
  BY <1>2, <1>4 DEF Returns, IntakeInv, MarkersTell
<1>7. QED
  BY <1>5, <1>6 DEF IntakeInv

\* A handler is done with its event, whatever becomes of the marker.
LEMMA BackToIdle ==
    ASSUME IntakeInv, NEW h \in Handlers, handler' = [handler EXCEPT ![h] = Idle]
    PROVE  /\ handler' = [g \in Handlers |-> handler'[g]]
           /\ \A g \in Handlers : handler'[g] = IF g = h THEN Idle ELSE handler[g]
BY DEF IntakeInv, IntakeTypeOK

\* What a handler that stops over its event leaves at work.
LEMMA OthersAtWork ==
    ASSUME IntakeInv, NEW h \in Handlers, handler' = [handler EXCEPT ![h] = Idle],
           NEW e \in PayoutEvents, AtWork(e)
    PROVE  AtWork(e)' \/ (handler[h].pc = "dispatch" /\ e = handler[h].event)
BY BackToIdle

LEMMA StopsOver ==
    ASSUME IntakeInv, NEW h \in Handlers, handler[h].pc # "idle",
           handler' = [handler EXCEPT ![h] = Idle],
           interrupted' = interrupted \cup ({handler[h].event} \ handled),
           UNCHANGED <<emitted, answered, handled, early>>,
           \/ marker' = marker
           \/ marker' = [marker EXCEPT ![handler[h].event] = "none"]
    PROVE  IntakeInv'
<1>1. handler[h].event \in PayoutEvents /\ handler[h].event \in emitted
  BY DEF IntakeInv, IntakeTypeOK, Idle
<1>2. \A e \in PayoutEvents : marker'[e] # "none" => marker'[e] = marker[e]
  BY DEF IntakeInv, IntakeTypeOK
<1>3. IntakeTypeOK'
  <2>1. marker' \in [PayoutEvents -> {"none", "processing", "done"}]
    BY DEF IntakeInv, IntakeTypeOK
  <2>2. QED
    BY <1>1, <2>1, BackToIdle DEF IntakeInv, IntakeTypeOK
<1>4. \A e \in PayoutEvents : AtWork(e) \/ e \in interrupted
                            => AtWork(e)' \/ e \in interrupted' \/ e \in handled
  BY <1>1, OthersAtWork
<1>5. AnsweredIsHandled'
  BY <1>4 DEF IntakeInv, IntakeTypeOK, MarkersTell
<1>6. \A g \in Handlers : handler'[g].pc = "complete" => handler'[g].event \in handled'
  BY BackToIdle DEF IntakeInv, MarkersTell, Idle
<1>7. MarkersTell'
  <2>1. \A e \in PayoutEvents : marker'[e] = "processing"
                               => e \in handled' \/ AtWork(e)' \/ e \in interrupted'
    BY <1>2, <1>4 DEF IntakeInv, MarkersTell
  <2>2. QED
    BY <1>2, <1>5, <1>6, <2>1 DEF IntakeInv, MarkersTell
<1>8. QED
  BY <1>3, <1>7 DEF IntakeInv

LEMMA ThrowsKeeps ==
    ASSUME IntakeInv, NEW h \in Handlers, handler[h].pc = "dispatch", Throws(h)
    PROVE  IntakeInv'
BY StopsOver DEF Throws

LEMMA CompleteKeeps == ASSUME IntakeInv, NEW h \in Handlers, Complete(h) PROVE IntakeInv'
<1> DEFINE d == handler[h].event
<1>1. d \in PayoutEvents /\ d \in emitted /\ d \in handled
  BY DEF Complete, IntakeInv, IntakeTypeOK, MarkersTell, Idle
<1>2. \A e \in PayoutEvents : marker'[e] = IF e = d THEN "done" ELSE marker[e]
  BY DEF Complete, IntakeInv, IntakeTypeOK
<1>3. IntakeTypeOK'
  <2>1. marker' \in [PayoutEvents -> {"none", "processing", "done"}]
    BY DEF Complete, IntakeInv, IntakeTypeOK
  <2>2. QED
    BY <1>1, <2>1, BackToIdle DEF Complete, IntakeInv, IntakeTypeOK
<1>4. \A e \in PayoutEvents : AtWork(e) => AtWork(e)'
  BY OthersAtWork DEF Complete
<1>5. AnsweredIsHandled'
  <2>1. answered \subseteq PayoutEvents
    BY DEF IntakeInv, IntakeTypeOK
  <2>2. answered' \ handled' \subseteq answered \ handled /\ UNCHANGED <<early, interrupted>>
    BY <1>1 DEF Complete
  <2>3. AnsweredIsHandled
    BY DEF IntakeInv, MarkersTell
  <2> HIDE DEF AtWork
  <2>4. QED
    BY <1>4, <2>1, <2>2, <2>3
<1>6. \A g \in Handlers : handler'[g].pc = "complete" => handler'[g].event \in handled'
  BY BackToIdle DEF Complete, IntakeInv, MarkersTell, Idle
<1>7. MarkersTell'
  BY <1>1, <1>2, <1>4, <1>5, <1>6 DEF Complete, IntakeInv, MarkersTell
<1>8. QED
  BY <1>3, <1>7 DEF IntakeInv

LEMMA CrashesKeeps == ASSUME IntakeInv, NEW h \in Handlers, HandlerCrashes(h) PROVE IntakeInv'
BY StopsOver DEF HandlerCrashes

LEMMA MarkerExpiresKeeps == ASSUME IntakeInv, NEW e \in PayoutEvents, MarkerExpires(e) PROVE IntakeInv'
BY DEF MarkerExpires, IntakeInv, IntakeTypeOK, MarkersTell

LEMMA NoIntake == ASSUME IntakeInv, UNCHANGED intakeVars PROVE IntakeInv'
BY DEF intakeVars, IntakeInv, IntakeTypeOK, MarkersTell

-----------------------------------------------------------------------------
(* Documents, ledger and the driver's share.                               *)

Held == IF LivePayouts = {} THEN 0 ELSE payouts[CHOOSE r \in LivePayouts : TRUE].amount

\* The share is held by the live payout.
LEMMA HeldIs ==
    ASSUME Book
    PROVE  /\ LivePayouts = {} => Held = 0 /\ ledger = 0
           /\ \A r \in LivePayouts :
                /\ LivePayouts = {r} /\ Held = payouts[r].amount /\ Held \in 1 .. DriverEarning
                /\ ledger = IF payouts[r].status = "PROCESSED" THEN Held ELSE 0
<1>1. ASSUME NEW r \in LivePayouts PROVE LivePayouts = {r} /\ Held = payouts[r].amount
  <2>1. LivePayouts = {r}
    BY DEF Book, OneLivePayout
  <2>2. QED
    BY <2>1 DEF Held
<1>2. ASSUME NEW r \in LivePayouts PROVE payouts[r].amount \in 1 .. DriverEarning
  BY PayoutsAssumption DEF Book, LivePayouts, Payout
<1>3. QED
  BY <1>1, <1>2 DEF Book, LedgerFollowsPayouts, Held

\* What DriverShare may see of a step.
ShareStep == Share!Next \/ (Held' = Held /\ ledger' = ledger)

\* Record r moves from `from` to `to`, as the table of the service allows.
LEMMA MoveKeeps ==
    ASSUME Book, NEW r \in Records, NEW from \in SUBSET LIVE_PAYOUT_STATUSES, payouts[r].status \in from,
           NEW to \in PayoutStatus, NEW posting \in Int,
           payouts' = [payouts EXCEPT ![r].status = to], ledger' = ledger + posting,
           \/ from = {"PENDING"} /\ to = "PROCESSING" /\ posting = 0
           \/ from = Unsettled /\ to = "PROCESSED" /\ posting = payouts[r].amount
           \/ from = Unsettled /\ to = "FAILED" /\ posting = 0
           \/ from = {"PROCESSED"} /\ to = "REVERSED" /\ posting = -payouts[r].amount
    PROVE  Book' /\ ShareStep
<1> DEFINE p == [payouts[r] EXCEPT !.status = to]
<1>1. payouts[r] \in Payout /\ r \in LivePayouts
  BY DEF Book, LivePayouts
<1>2. p \in Payout /\ p.status = to /\ p.amount = payouts[r].amount
  BY <1>1 DEF Payout
<1> HIDE DEF p
<1>3. payouts' \in [Records -> Payout]
      /\ \A s \in Records : payouts'[s] = IF s = r THEN p ELSE payouts[s]
  BY <1>2 DEF Book, p
<1>4. LivePayouts' = IF to \in LIVE_PAYOUT_STATUSES THEN {r} ELSE {}
  <2>1. LivePayouts = {r}
    BY <1>1, HeldIs
  <2>2. QED
    BY <1>2, <1>3, <2>1 DEF LivePayouts
<1>5. /\ payouts[r].amount \in 1 .. DriverEarning /\ Held = payouts[r].amount
      /\ ledger = IF payouts[r].status = "PROCESSED" THEN payouts[r].amount ELSE 0
  BY <1>1, HeldIs
<1>6. ledger' = IF to = "PROCESSED" THEN payouts[r].amount ELSE 0
  BY <1>5 DEF Unsettled
<1>7. Book'
  BY <1>2, <1>3, <1>4, <1>5, <1>6, PayoutsAssumption
     DEF Book, OneLivePayout, LedgerFollowsPayouts, LIVE_PAYOUT_STATUSES
<1>8. Held' = IF to \in LIVE_PAYOUT_STATUSES THEN payouts[r].amount ELSE 0
  <2>1. to \in LIVE_PAYOUT_STATUSES => (CHOOSE s \in LivePayouts' : TRUE) = r
    BY <1>4
  <2>2. QED
    BY <1>2, <1>3, <1>4, <2>1 DEF Held
<1>9. ShareStep
  BY <1>5, <1>6, <1>8, HeldIs
     DEF ShareStep, Share!Next, Share!Pay, Share!GiveUp, Share!Return, Held, Unsettled, LIVE_PAYOUT_STATUSES
<1>10. QED
  BY <1>7, <1>9

LEMMA BookSame == ASSUME Book, UNCHANGED <<payouts, ledger>> PROVE Book' /\ ShareStep
BY DEF Book, OneLivePayout, LedgerFollowsPayouts, LivePayouts, ShareStep, Held

LEMMA TransitionKeeps ==
    ASSUME Book, NEW r \in Records,
           MarkProcessing(r) \/ MarkProcessed(r) \/ MarkFailed(r) \/ ReverseProcessed(r)
    PROVE  Book' /\ ShareStep
<1>1. /\ payouts[r].amount \in Int /\ -payouts[r].amount \in Int /\ ledger \in Int /\ 0 \in Int
      /\ {"PENDING"} \in SUBSET LIVE_PAYOUT_STATUSES /\ {"PROCESSED"} \in SUBSET LIVE_PAYOUT_STATUSES
      /\ Unsettled \in SUBSET LIVE_PAYOUT_STATUSES
      /\ {"PROCESSING", "PROCESSED", "FAILED", "REVERSED"} \subseteq PayoutStatus
  BY DEF Book, Payout, Unsettled, LIVE_PAYOUT_STATUSES, PayoutStatus
<1>2. CASE MarkProcessing(r)
  <2>1. CASE payouts[r].status \in {"PENDING"}
    <3>1. payouts' = [payouts EXCEPT ![r].status = "PROCESSING"] /\ ledger' = ledger + 0
      BY <1>2, <2>1 DEF MarkProcessing, Transition
    <3>2. QED
      BY ONLY <1>1, <2>1, <3>1, MoveKeeps, Book, r \in Records
  <2>2. QED
    BY <1>2, <2>1, BookSame DEF MarkProcessing, Transition
<1>3. CASE MarkProcessed(r)
  <2>1. CASE payouts[r].status \in Unsettled
    <3>1. payouts' = [payouts EXCEPT ![r].status = "PROCESSED"] /\ ledger' = ledger + payouts[r].amount
      BY <1>3, <2>1 DEF MarkProcessed, Transition
    <3>2. QED
      BY ONLY <1>1, <2>1, <3>1, MoveKeeps, Book, r \in Records
  <2>2. QED
    BY <1>3, <2>1, BookSame DEF MarkProcessed, Transition
<1>4. CASE MarkFailed(r)
  <2>1. CASE payouts[r].status \in Unsettled
    <3>1. payouts' = [payouts EXCEPT ![r].status = "FAILED"] /\ ledger' = ledger + 0
      BY <1>4, <2>1 DEF MarkFailed, Transition
    <3>2. QED
      BY ONLY <1>1, <2>1, <3>1, MoveKeeps, Book, r \in Records
  <2>2. QED
    BY <1>4, <2>1, BookSame DEF MarkFailed, Transition
<1>5. CASE ReverseProcessed(r)
  <2>1. CASE payouts[r].status \in {"PROCESSED"}
    <3>1. payouts' = [payouts EXCEPT ![r].status = "REVERSED"] /\ ledger' = ledger + -payouts[r].amount
      BY <1>5, <2>1 DEF ReverseProcessed, Transition
    <3>2. QED
      BY ONLY <1>1, <2>1, <3>1, MoveKeeps, Book, r \in Records
  <2>2. QED
    BY <1>5, <2>1, BookSame DEF ReverseProcessed, Transition
<1>6. QED
  BY <1>2, <1>3, <1>4, <1>5

LEMMA InsertKeeps ==
    ASSUME Book, LivePayouts = {}, NEW r \in Records, NEW amount \in 1 .. DriverEarning,
           payouts' = [payouts EXCEPT ![r] = [status |-> "PENDING", amount |-> amount]], ledger' = ledger
    PROVE  Book' /\ ShareStep
<1> DEFINE p == [status |-> "PENDING", amount |-> amount]
<1>1. p \in Payout /\ p.status = "PENDING" /\ p.amount = amount
  BY PayoutsAssumption DEF Payout, PayoutStatus, LIVE_PAYOUT_STATUSES
<1> HIDE DEF p
<1>2. payouts' \in [Records -> Payout]
      /\ \A s \in Records : payouts'[s] = IF s = r THEN p ELSE payouts[s]
  BY <1>1 DEF Book, p
<1>3. LivePayouts' = {r} /\ ledger' = 0
  BY <1>1, <1>2, HeldIs DEF LivePayouts, LIVE_PAYOUT_STATUSES
<1>4. Book'
  BY <1>1, <1>2, <1>3, PayoutsAssumption DEF Book, OneLivePayout, LedgerFollowsPayouts
<1>5. Held' = amount /\ Held = 0 /\ ledger = 0
  BY <1>1, <1>2, <1>3, HeldIs DEF Held
<1>6. ShareStep
  BY <1>3, <1>5 DEF ShareStep, Share!Next, Share!Request, Held
<1>7. QED
  BY <1>4, <1>6

LEMMA CancelKeeps ==
    ASSUME Book, HandleRefundBooked, ledger' = ledger
    PROVE  /\ Book' /\ ShareStep /\ LivePayouts' \subseteq LivePayouts
           /\ \A r \in LivePayouts' : payouts'[r] = payouts[r] /\ payouts[r].status # "PENDING"
           /\ \A r \in Records : payouts'[r].status \in {"PROCESSED", "REVERSED"}
                                 => payouts'[r] = payouts[r]
<1>1. \A r \in Records : LET c == [payouts[r] EXCEPT !.status = "CANCELLED"] IN
          c \in Payout /\ c.status = "CANCELLED"
  BY DEF Book, Payout, PayoutStatus
<1>2. payouts' \in [Records -> Payout] /\ \A r \in Records :
          IF payouts[r].status = "PENDING" THEN payouts'[r].status = "CANCELLED"
          ELSE payouts'[r] = payouts[r]
  BY <1>1 DEF HandleRefundBooked, Book
<1>3. LivePayouts' = {r \in LivePayouts : payouts[r].status # "PENDING"}
  BY <1>2 DEF LivePayouts, LIVE_PAYOUT_STATUSES
<1>4. Book'
  BY <1>2, <1>3, HeldIs DEF Book, OneLivePayout, LedgerFollowsPayouts, LivePayouts
<1>5. ShareStep
  <2>1. CASE LivePayouts' = LivePayouts
    <3>1. CASE LivePayouts = {}
      BY <2>1, <3>1 DEF ShareStep, Held
    <3>2. CASE LivePayouts # {}
      <4>1. PICK r \in LivePayouts : TRUE
        BY <3>2
      <4>2. LivePayouts = {r} /\ payouts'[r] = payouts[r]
        BY <1>2, <1>3, <2>1, <4>1, HeldIs DEF LivePayouts
      <4>3. Held' = payouts[r].amount /\ Held = payouts[r].amount
        BY <2>1, <4>2 DEF Held
      <4>4. QED
        BY <4>3 DEF ShareStep
    <3>3. QED
      BY <3>1, <3>2
  <2>2. CASE \E r \in LivePayouts : payouts[r].status = "PENDING"
    <3>1. PICK r \in LivePayouts : payouts[r].status = "PENDING"
      BY <2>2
    <3>2. LivePayouts' = {} /\ Held \in 1 .. DriverEarning /\ ledger = 0
      BY <1>3, <3>1, HeldIs
    <3>3. Held' = 0
      BY <3>2 DEF Held
    <3>4. QED
      BY <3>2, <3>3 DEF ShareStep, Share!Next, Share!GiveUp, Held
  <2>3. QED
    BY <1>3, <2>1, <2>2
<1>6. LivePayouts' \subseteq LivePayouts
      /\ \A r \in LivePayouts' : payouts'[r] = payouts[r] /\ payouts[r].status # "PENDING"
  BY <1>2, <1>3 DEF LivePayouts
<1>7. \A r \in Records : payouts'[r].status \in {"PROCESSED", "REVERSED"} => payouts'[r] = payouts[r]
  BY <1>2
<1>8. QED
  BY <1>4, <1>5, <1>6, <1>7

-----------------------------------------------------------------------------
(* Every step keeps the invariant and is one of DriverShare.               *)

LEMMA ReadShareKeeps ==
    ASSUME IInv, NEW q \in Requests, NEW amount \in 1 .. DriverEarning, ReadShare(q, amount)
    PROVE  IInv' /\ ShareStep
<1> DEFINE a == [amount |-> amount, outrun |-> FALSE]
<1>1. a \in [amount : 0 .. DriverEarning, outrun : BOOLEAN] /\ a.amount = amount
  BY PayoutsAssumption
<1> HIDE DEF a
<1>2. request' = [request EXCEPT ![q] = a]
  BY DEF ReadShare, a
<1>3. TypeOK' /\ IntakeInv'
  BY <1>1, <1>2, NoIntake DEF ReadShare, IInv, TypeOK, IntakeInv
<1>4. RequestsKnow'
  <2>1. PayableShare' = PayableShare /\ amount \in 1 .. PayableShare /\ PayableShare \in Int
    BY PayoutsAssumption DEF ReadShare, PayableShare, IInv, TypeOK
  <2>2. \A p \in Requests : request'[p] = IF p = q THEN a ELSE request[p]
    BY <1>2 DEF IInv, TypeOK
  <2>3. QED
    BY <1>1, <2>1, <2>2 DEF IInv, RequestsKnow
<1>5. SeenIsReversal' /\ PostedMoneyWasSent' /\ OverdraftIsFlagged'
  BY DEF ReadShare, intakeVars, IInv, SeenIsReversal, PostedMoneyWasSent, OverdraftIsFlagged,
     PayableShare, LivePayouts, Reached
<1>6. QED
  BY <1>3, <1>4, <1>5, BookSame DEF ReadShare, IInv

LEMMA EndRequestKeeps ==
    ASSUME IInv, NEW q \in Requests, EndRequest(q), reversed' = reversed
    PROVE  request' \in [Requests -> [amount : 0 .. DriverEarning, outrun : BOOLEAN]] /\ RequestsKnow'
<1> DEFINE a == [amount |-> 0, outrun |-> FALSE]
<1>1. a \in [amount : 0 .. DriverEarning, outrun : BOOLEAN] /\ a.amount = 0
  BY PayoutsAssumption
<1> HIDE DEF a
<1>2. request' = [request EXCEPT ![q] = a]
  BY DEF EndRequest, a
<1>3. \A p \in Requests : request'[p] = IF p = q THEN a ELSE request[p]
  BY <1>2 DEF IInv, TypeOK
<1>4. PayableShare' = PayableShare /\ PayableShare \in Int /\ ~ 0 > PayableShare
  BY PayoutsAssumption DEF PayableShare, IInv, TypeOK
<1>5. RequestsKnow'
  BY <1>1, <1>3, <1>4 DEF IInv, RequestsKnow
<1>6. QED
  BY <1>1, <1>2, <1>5 DEF IInv, TypeOK

LEMMA InsertPayoutKeeps ==
    ASSUME IInv, NEW q \in Requests, InsertPayout(q)
    PROVE  IInv' /\ ShareStep
<1>1. PICK r \in Free :
        /\ payouts' = [payouts EXCEPT ![r] = [status |-> "PENDING", amount |-> request[q].amount]]
        /\ outrun' = IF request[q].outrun THEN outrun \cup {r} ELSE outrun
  BY DEF InsertPayout
<1>2. request[q].amount \in 1 .. DriverEarning /\ r \in Records /\ LivePayouts = {}
  BY DEF InsertPayout, NoLivePayout, Free, IInv, TypeOK
<1>3. Book' /\ ShareStep
  BY <1>1, <1>2, InsertKeeps DEF InsertPayout, IInv
<1>4. TypeOK' /\ IntakeInv' /\ RequestsKnow'
  BY <1>1, <1>2, <1>3, NoIntake, EndRequestKeeps DEF InsertPayout, IInv, TypeOK, IntakeInv, Book
<1> DEFINE p == [status |-> "PENDING", amount |-> request[q].amount]
<1>5. \A s \in Records : payouts'[s] = IF s = r THEN p ELSE payouts[s]
  BY <1>1 DEF IInv, TypeOK
<1>6. p.status = "PENDING" /\ p.amount = request[q].amount
  OBVIOUS
<1> HIDE DEF p
<1>7. PostedMoneyWasSent' /\ SeenIsReversal'
  BY <1>5, <1>6 DEF InsertPayout, intakeVars, IInv, PostedMoneyWasSent, SeenIsReversal, Reached
<1>8. LivePayouts' \subseteq {r}
  BY <1>2, <1>5 DEF LivePayouts
<1>9. OverdraftIsFlagged'
  <2>1. PayableShare' = PayableShare
    BY DEF InsertPayout, PayableShare
  <2>2. request[q].amount > PayableShare => r \in outrun'
    BY <1>1 DEF IInv, RequestsKnow
  <2>3. QED
    BY <1>2, <1>5, <1>6, <1>8, <2>1, <2>2 DEF OverdraftIsFlagged
<1>10. QED
  BY <1>3, <1>4, <1>7, <1>9 DEF IInv

LEMMA RefusePayoutKeeps ==
    ASSUME IInv, NEW q \in Requests, RefusePayout(q)
    PROVE  IInv' /\ ShareStep
<1>1. TypeOK' /\ IntakeInv' /\ RequestsKnow'
  BY NoIntake, EndRequestKeeps DEF RefusePayout, IInv, TypeOK, IntakeInv
<1>2. SeenIsReversal' /\ PostedMoneyWasSent' /\ OverdraftIsFlagged'
  BY DEF RefusePayout, intakeVars, IInv, SeenIsReversal, PostedMoneyWasSent, OverdraftIsFlagged,
     PayableShare, LivePayouts, Reached
<1>3. QED
  BY <1>1, <1>2, BookSame DEF RefusePayout, IInv

LEMMA BookRefundKeeps ==
    ASSUME IInv, NEW k \in 1 .. DriverEarning, BookRefund(k)
    PROVE  IInv' /\ ShareStep
<1>1. /\ reversed' = reversed + k /\ reversed' \in 0 .. DriverEarning
      /\ HandleRefundBooked /\ UNCHANGED <<ledger, seen, outrun, intakeVars>>
  BY DEF BookRefund, IInv, TypeOK
<1>2. /\ Book' /\ ShareStep /\ LivePayouts' \subseteq LivePayouts
      /\ \A r \in LivePayouts' : payouts'[r] = payouts[r] /\ payouts[r].status # "PENDING"
      /\ \A r \in Records : payouts'[r].status \in {"PROCESSED", "REVERSED"}
                            => payouts'[r] = payouts[r]
  BY <1>1, CancelKeeps DEF IInv
<1>3. /\ request' \in [Requests -> [amount : 0 .. DriverEarning, outrun : BOOLEAN]]
      /\ \A q \in Requests : request'[q].amount # 0 => request'[q].outrun
  <2> DEFINE o(q) == request[q].amount # 0
             a(q) == [request[q] EXCEPT !.outrun = o(q)]
  <2>1. \A q \in Requests : request[q] \in [amount : 0 .. DriverEarning, outrun : BOOLEAN]
                           /\ o(q) \in BOOLEAN
    BY DEF IInv, TypeOK
  <2>2. request' = [q \in Requests |-> a(q)]
    BY DEF BookRefund
  <2> HIDE DEF o
  <2>3. \A q \in Requests : a(q) \in [amount : 0 .. DriverEarning, outrun : BOOLEAN]
                           /\ a(q).amount = request[q].amount /\ (a(q).outrun <=> o(q))
    BY <2>1
  <2> HIDE DEF a
  <2>4. QED
    BY <2>2, <2>3 DEF o
<1>4. RequestsKnow'
  <2>1. ~ 0 > PayableShare'
    BY <1>1, PayoutsAssumption DEF PayableShare
  <2>2. QED
    BY <1>3, <2>1 DEF RequestsKnow
<1>5. flagged' \subseteq Records /\ LivePayouts' \subseteq flagged'
  BY <1>1, <1>2 DEF HandleRefundBooked, IInv, TypeOK, LivePayouts
<1>6. TypeOK' /\ IntakeInv'
  BY <1>1, <1>2, <1>3, <1>5, NoIntake DEF IInv, TypeOK, IntakeInv, Book
<1>7. SeenIsReversal' /\ PostedMoneyWasSent'
  BY <1>1, <1>2 DEF intakeVars, IInv, SeenIsReversal, PostedMoneyWasSent, Reached
<1>8. OverdraftIsFlagged'
  BY <1>5 DEF OverdraftIsFlagged
<1>9. QED
  BY <1>2, <1>4, <1>6, <1>7, <1>8 DEF IInv

LEMMA CompensateRefundKeeps ==
    ASSUME IInv, NEW k \in 1 .. DriverEarning, CompensateRefund(k)
    PROVE  IInv' /\ ShareStep
<1>1. /\ reversed' = reversed - k /\ reversed' \in 0 .. DriverEarning /\ reversed \in 0 .. DriverEarning
      /\ UNCHANGED <<payouts, ledger, request, seen, flagged, outrun, intakeVars>>
  BY PayoutsAssumption DEF CompensateRefund, IInv, TypeOK
<1>2. TypeOK' /\ IntakeInv'
  BY <1>1, NoIntake DEF IInv, TypeOK, IntakeInv
<1>3. RequestsKnow' /\ SeenIsReversal' /\ PostedMoneyWasSent'
  BY <1>1, PayoutsAssumption
     DEF intakeVars, IInv, TypeOK, SeenIsReversal, PostedMoneyWasSent, Reached, RequestsKnow, PayableShare
<1>4. OverdraftIsFlagged'
  BY <1>1, PayoutsAssumption
     DEF IInv, TypeOK, Book, Payout, LivePayouts, OverdraftIsFlagged, PayableShare
<1>5. QED
  BY <1>1, <1>2, <1>3, <1>4, BookSame DEF IInv

LEMMA GatewayStepKeeps ==
    ASSUME IInv, NEW r \in Records, NEW kind \in Kinds, GatewayStep(r, kind)
    PROVE  IInv' /\ ShareStep
<1>1. <<r, kind>> \in PayoutEvents /\ Emit(<<r, kind>>)
  BY DEF GatewayStep, PayoutEvents
<1>2. IntakeInv'
  BY <1>1, EmitKeeps DEF IInv
<1>3. TypeOK' /\ RequestsKnow' /\ SeenIsReversal' /\ OverdraftIsFlagged'
  BY <1>1, <1>2 DEF GatewayStep, payoutVars, Emit, IInv, IntakeInv, TypeOK, RequestsKnow, SeenIsReversal,
     OverdraftIsFlagged, PayableShare, LivePayouts
<1>4. PostedMoneyWasSent'
  BY <1>1 DEF GatewayStep, payoutVars, Emit, IInv, PostedMoneyWasSent, Reached
<1>5. QED
  BY <1>2, <1>3, <1>4, BookSame DEF GatewayStep, payoutVars, IInv

\* A handler leaves its dispatch and forgets what it read.
LEMMA LeavesKeeps ==
    ASSUME IInv, NEW h \in Handlers,
           \/ handler[h].pc = "dispatch" /\ (Returns(h) \/ Throws(h))
           \/ HandlerCrashes(h),
           seen' = [seen EXCEPT ![h] = "none"]
    PROVE  IntakeInv' /\ SeenIsReversal' /\ seen' \in [Handlers -> LIVE_PAYOUT_STATUSES \cup {"none"}]
           /\ emitted' = emitted
<1>1. IntakeInv'
  BY ReturnsKeeps, ThrowsKeeps, CrashesKeeps DEF IInv
<1>2. \A g \in Handlers \ {h} : handler'[g] = handler[g]
  BY DEF Returns, Throws, HandlerCrashes, IInv, IntakeInv, IntakeTypeOK
<1>3. SeenIsReversal'
  BY <1>2 DEF IInv, TypeOK, SeenIsReversal
<1>4. QED
  BY <1>1, <1>3 DEF IInv, TypeOK, Returns, Throws, HandlerCrashes

\* What the handling of one event does to the payout it names.
LEMMA EventKeeps ==
    ASSUME IInv, NEW r \in Records, emitted' = emitted,
           \/ MarkProcessing(r) \/ MarkFailed(r)
           \/ MarkProcessed(r) /\ Reached(r, "processed")
           \/ ReverseProcessed(r) /\ Reached(r, "reversed"),
           UNCHANGED <<reversed, flagged, outrun>>
    PROVE  Book' /\ ShareStep /\ PostedMoneyWasSent' /\ OverdraftIsFlagged'
<1>1. Book' /\ ShareStep
  BY TransitionKeeps DEF IInv
<1>2. PICK to \in PayoutStatus :
        /\ payouts' = [payouts EXCEPT ![r].status = to] \/ payouts' = payouts
        /\ to = "PROCESSED" => Reached(r, "processed")
        /\ to = "REVERSED" => payouts[r].status = "PROCESSED" /\ Reached(r, "reversed")
        /\ to \in LIVE_PAYOUT_STATUSES => payouts[r].status \in LIVE_PAYOUT_STATUSES
  <2>1. CASE MarkProcessing(r)
    BY <2>1 DEF MarkProcessing, Transition, PayoutStatus, LIVE_PAYOUT_STATUSES
  <2>2. CASE MarkFailed(r)
    BY <2>2 DEF MarkFailed, Transition, PayoutStatus, LIVE_PAYOUT_STATUSES
  <2>3. CASE MarkProcessed(r) /\ Reached(r, "processed")
    BY <2>3 DEF MarkProcessed, Transition, PayoutStatus, LIVE_PAYOUT_STATUSES, Unsettled
  <2>4. CASE ReverseProcessed(r) /\ Reached(r, "reversed")
    BY <2>4 DEF ReverseProcessed, Transition, PayoutStatus, LIVE_PAYOUT_STATUSES
  <2>5. QED
    BY <2>1, <2>2, <2>3, <2>4
<1>3. CASE payouts' = payouts
  BY <1>1, <1>3 DEF IInv, PostedMoneyWasSent, OverdraftIsFlagged, PayableShare, LivePayouts, Reached
<1>4. CASE payouts' = [payouts EXCEPT ![r].status = to]
  <2> DEFINE p == [payouts[r] EXCEPT !.status = to]
  <2>1. p.status = to /\ p.amount = payouts[r].amount
    BY DEF IInv, Book, Payout
  <2> HIDE DEF p
  <2>2. \A s \in Records : payouts'[s] = IF s = r THEN p ELSE payouts[s]
    BY <1>4 DEF IInv, Book, p
  <2>3. PostedMoneyWasSent'
    BY <1>2, <2>1, <2>2 DEF IInv, PostedMoneyWasSent, Reached
  <2>4. PayableShare' = PayableShare /\ flagged' = flagged /\ outrun' = outrun
    BY DEF PayableShare
  <2>5. \A s \in LivePayouts' : s \in LivePayouts /\ payouts'[s].amount = payouts[s].amount
    BY <1>2, <2>1, <2>2 DEF LivePayouts
  <2>6. OverdraftIsFlagged'
    BY <2>4, <2>5 DEF IInv, OverdraftIsFlagged
  <2>7. QED
    BY <1>1, <2>3, <2>6
<1>5. QED
  BY <1>2, <1>3, <1>4

\* The event at hand names a payout, and was sent.
LEMMA EventIs ==
    ASSUME IInv, NEW h \in Handlers, handler[h].pc = "dispatch"
    PROVE  /\ handler[h].event[1] \in Records
           /\ \A kind \in Kinds : handler[h].event[2] = kind => Reached(handler[h].event[1], kind)
<1>1. handler[h].event \in emitted /\ emitted \subseteq PayoutEvents
  BY DEF IInv, IntakeInv, IntakeTypeOK, Idle
<1>2. PICK r \in Records, kind \in Kinds : handler[h].event = <<r, kind>>
  BY <1>1 DEF PayoutEvents
<1>3. QED
  BY <1>1, <1>2 DEF Reached

LEMMA HandlePayoutEventKeeps ==
    ASSUME IInv, NEW h \in Handlers, HandlePayoutEvent(h)
    PROVE  IInv' /\ ShareStep
<1> DEFINE r == handler[h].event[1]
<1>1. r \in Records /\ handler[h].event[2] \in {"initiated", "processed", "failed"}
      /\ handler[h].pc = "dispatch" /\ Returns(h)
  BY EventIs DEF HandlePayoutEvent
<1>2. seen[h] = "none" /\ seen' = [seen EXCEPT ![h] = "none"]
  BY <1>1 DEF HandlePayoutEvent, IInv, TypeOK, SeenIsReversal
<1>3. MarkProcessing(r) \/ MarkFailed(r) \/ (MarkProcessed(r) /\ Reached(r, "processed"))
  <2>1. handler[h].event[2] = "processed" => Reached(r, "processed")
    BY <1>1, EventIs
  <2>2. \/ MarkProcessing(r) \/ MarkFailed(r)
        \/ MarkProcessed(r) /\ handler[h].event[2] = "processed"
    BY DEF HandlePayoutEvent
  <2>3. QED
    BY <2>1, <2>2
<1> HIDE DEF r
<1>4. IntakeInv' /\ SeenIsReversal' /\ emitted' = emitted
  BY <1>1, <1>2, LeavesKeeps
<1>5. Book' /\ ShareStep /\ PostedMoneyWasSent' /\ OverdraftIsFlagged'
  BY <1>1, <1>3, <1>4, EventKeeps DEF HandlePayoutEvent
<1>6. TypeOK' /\ RequestsKnow'
  BY <1>4, <1>5 DEF HandlePayoutEvent, IInv, TypeOK, IntakeInv, Book, RequestsKnow, PayableShare
<1>7. QED
  BY <1>4, <1>5, <1>6 DEF IInv

LEMMA ReadForReversalKeeps ==
    ASSUME IInv, NEW h \in Handlers, ReadForReversal(h)
    PROVE  IInv' /\ ShareStep
<1>1. UNCHANGED <<payouts, reversed, ledger, request, flagged, outrun>> /\ handler[h].pc = "dispatch"
      /\ handler[h].event[2] = "reversed" /\ seen[h] = "none"
  BY DEF ReadForReversal
<1>2. IntakeInv' /\ SeenIsReversal' /\ seen' \in [Handlers -> LIVE_PAYOUT_STATUSES \cup {"none"}]
      /\ emitted' = emitted
  <2>1. CASE Returns(h) /\ seen' = seen
    <3>1. seen' = [seen EXCEPT ![h] = "none"]
      BY <1>1, <2>1 DEF IInv, TypeOK
    <3>2. QED
      BY <1>1, <2>1, <3>1, LeavesKeeps
  <2>2. CASE /\ payouts[handler[h].event[1]].status \in LIVE_PAYOUT_STATUSES
             /\ seen' = [seen EXCEPT ![h] = payouts[handler[h].event[1]].status]
             /\ UNCHANGED intakeVars
    <3>1. IntakeInv' /\ emitted' = emitted
      BY <2>2, NoIntake DEF IInv, intakeVars
    <3>2. seen' \in [Handlers -> LIVE_PAYOUT_STATUSES \cup {"none"}] /\ handler' = handler
      BY <2>2 DEF IInv, TypeOK, intakeVars
    <3>3. SeenIsReversal'
      BY <1>1, <2>2, <3>2 DEF IInv, TypeOK, SeenIsReversal
    <3>4. QED
      BY <3>1, <3>2, <3>3
  <2>3. QED
    BY <2>1, <2>2 DEF ReadForReversal
<1>3. TypeOK' /\ RequestsKnow' /\ PostedMoneyWasSent' /\ OverdraftIsFlagged'
  BY <1>1, <1>2 DEF IInv, TypeOK, IntakeInv, RequestsKnow, PayableShare, PostedMoneyWasSent,
     OverdraftIsFlagged, LivePayouts, Reached
<1>4. QED
  BY <1>1, <1>2, <1>3, BookSame DEF IInv

LEMMA MarkReversedKeeps ==
    ASSUME IInv, NEW h \in Handlers, MarkReversed(h)
    PROVE  IInv' /\ ShareStep
<1> DEFINE r == handler[h].event[1]
<1>1. r \in Records /\ handler[h].event[2] = "reversed" /\ handler[h].pc = "dispatch" /\ Returns(h)
      /\ Reached(r, "reversed")
  BY EventIs DEF MarkReversed, IInv, SeenIsReversal
<1>2. MarkFailed(r) \/ ReverseProcessed(r)
  BY DEF MarkReversed
<1> HIDE DEF r
<1>3. IntakeInv' /\ SeenIsReversal' /\ seen' \in [Handlers -> LIVE_PAYOUT_STATUSES \cup {"none"}]
      /\ emitted' = emitted
  BY <1>1, LeavesKeeps DEF MarkReversed
<1>4. Book' /\ ShareStep /\ PostedMoneyWasSent' /\ OverdraftIsFlagged'
  BY <1>1, <1>2, <1>3, EventKeeps DEF MarkReversed
<1>5. TypeOK' /\ RequestsKnow'
  BY <1>3, <1>4 DEF MarkReversed, IInv, TypeOK, IntakeInv, Book, RequestsKnow, PayableShare
<1>6. QED
  BY <1>3, <1>4, <1>5 DEF IInv

\* Only the handler's own state and its marker change.
LEMMA StopsKeeps ==
    ASSUME IInv, NEW h \in Handlers, EventFails(h) \/ Crash(h)
    PROVE  IInv' /\ ShareStep
<1>1. IntakeInv' /\ SeenIsReversal' /\ seen' \in [Handlers -> LIVE_PAYOUT_STATUSES \cup {"none"}]
      /\ emitted' = emitted
  BY LeavesKeeps DEF EventFails, Crash
<1>2. UNCHANGED <<payouts, reversed, ledger, request, flagged, outrun>>
  BY DEF EventFails, Crash
<1>3. TypeOK' /\ RequestsKnow' /\ PostedMoneyWasSent' /\ OverdraftIsFlagged'
  BY <1>1, <1>2 DEF IInv, TypeOK, IntakeInv, RequestsKnow, PayableShare, PostedMoneyWasSent,
     OverdraftIsFlagged, LivePayouts, Reached
<1>4. QED
  BY <1>1, <1>2, <1>3, BookSame DEF IInv

LEMMA IntakeKeeps == ASSUME IInv, Intake \/ UNCHANGED vars PROVE IInv' /\ ShareStep
<1>1. IntakeInv'
  BY ClaimKeeps, AnswerDuplicateKeeps, CompleteKeeps, MarkerExpiresKeeps, NoIntake DEF Intake, vars, IInv
<1>2. UNCHANGED payoutVars /\ emitted' = emitted
  BY DEF Intake, Claim, AnswerDuplicate, Complete, MarkerExpires, vars, intakeVars
<1>3. \A h \in Handlers : handler[h].pc = "dispatch" => handler'[h] = handler[h]
  <2>1. handler = [h \in Handlers |-> handler[h]]
    BY DEF IInv, IntakeInv, IntakeTypeOK
  <2>2. ASSUME NEW h \in Handlers, NEW e \in PayoutEvents, Claim(h, e)
        PROVE  \A g \in Handlers : handler[g].pc = "dispatch" => handler'[g] = handler[g]
    BY <2>1, <2>2 DEF Claim, Due, StartHandler
  <2>3. ASSUME NEW h \in Handlers, Complete(h)
        PROVE  \A g \in Handlers : handler[g].pc = "dispatch" => handler'[g] = handler[g]
    BY <2>1, <2>3 DEF Complete
  <2>4. QED
    BY <2>2, <2>3 DEF Intake, AnswerDuplicate, MarkerExpires, vars, intakeVars
<1>4. SeenIsReversal'
  BY <1>2, <1>3 DEF payoutVars, IInv, SeenIsReversal
<1>5. TypeOK' /\ RequestsKnow' /\ PostedMoneyWasSent' /\ OverdraftIsFlagged'
  BY <1>1, <1>2 DEF payoutVars, IInv, TypeOK, IntakeInv, RequestsKnow, PayableShare, PostedMoneyWasSent,
     OverdraftIsFlagged, LivePayouts, Reached
<1>6. QED
  BY <1>1, <1>2, <1>4, <1>5, BookSame DEF payoutVars, IInv

LEMMA StepKeeps == ASSUME IInv, [Next]_vars PROVE IInv' /\ ShareStep
BY ReadShareKeeps, InsertPayoutKeeps, RefusePayoutKeeps, BookRefundKeeps, CompensateRefundKeeps,
   GatewayStepKeeps, HandlePayoutEventKeeps, ReadForReversalKeeps, MarkReversedKeeps, StopsKeeps,
   IntakeKeeps DEF Next

LEMMA InitKeeps == Init => IInv /\ Held = 0 /\ ledger = 0
<1> SUFFICES ASSUME Init PROVE IInv /\ Held = 0 /\ ledger = 0
  OBVIOUS
<1>1. /\ [status |-> "none", amount |-> 0] \in Payout
      /\ [amount |-> 0, outrun |-> FALSE] \in [amount : 0 .. DriverEarning, outrun : BOOLEAN]
  BY PayoutsAssumption DEF Payout
<1>2. IntakeInv
  BY IntakeInit_ DEF Init
<1>3. TypeOK
  BY <1>1, <1>2, PayoutsAssumption DEF Init, IntakeInv, TypeOK
<1>4. LivePayouts = {}
  BY DEF Init, LivePayouts, LIVE_PAYOUT_STATUSES
<1>5. Book
  BY <1>1, <1>4, PayoutsAssumption DEF Init, Book, OneLivePayout, LedgerFollowsPayouts
<1>6. SeenIsReversal /\ RequestsKnow /\ PostedMoneyWasSent /\ OverdraftIsFlagged
  BY <1>4, PayoutsAssumption
     DEF Init, SeenIsReversal, RequestsKnow, PayableShare, PostedMoneyWasSent, OverdraftIsFlagged
<1>7. QED
  BY <1>2, <1>3, <1>4, <1>5, <1>6 DEF IInv, Init, Held

-----------------------------------------------------------------------------
(* The theorems.                                                           *)

\* IInv holds initially and is kept by every step.
THEOREM Inductive == Spec => []IInv
<1>1. IInv /\ [Next]_vars => IInv'
  BY StepKeeps
<1>2. QED
  BY InitKeeps, <1>1, PTL DEF Spec

\* Documents, requests and markers keep their shape, and no paid amount exceeds the driver's share.
THEOREM TypeCorrect == Spec => []TypeOK
<1>1. IInv => TypeOK
  BY DEF IInv
<1>2. QED
  BY Inductive, <1>1, PTL

\* One payout of a payment is under way or paid at a time (payment_1_live_unique).
THEOREM OneAtATime == Spec => []OneLivePayout
<1>1. IInv => OneLivePayout
  BY DEF IInv, Book
<1>2. QED
  BY Inductive, <1>1, PTL

\* The ledger holds what is PROCESSED and nothing else (markProcessed, markReversed).
THEOREM LedgerIsRight == Spec => []LedgerFollowsPayouts
<1>1. IInv => LedgerFollowsPayouts
  BY DEF IInv, Book
<1>2. QED
  BY Inductive, <1>1, PTL

\* No posting without RazorpayX's event (handleGatewayPayoutEvent).
THEOREM PostingsAreEarned == Spec => []PostedMoneyWasSent
<1>1. IInv => PostedMoneyWasSent
  BY DEF IInv
<1>2. QED
  BY Inductive, <1>1, PTL

\* A driver is overpaid by a flagged payout or by one that outran its refund only
\* (createPayout, handleRefundBooked).
THEOREM OverdraftsAreKnown == Spec => []OverdraftIsFlagged
<1>1. IInv => OverdraftIsFlagged
  BY DEF IInv
<1>2. QED
  BY Inductive, <1>1, PTL

\* An event Razorpay need not deliver again was handled, or answered over the
\* marker of a handler at work, or of one that threw or died, whatever expires
\* and in whatever order (claim, complete, release).
THEOREM NothingAnsweredUnhandled == Spec => []AnsweredIsHandled
<1>1. IInv => AnsweredIsHandled
  BY DEF IInv, IntakeInv, MarkersTell
<1>2. QED
  BY Inductive, <1>1, PTL

\* What failed, was cancelled or came back stays so; a processed payout only
\* becomes REVERSED (PayoutRepository.transition).
THEOREM SettledForGood == Spec => SettledIsFinal
<1> DEFINE Final == \A r \in Records :
        /\ payouts[r].status \in {"FAILED", "CANCELLED", "REVERSED"} => payouts'[r] = payouts[r]
        /\ payouts[r].status = "PROCESSED" => payouts'[r].status \in {"PROCESSED", "REVERSED"}
<1>1. ASSUME IInv, NEW q \in Requests, InsertPayout(q) PROVE Final
  BY <1>1 DEF InsertPayout, Free, IInv, Book
<1>2. ASSUME IInv, NEW k \in 1 .. DriverEarning, BookRefund(k) PROVE Final
  BY <1>2 DEF BookRefund, HandleRefundBooked, IInv, Book
<1>3. ASSUME IInv, NEW r \in Records,
             MarkProcessing(r) \/ MarkProcessed(r) \/ MarkFailed(r) \/ ReverseProcessed(r)
      PROVE  Final
  <2>1. CASE payouts' = payouts
    BY <2>1
  <2>2. ASSUME NEW to \in {"PROCESSING", "PROCESSED", "FAILED", "REVERSED"},
               payouts' = [payouts EXCEPT ![r].status = to],
               payouts[r].status \in Unsettled \/ (payouts[r].status = "PROCESSED" /\ to = "REVERSED")
        PROVE  Final
    <3> DEFINE p == [payouts[r] EXCEPT !.status = to]
    <3>1. p.status = to
      BY <1>3 DEF IInv, Book, Payout
    <3> HIDE DEF p
    <3>2. \A s \in Records : payouts'[s] = IF s = r THEN p ELSE payouts[s]
      BY <1>3, <2>2 DEF IInv, Book, p
    <3>3. QED
      BY <2>2, <3>1, <3>2 DEF Unsettled
  <2> HIDE DEF Final
  <2>3. QED
    BY <1>3, <2>1, <2>2
       DEF MarkProcessing, MarkProcessed, MarkFailed, ReverseProcessed, Transition, Unsettled
<1>4. IInv /\ [Next]_vars => [Final]_vars
  <2> SUFFICES ASSUME IInv, [Next]_vars PROVE Final
    OBVIOUS
  <2>1. CASE payouts' = payouts
    BY <2>1
  <2>2. ASSUME NEW h \in Handlers, HandlePayoutEvent(h) PROVE Final
    BY <1>3, <2>2, EventIs DEF HandlePayoutEvent
  <2>3. ASSUME NEW h \in Handlers, MarkReversed(h) PROVE Final
    <3>1. handler[h].pc = "dispatch"
      BY <2>3 DEF MarkReversed
    <3>2. QED
      BY <1>3, <2>3, <3>1, EventIs DEF MarkReversed
  <2> HIDE DEF Final
  <2>4. QED
    BY <1>1, <1>2, <2>1, <2>2, <2>3
       DEF Next, ReadShare, RefusePayout, CompensateRefund, GatewayStep, ReadForReversal, EventFails, Crash,
           Intake, payoutVars, vars
<1>5. QED
  BY Inductive, <1>4, PTL DEF Spec, SettledIsFinal

\* Payouts implement DriverShare.
THEOREM Refinement == Spec => ImplementsDriverShare
<1>1. Init => Share!Init
  BY InitKeeps DEF Share!Init, Held
<1>2. IInv /\ [Next]_vars => [Share!Next]_Share!vars
  BY StepKeeps DEF ShareStep, Share!vars, Held
<1>3. QED
  BY Inductive, <1>1, <1>2, PTL DEF Spec, ImplementsDriverShare, Share!Spec
=============================================================================

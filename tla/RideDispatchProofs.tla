-------------------------- MODULE RideDispatchProofs --------------------------
(***************************************************************************)
(* Proofs about RideDispatch, for any number of candidates and any size of *)
(* a batch.                                                                *)
(***************************************************************************)
EXTENDS RideDispatch, TLAPS

-----------------------------------------------------------------------------
(* The inductive invariant: a dispatch is served by one thing at a time.   *)

\* The timer or the handler of a dispatch will go on with it.
Running == timer \/ handler # "idle"

OneChain ==
    /\ timer => handler = "idle"
    /\ creating => /\ ~active /\ ~Running
                   /\ told = 0 /\ late = 0 /\ \A d \in Drivers : asked[d] = 0

\* The drivers that were asked are behind the cursor of a dispatch that goes on.
CursorInv ==
    /\ AskedOnce
    /\ Running => \A d \in Drivers : asked[d] # 0 => d <= cursor

\* What a handler read, and what a commit left to do.
ReadInv ==
    /\ handler = "accepted" => ride # "SEARCHING"
    /\ stops # {} => ride # "SEARCHING"

\* After a late batch nothing will ask again.
LateInv ==
    /\ AtMostOneLateBatch
    /\ late # 0 => ride # "SEARCHING" /\ ~creating /\ handler # "searching"

PursuitInv ==
    /\ SearchingIsPursued
    /\ told = 1 => ~creating /\ ~Running

IInv == TypeOK /\ OneChain /\ CursorInv /\ ReadInv /\ LateInv /\ PursuitInv

-----------------------------------------------------------------------------
(* The two outcomes of dispatchNextBatch.                                  *)

\* The rider is told, and the dispatch is over.
Exhausted(n) ==
    /\ told' = told + 1
    /\ drivers' = n /\ cursor' = n
    /\ active' = FALSE /\ timer' = FALSE
    /\ UNCHANGED <<asked, late>>

\* The drivers of S, all beyond c, are asked, and the timer is set.
Asked(n, c, live, S) ==
    /\ S \subseteq Drivers
    /\ \A d \in S : c < d /\ d <= cursor'
    /\ drivers' = n /\ cursor' \in Nat /\ c < cursor'
    /\ active' = live /\ timer' = TRUE
    /\ asked' = [d \in Drivers |-> IF d \in S THEN asked[d] + 1 ELSE asked[d]]
    /\ late' = IF ride = "SEARCHING" THEN late ELSE late + 1
    /\ UNCHANGED told

LEMMA BatchOutcome ==
    ASSUME NEW n \in 0..MaxDrivers, NEW c \in Nat, NEW live, NEW online \in SUBSET Drivers,
           DispatchNextBatch(n, c, live, online)
    PROVE  Exhausted(n) \/ \E S \in SUBSET Drivers : Asked(n, c, live, S)
<1> DEFINE starts == {b \in c..n : \E k \in 0..n : b = c + k * DISPATCH_BATCH_SIZE}
<1>1. CASE \A b \in starts : BatchAt(b, n) \cap online = {}
  BY <1>1 DEF DispatchNextBatch, Exhausted
<1>2. CASE \E b \in starts : BatchAt(b, n) \cap online # {}
  <2>1. PICK b \in starts :
          /\ drivers' = n /\ cursor' = b + DISPATCH_BATCH_SIZE
          /\ active' = live /\ timer' = TRUE
          /\ NotifyDrivers(BatchAt(b, n) \cap online)
    BY <1>2 DEF DispatchNextBatch
  <2>2. b \in Nat /\ c <= b /\ DISPATCH_BATCH_SIZE \in Nat \ {0}
    BY DispatchAssumption
  <2>3. BatchAt(b, n) \cap online \in SUBSET Drivers
    OBVIOUS
  <2>4. Asked(n, c, live, BatchAt(b, n) \cap online)
    BY <2>1, <2>2, <2>3 DEF Asked, NotifyDrivers, BatchAt, Drivers
  <2>5. QED
    BY <2>3, <2>4
<1>3. QED
  BY <1>1, <1>2

-----------------------------------------------------------------------------
(* Preservation.                                                           *)

LEMMA DispatchRideKeeps ==
    ASSUME IInv, NEW n \in 0..MaxDrivers, NEW online \in SUBSET Drivers, DispatchRide(n, online)
    PROVE  IInv'
<1>0. /\ TypeOK /\ CursorInv /\ ReadInv /\ SearchingIsPursued
      /\ creating' = FALSE /\ UNCHANGED <<ride, handler, stops, interrupted>>
      /\ active = FALSE /\ timer = FALSE /\ handler = "idle"
      /\ told = 0 /\ late = 0 /\ \A d \in Drivers : asked[d] = 0
  BY DEF DispatchRide, IInv, OneChain, Running, PursuitInv, TypeOK
<1>1. n \in Nat /\ 0 \in Nat
  BY DispatchAssumption
<1>2. CASE n = 0
  <2>1. told' = 1 /\ UNCHANGED <<active, drivers, cursor, timer, asked, late>>
    BY <1>0, <1>2 DEF DispatchRide, dispatch
  <2>2. TypeOK'
    BY <1>0, <2>1 DEF TypeOK
  <2>3. OneChain' /\ CursorInv' /\ ReadInv' /\ LateInv' /\ PursuitInv'
    BY <1>0, <2>1 DEF OneChain, CursorInv, AskedOnce, ReadInv, LateInv, AtMostOneLateBatch,
       PursuitInv, SearchingIsPursued, Running
  <2>4. QED
    BY <2>2, <2>3 DEF IInv
<1>3. CASE n > 0
  <2>1. Exhausted(n) \/ \E S \in SUBSET Drivers : Asked(n, 0, TRUE, S)
    <3>1. n # 0
      BY <1>1, <1>3
    <3>2. DispatchNextBatch(n, 0, TRUE, online)
      BY <3>1 DEF DispatchRide
    <3>3. QED
      BY <1>1, <3>2, BatchOutcome
  <2>2. CASE Exhausted(n)
    <3>1. told' = 1
      BY <1>0, <2>2 DEF Exhausted
    <3>2. TypeOK'
      <4>1. active' \in BOOLEAN /\ timer' \in BOOLEAN /\ creating' \in BOOLEAN
        BY <1>0, <2>2 DEF Exhausted
      <4>2. drivers' \in 0..MaxDrivers /\ cursor' \in Nat /\ told' \in Nat
        BY <1>1, <2>2, <3>1 DEF Exhausted
      <4>3. QED
        BY <1>0, <2>2, <4>1, <4>2 DEF Exhausted, TypeOK
    <3>3. OneChain' /\ CursorInv' /\ ReadInv' /\ LateInv' /\ PursuitInv'
      BY <1>0, <2>2, <3>1 DEF Exhausted, OneChain, CursorInv, AskedOnce, ReadInv, LateInv,
         AtMostOneLateBatch, PursuitInv, SearchingIsPursued, Running
    <3>4. QED
      BY <3>2, <3>3 DEF IInv
  <2>3. ASSUME NEW S \in SUBSET Drivers, Asked(n, 0, TRUE, S) PROVE IInv'
    <3>1. late' = (IF ride = "SEARCHING" THEN 0 ELSE 1) /\ told' = 0
      BY <1>0, <2>3 DEF Asked
    <3>2. \A d \in Drivers : asked'[d] <= 1 /\ (asked'[d] # 0 => d <= cursor')
      BY <1>0, <2>3 DEF Asked, Drivers
    <3>3. TypeOK'
      <4>1. active' \in BOOLEAN /\ timer' \in BOOLEAN /\ creating' \in BOOLEAN
        BY <1>0, <2>3 DEF Asked
      <4>2. drivers' \in 0..MaxDrivers /\ cursor' \in Nat /\ told' \in Nat /\ late' \in Nat
        BY <2>3, <3>1 DEF Asked
      <4>3. asked' \in [Drivers -> Nat]
        BY <1>0, <2>3 DEF Asked, TypeOK
      <4>4. QED
        BY <1>0, <4>1, <4>2, <4>3 DEF TypeOK
    <3>4. OneChain' /\ CursorInv' /\ ReadInv' /\ LateInv' /\ PursuitInv'
      BY <1>0, <2>3, <3>1, <3>2 DEF Asked, OneChain, CursorInv, AskedOnce, ReadInv, LateInv,
         AtMostOneLateBatch, PursuitInv, SearchingIsPursued, Running
    <3>5. QED
      BY <3>3, <3>4 DEF IInv
  <2>4. QED
    BY <2>1, <2>2, <2>3
<1>4. QED
  BY <1>1, <1>2, <1>3

LEMMA HandlerAsksNextKeeps ==
    ASSUME IInv, NEW online \in SUBSET Drivers, HandlerAsksNext(online)
    PROVE  IInv'
<1>0. /\ TypeOK /\ CursorInv /\ ReadInv /\ SearchingIsPursued
      /\ handler' = "idle" /\ UNCHANGED <<ride, creating, stops, interrupted>>
      /\ handler = "searching" /\ timer = FALSE /\ creating = FALSE /\ late = 0
      /\ \A d \in Drivers : asked[d] # 0 => d <= cursor
  BY DEF HandlerAsksNext, IInv, OneChain, CursorInv, LateInv, PursuitInv, Running, TypeOK
<1>1. told = 0
  BY <1>0 DEF IInv, PursuitInv, SearchingIsPursued, Running, TypeOK
<1>2. drivers \in Nat
  BY <1>0, DispatchAssumption DEF TypeOK
<1>3. Exhausted(drivers) \/ \E S \in SUBSET Drivers : Asked(drivers, cursor, active, S)
  BY <1>0, BatchOutcome DEF HandlerAsksNext, TypeOK
<1>4. CASE Exhausted(drivers)
  <2>1. told' = 1
    BY <1>1, <1>4 DEF Exhausted
  <2>2. TypeOK'
    <3>1. active' \in BOOLEAN /\ timer' \in BOOLEAN /\ creating' \in BOOLEAN
      BY <1>0, <1>4 DEF Exhausted
    <3>2. drivers' \in 0..MaxDrivers /\ cursor' \in Nat /\ told' \in Nat
      BY <1>0, <1>2, <1>4, <2>1 DEF Exhausted, TypeOK
    <3>3. QED
      BY <1>0, <1>4, <3>1, <3>2 DEF Exhausted, TypeOK
  <2>3. OneChain' /\ CursorInv' /\ ReadInv' /\ LateInv' /\ PursuitInv'
    BY <1>0, <1>4, <2>1 DEF Exhausted, OneChain, CursorInv, AskedOnce, ReadInv, LateInv,
       AtMostOneLateBatch, PursuitInv, SearchingIsPursued, Running
  <2>4. QED
    BY <2>2, <2>3 DEF IInv
<1>5. ASSUME NEW S \in SUBSET Drivers, Asked(drivers, cursor, active, S) PROVE IInv'
  <2>1. late' = (IF ride = "SEARCHING" THEN 0 ELSE 1) /\ told' = 0
    BY <1>0, <1>1, <1>5 DEF Asked
  <2>2. \A d \in S : asked[d] = 0
    BY <1>0, <1>5 DEF Asked, Drivers, TypeOK
  <2>3. \A d \in Drivers : asked'[d] <= 1 /\ (asked'[d] # 0 => d <= cursor')
    BY <1>0, <1>5, <2>2 DEF Asked, Drivers, TypeOK, CursorInv, AskedOnce
  <2>4. TypeOK'
    BY <1>0, <1>5, <2>1 DEF Asked, TypeOK
  <2>5. OneChain' /\ CursorInv' /\ ReadInv' /\ LateInv' /\ PursuitInv'
    BY <1>0, <1>1, <1>5, <2>1, <2>3 DEF Asked, OneChain, CursorInv, AskedOnce, ReadInv,
       LateInv, AtMostOneLateBatch, PursuitInv, SearchingIsPursued, Running
  <2>6. QED
    BY <2>4, <2>5 DEF IInv
<1>6. QED
  BY <1>3, <1>4, <1>5

LEMMA StepKeeps == IInv /\ [Next]_vars => IInv'
<1> SUFFICES ASSUME IInv, [Next]_vars PROVE IInv'
  OBVIOUS
<1> USE DEF IInv, TypeOK, OneChain, Running, CursorInv, AskedOnce, ReadInv, LateInv,
            AtMostOneLateBatch, PursuitInv, SearchingIsPursued, dispatch, sent
<1>1. CASE Dispatching
  BY <1>1, DispatchRideKeeps, HandlerAsksNextKeeps DEF Dispatching
<1>2. CASE DispatchRideThrows
  BY <1>2 DEF DispatchRideThrows
<1>3. CASE TimerFires
  BY <1>3 DEF TimerFires
<1>4. CASE IsRideAccepted
  BY <1>4 DEF IsRideAccepted
<1>5. CASE HandlerCleansUp
  BY <1>5 DEF HandlerCleansUp, CleanupDispatch
<1>6. CASE AcceptRide
  BY <1>6 DEF AcceptRide
<1>7. CASE CancelRide
  BY <1>7 DEF CancelRide
<1>8. ASSUME NEW s \in {"accept", "cancel"}, StopDispatch(s) PROVE IInv'
  BY <1>8 DEF StopDispatch, CleanupDispatch
<1>9. CASE Crash
  <2>1. 0 \in 0..MaxDrivers
    BY DispatchAssumption
  <2>2. QED
    BY <1>9, <2>1 DEF Crash
<1>10. CASE UNCHANGED vars
  BY <1>10 DEF vars
<1>11. QED
  BY <1>1, <1>2, <1>3, <1>4, <1>5, <1>6, <1>7, <1>8, <1>9, <1>10 DEF Next

-----------------------------------------------------------------------------
(* The theorems.                                                           *)

\* Every reachable state satisfies the inductive invariant.
THEOREM Inductive == Spec => []IInv
<1>1. Init => IInv
  <2> SUFFICES ASSUME Init PROVE IInv
    OBVIOUS
  <2> USE DEF Init
  <2>1. 0 \in 0..MaxDrivers
    BY DispatchAssumption
  <2>2. TypeOK
    BY <2>1 DEF TypeOK
  <2>3. CursorInv /\ LateInv
    BY DEF CursorInv, AskedOnce, LateInv, AtMostOneLateBatch, Running
  <2>4. OneChain /\ ReadInv
    BY DEF OneChain, ReadInv, Running
  <2>5. PursuitInv
    BY DEF PursuitInv, SearchingIsPursued
  <2>6. QED
    BY <2>2, <2>3, <2>4, <2>5 DEF IInv
<1>2. QED
  BY <1>1, StepKeeps, PTL DEF Spec

\* The state of the service has the shape TypeOK gives it.
THEOREM TypeCorrect == Spec => []TypeOK
<1>1. IInv => TypeOK
  BY DEF IInv
<1>2. QED
  BY <1>1, Inductive, PTL

\* No driver is sent the same ride twice by dispatchNextBatch.
THEOREM OncePerDriver == Spec => []AskedOnce
<1>1. IInv => AskedOnce
  BY DEF IInv, CursorInv
<1>2. QED
  BY <1>1, Inductive, PTL

\* However stopDispatch races with dispatchRide and the timeout handler, one batch at most
\* goes out after the ride was taken or cancelled.
THEOREM OneLateBatch == Spec => []AtMostOneLateBatch
<1>1. IInv => AtMostOneLateBatch
  BY DEF IInv, LateInv
<1>2. QED
  BY <1>1, Inductive, PTL

\* A searching ride is dispatched, or its rider knows, unless the process lost it.
THEOREM Pursued == Spec => []SearchingIsPursued
<1>1. IInv => SearchingIsPursued
  BY DEF IInv, PursuitInv
<1>2. QED
  BY <1>1, Inductive, PTL
=============================================================================

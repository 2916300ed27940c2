-------------------------- MODULE DriverPresenceProofs --------------------------
(***************************************************************************)
(* Proofs about DriverPresence, for any number of pages and of operations  *)
(* on Redis under way at once.                                             *)
(***************************************************************************)
EXTENDS DriverPresence, TLAPS

-----------------------------------------------------------------------------
(* The inductive invariant.                                                *)

Presences == {"none", "unavailable", "available"}

\* What an operation of driver-presence.service or geo.service has left to do.
Remainders ==
    { <<"get", "unavailable">>, <<"unavailable">>,
      <<"zRem", "del">>, <<"del">>,
      <<"read", "restore">>, <<"restore">>,
      <<"get", "available">>, <<"available">>,
      <<"get", "zRem", "unavailable">>, <<"zRem", "unavailable">>,
      <<"geoAdd">> }

Operation == [cmds : Remainders, saw : Presences]

Shape ==
    /\ presence \in Presences
    /\ geo \in BOOLEAN /\ ride \in BOOLEAN /\ candidate \in BOOLEAN
    /\ stale \in BOOLEAN /\ unclean \in BOOLEAN
    /\ pipe \in Seq(Operation) /\ Len(pipe) <= MaxOps
    /\ conn \in [Pages -> Conns]
    /\ status \in [Pages -> Statuses]
    /\ view \in [Pages -> Views]
    /\ ghosts \subseteq Pages
    /\ tx \subseteq {"accept", "end"}
    /\ \A p \in Pages : conn[p] \in {"closed", "gone"} => view[p] = "none"

\* Nobody puts the driver back into drivers:geo after operation i of the queue.
LastWord(i) == \A j \in 1 .. Len(pipe) : j > i => pipe[j].cmds # <<"geoAdd">>

\* Once the last socket is closed, the driver is out of drivers:geo for good, or
\* a setDriverOffline in the queue will see to it.
GoneInv ==
    Registered = {} /\ ~unclean =>
        \/ ~geo /\ LastWord(0)
        \/ \E i \in 1 .. Len(pipe) : pipe[i].cmds = <<"zRem", "del">> /\ LastWord(i)

\* The driver is available, and what is under way leaves it so, or makes it so.
Settled ==
    \/ pipe = <<>> /\ presence = "available"
    \/ /\ Len(pipe) = 1
       /\ \/ pipe[1].cmds \in {<<"get", "available">>, <<"available">>}
          \/ /\ presence = "available"
             /\ pipe[1].cmds \in {<<"read", "restore">>, <<"geoAdd">>, <<"restore">>}
             /\ pipe[1].cmds = <<"restore">> => pipe[1].saw = "available"

\* Unless stale tells otherwise one page is open; while the driver accepts a
\* ride it shows BUSY, and if it shows AVAILABLE and no transaction is under way,
\* the driver is available or about to be.
FreshInv ==
    ~stale =>
        /\ \A p, q \in Pages : conn[p] = "open" /\ conn[q] = "open" => p = q
        /\ "accept" \in tx => \A p \in Pages : conn[p] = "open" => status[p] = "BUSY"
        /\ tx = {} => \A p \in Pages : conn[p] = "open" /\ status[p] = "AVAILABLE" => Settled

IInv == Shape /\ GoneInv /\ FreshInv

-----------------------------------------------------------------------------
(* The queue of operations.                                                *)

LEMMA Operations ==
  /\ setDriverOnline \in Operation /\ setDriverOffline \in Operation
  /\ updateDriverHeartbeat \in Operation /\ setDriverAvailable \in Operation
  /\ setDriverBusy \in Operation /\ updateDriverLocation \in Operation
BY DEF setDriverOnline, setDriverOffline, updateDriverHeartbeat, setDriverAvailable,
       setDriverBusy, updateDriverLocation, Op, Operation, Remainders, Presences

LEMMA ShortQueues ==
  ASSUME NEW S, NEW a \in S, NEW b \in S
  PROVE  <<>> \in Seq(S) /\ <<a>> \in Seq(S) /\ <<a, b>> \in Seq(S)
OBVIOUS

\* One command of an operation, and what remains of it.
LEMMA OneCommand ==
  ASSUME NEW c \in Remainders
  PROVE  /\ c \in Seq(Commands) /\ c # <<>>
         /\ Tail(c) = <<>> \/ Tail(c) \in Remainders
         /\ Tail(c) # <<"geoAdd">>
         /\ Head(c) = "geoAdd" <=> c = <<"geoAdd">>
         /\ c = <<"zRem", "del">> => Head(c) = "zRem" /\ Tail(c) = <<"del">>
<1>1. CASE c = <<"get", "unavailable">> BY <1>1 DEF Remainders, Commands
<1>2. CASE c = <<"unavailable">> BY <1>2 DEF Remainders, Commands
<1>3. CASE c = <<"zRem", "del">> BY <1>3 DEF Remainders, Commands
<1>4. CASE c = <<"del">> BY <1>4 DEF Remainders, Commands
<1>5. CASE c = <<"read", "restore">> BY <1>5 DEF Remainders, Commands
<1>6. CASE c = <<"restore">> BY <1>6 DEF Remainders, Commands
<1>7. CASE c = <<"get", "available">> BY <1>7 DEF Remainders, Commands
<1>8. CASE c = <<"available">> BY <1>8 DEF Remainders, Commands
<1>9. CASE c = <<"get", "zRem", "unavailable">>
  <2>1. Tail(c) = <<"zRem", "unavailable">> BY <1>9
  <2> QED BY <1>9, <2>1 DEF Remainders, Commands
<1>10. CASE c = <<"zRem", "unavailable">> BY <1>10 DEF Remainders, Commands
<1>11. CASE c = <<"geoAdd">> BY <1>11 DEF Remainders, Commands
<1> QED BY <1>1, <1>2, <1>3, <1>4, <1>5, <1>6, <1>7, <1>8, <1>9, <1>10, <1>11 DEF Remainders

\* Operations go to the end of the queue.
LEMMA IssueOne ==
  ASSUME Shape, NEW op \in Operation, Issue(<<op>>)
  PROVE  /\ pipe' \in Seq(Operation) /\ Len(pipe') <= MaxOps
         /\ Len(pipe') = Len(pipe) + 1 /\ Len(pipe) \in Nat
         /\ pipe'[Len(pipe) + 1] = op
         /\ \A i \in 1 .. Len(pipe) : pipe'[i] = pipe[i]
BY DEF Shape, Issue

LEMMA IssueNone == ASSUME Shape, Issue(<<>>) PROVE pipe' = pipe
BY DEF Shape, Issue

\* The first operation leaves the queue, or what remains of it goes to its end.
LEMMA QueueMoves ==
  ASSUME Shape, ExecuteCommand
  PROVE  /\ Len(pipe) \in Nat /\ Len(pipe) >= 1 /\ pipe[1] \in Operation
         /\ pipe' \in Seq(Operation)
         /\ \A i \in 1 .. Len(pipe) - 1 : pipe'[i] = pipe[i + 1]
         /\ \/ Tail(pipe[1].cmds) = <<>> /\ Len(pipe') = Len(pipe) - 1
            \/ /\ Tail(pipe[1].cmds) # <<>> /\ Len(pipe') = Len(pipe)
               /\ pipe'[Len(pipe)].cmds = Tail(pipe[1].cmds)
               /\ pipe'[Len(pipe)].saw = IF Head(pipe[1].cmds) = "read" THEN presence ELSE pipe[1].saw
<1> DEFINE op == pipe[1]
<1>1. Head(pipe) = op /\ Len(pipe) \in Nat /\ Len(pipe) >= 1 /\ op \in Operation
  BY DEF Shape, ExecuteCommand
<1>2. /\ Tail(pipe) \in Seq(Operation) /\ Len(Tail(pipe)) = Len(pipe) - 1
      /\ \A i \in 1 .. Len(pipe) - 1 : Tail(pipe)[i] = pipe[i + 1]
  BY DEF Shape, ExecuteCommand
<1>3. op.cmds \in Remainders /\ op.saw \in Presences BY <1>1 DEF Operation
<1> DEFINE rest == [cmds |-> Tail(op.cmds),
                    saw |-> IF Head(op.cmds) = "read" THEN presence ELSE op.saw]
<1>4. pipe' = IF Tail(op.cmds) = <<>> THEN Tail(pipe) ELSE Append(Tail(pipe), rest)
  BY <1>1 DEF ExecuteCommand
<1>5. CASE Tail(op.cmds) = <<>> BY <1>1, <1>2, <1>4, <1>5
<1>6. CASE Tail(op.cmds) # <<>>
  <2>1. rest \in Operation BY <1>3, <1>6, OneCommand DEF Operation, Shape
  <2>2. rest.cmds = Tail(op.cmds)
        /\ rest.saw = IF Head(op.cmds) = "read" THEN presence ELSE op.saw
    OBVIOUS
  <2> HIDE DEF rest, op
  <2>3. pipe' = Append(Tail(pipe), rest) BY <1>4, <1>6
  <2> DEFINE q == Tail(pipe)
  <2>4. q \in Seq(Operation) /\ Len(q) = Len(pipe) - 1
        /\ \A i \in 1 .. Len(pipe) - 1 : q[i] = pipe[i + 1]
    BY <1>2
  <2> HIDE DEF q
  <2>5. /\ Append(q, rest) \in Seq(Operation) /\ Len(Append(q, rest)) = Len(pipe)
        /\ Append(q, rest)[Len(pipe)] = rest
        /\ \A i \in 1 .. Len(pipe) - 1 : Append(q, rest)[i] = q[i]
    BY <1>1, <2>1, <2>4
  <2>6. pipe' = Append(q, rest) BY <2>3 DEF q
  <2> QED BY <1>1, <1>6, <2>2, <2>4, <2>5, <2>6 DEF op
<1> QED BY <1>5, <1>6

-----------------------------------------------------------------------------
(* drivers:geo once the pages are gone.                                    *)

LEMMA GoneGoesOn ==
  ASSUME GoneInv, UNCHANGED <<geo, pipe, conn>>, unclean => unclean'
  PROVE  GoneInv'
BY DEF GoneInv, LastWord, Registered

LEMMA GoneIssues ==
  ASSUME Shape, GoneInv, UNCHANGED <<geo, conn, unclean>>,
         NEW op \in Operation, op.cmds # <<"geoAdd">>, Issue(<<op>>)
  PROVE  GoneInv'
<1> SUFFICES ASSUME Registered' = {}, ~ unclean' PROVE GoneInv' BY DEF GoneInv
<1>1. Registered = {} /\ ~ unclean BY DEF Registered
<1>2. \A i \in 0 .. Len(pipe) : LastWord(i) => LastWord(i)' BY IssueOne DEF LastWord
<1>3. CASE ~ geo /\ LastWord(0) BY <1>2, <1>3, IssueOne DEF GoneInv
<1>4. CASE \E i \in 1 .. Len(pipe) : pipe[i].cmds = <<"zRem", "del">> /\ LastWord(i)
  <2>1. PICK i \in 1 .. Len(pipe) : pipe[i].cmds = <<"zRem", "del">> /\ LastWord(i) BY <1>4
  <2>2. i \in 1 .. Len(pipe') /\ pipe'[i].cmds = <<"zRem", "del">> /\ LastWord(i)'
    BY <1>2, <2>1, IssueOne
  <2> QED BY <2>2 DEF GoneInv
<1> QED BY <1>1, <1>3, <1>4 DEF GoneInv

LEMMA GoneCloses ==
  ASSUME Shape, Issue(<<setDriverOffline>>) PROVE GoneInv'
<1>1. /\ Len(pipe') \in 1 .. Len(pipe')
      /\ pipe'[Len(pipe')].cmds = <<"zRem", "del">>
  BY IssueOne, Operations DEF setDriverOffline, Op
<1>2. \A j \in 1 .. Len(pipe') : ~ (j > Len(pipe')) BY IssueOne, Operations
<1> QED BY <1>1, <1>2 DEF GoneInv, LastWord

\* A command: the sweep is done, or comes nearer.
LEMMA GoneExecutes ==
  ASSUME Shape, GoneInv, ExecuteCommand PROVE GoneInv'
<1> SUFFICES ASSUME Registered' = {}, ~ unclean' PROVE GoneInv' BY DEF GoneInv
<1>1. Registered = {} /\ ~ unclean
  BY DEF Registered, ExecuteCommand, pageVars, historyVars
<1> DEFINE cmd == Head(pipe[1].cmds)
<1>2. geo' = CASE cmd = "zRem" -> FALSE [] cmd = "geoAdd" -> TRUE [] OTHER -> geo
  <2>1. Head(pipe) = pipe[1] BY DEF ExecuteCommand, Shape
  <2> QED BY <2>1, Zenon DEF ExecuteCommand
<1>3. pipe[1].cmds \in Remainders BY QueueMoves DEF Operation
<1>4. Len(pipe') > Len(pipe) - 1 => pipe'[Len(pipe)].cmds # <<"geoAdd">>
  <2>1. Tail(pipe[1].cmds) # <<"geoAdd">> BY <1>3, OneCommand
  <2>2. Len(pipe') > Len(pipe) - 1 => pipe'[Len(pipe)].cmds = Tail(pipe[1].cmds)
    <3> DEFINE n == Len(pipe')
    <3>1. n = Len(pipe) - 1 \/ pipe'[Len(pipe)].cmds = Tail(pipe[1].cmds) BY QueueMoves
    <3>2. Len(pipe) \in Nat BY QueueMoves
    <3> HIDE DEF n
    <3>3. n > Len(pipe) - 1 => pipe'[Len(pipe)].cmds = Tail(pipe[1].cmds) BY <3>1, <3>2
    <3> QED BY <3>3 DEF n
  <2> QED BY <2>1, <2>2
<1>5. \A i \in 1 .. Len(pipe) : LastWord(i) => LastWord(i - 1)'
  <2> SUFFICES ASSUME NEW i \in 1 .. Len(pipe), LastWord(i), NEW j \in 1 .. Len(pipe'), j > i - 1
               PROVE  pipe'[j].cmds # <<"geoAdd">>
    BY DEF LastWord
  <2>1. CASE j <= Len(pipe) - 1
    <3>1. pipe'[j] = pipe[j + 1] /\ j + 1 \in 1 .. Len(pipe) /\ j + 1 > i BY <2>1, QueueMoves
    <3> QED BY <3>1 DEF LastWord
  <2>2. CASE j = Len(pipe) BY <1>4, <2>2, QueueMoves
  <2> QED BY <2>1, <2>2, QueueMoves
<1>6. CASE ~ geo /\ LastWord(0)
  <2>1. pipe[1].cmds # <<"geoAdd">> /\ LastWord(1) BY <1>6, QueueMoves DEF LastWord
  <2>2. cmd # "geoAdd" BY <1>3, <2>1, OneCommand
  <2>3. LastWord(0)' BY <1>5, <2>1, QueueMoves
  <2>4. ~ geo' BY <1>2, <1>6, <2>2
  <2> QED BY <2>3, <2>4 DEF GoneInv
<1>7. CASE pipe[1].cmds = <<"zRem", "del">> /\ LastWord(1)
  <2>1. cmd = "zRem" BY <1>3, <1>7, OneCommand
  <2>2. LastWord(0)' BY <1>5, <1>7, QueueMoves
  <2>3. ~ geo' BY <1>2, <2>1
  <2> QED BY <2>2, <2>3 DEF GoneInv
<1>8. ASSUME NEW i \in 2 .. Len(pipe), pipe[i].cmds = <<"zRem", "del">>, LastWord(i) PROVE GoneInv'
  <2>1. i - 1 \in 1 .. Len(pipe') /\ pipe'[i - 1] = pipe[i] BY <1>8, QueueMoves
  <2>2. LastWord(i - 1)' BY <1>5, <1>8
  <2> QED BY <1>8, <2>1, <2>2 DEF GoneInv
<1> QED
  <2>1. \A i \in 1 .. Len(pipe) : i = 1 \/ i \in 2 .. Len(pipe) BY QueueMoves
  <2> QED BY <1>1, <1>6, <1>7, <1>8, <2>1 DEF GoneInv

-----------------------------------------------------------------------------
(* What the pages show.                                                    *)

LEMMA FreshGoesOn ==
  ASSUME FreshInv, stale => stale', UNCHANGED <<presence, pipe, conn, status, tx>>
  PROVE  FreshInv'
BY DEF FreshInv, Settled

\* An available driver stays available, command by command.
LEMMA SettledExecutes ==
  ASSUME Shape, Settled, ExecuteCommand PROVE Settled'
<1> DEFINE cmd == Head(pipe[1].cmds)
<1>1. Len(pipe) = 1 /\ pipe # <<>> BY QueueMoves DEF Settled
<1>2. presence' = CASE cmd \in {"unavailable", "available"} -> cmd
                    [] cmd = "restore" /\ pipe[1].saw # "none" -> pipe[1].saw
                    [] cmd = "del" -> "none"
                    [] OTHER -> presence
  <2>1. Head(pipe) = pipe[1] BY DEF ExecuteCommand, Shape
  <2> QED BY <2>1, Zenon DEF ExecuteCommand
<1>3. Tail(pipe[1].cmds) = <<>> => pipe' = <<>> BY <1>1, QueueMoves
<1>4. Tail(pipe[1].cmds) # <<>> =>
         /\ Len(pipe') = 1 /\ pipe'[1].cmds = Tail(pipe[1].cmds)
         /\ pipe'[1].saw = IF cmd = "read" THEN presence ELSE pipe[1].saw
  <2>1. Len(pipe') = Len(pipe) - 1 => pipe' = <<>> BY <1>1, QueueMoves
  <2> QED BY <1>1, <2>1, QueueMoves
<1>5. CASE pipe[1].cmds = <<"get", "available">>
  <2>1. Tail(pipe[1].cmds) = <<"available">> /\ Tail(pipe[1].cmds) # <<>> BY <1>5
  <2>2. Len(pipe') = 1 /\ pipe'[1].cmds = <<"available">> BY <1>4, <2>1
  <2> QED BY <2>2 DEF Settled
<1>6. CASE pipe[1].cmds = <<"available">>
  <2>1. cmd = "available" /\ Tail(pipe[1].cmds) = <<>> BY <1>6
  <2> QED BY <1>2, <1>3, <2>1 DEF Settled
<1>7. CASE presence = "available" /\ pipe[1].cmds = <<"read", "restore">>
  <2>1. cmd = "read" /\ Tail(pipe[1].cmds) = <<"restore">> BY <1>7
  <2>2. presence' = "available" BY <1>2, <1>7, <2>1
  <2> QED BY <1>4, <1>7, <2>1, <2>2 DEF Settled
<1>8. CASE presence = "available" /\ pipe[1].cmds = <<"geoAdd">>
  <2>1. cmd = "geoAdd" /\ Tail(pipe[1].cmds) = <<>> BY <1>8
  <2>2. presence' = "available" BY <1>2, <1>8, <2>1
  <2> QED BY <1>3, <2>1, <2>2 DEF Settled
<1>9. CASE pipe[1].cmds = <<"restore">> /\ pipe[1].saw = "available"
  <2>1. cmd = "restore" /\ Tail(pipe[1].cmds) = <<>> BY <1>9
  <2>2. presence' = "available" BY <1>2, <1>9, <2>1
  <2> QED BY <1>3, <2>1, <2>2 DEF Settled
<1> QED BY <1>1, <1>5, <1>6, <1>7, <1>8, <1>9 DEF Settled

LEMMA FreshExecutes ==
  ASSUME Shape, FreshInv, ExecuteCommand PROVE FreshInv'
BY SettledExecutes DEF FreshInv, ExecuteCommand, pageVars, rideVars, historyVars

\* setDriverAvailable alone in the queue.
LEMMA SettledIssues ==
  ASSUME Shape, pipe = <<>>, Issue(<<setDriverAvailable>>) PROVE Settled'
<1>1. Len(pipe') = 1 /\ pipe'[1] = setDriverAvailable BY IssueOne, Operations
<1> QED BY <1>1 DEF Settled, setDriverAvailable, Op

\* A heartbeat or a location alone in the queue.
LEMMA SettledSends ==
  ASSUME Shape, Settled, pipe = <<>>, UNCHANGED presence,
         NEW op \in {updateDriverHeartbeat, updateDriverLocation}, Issue(<<op>>)
  PROVE  Settled'
<1>1. Len(pipe') = 1 /\ pipe'[1] = op BY IssueOne, Operations
<1>2. presence = "available" BY DEF Settled
<1>3. op.cmds \in {<<"read", "restore">>, <<"geoAdd">>} /\ op.cmds # <<"restore">>
  BY DEF updateDriverHeartbeat, updateDriverLocation, Op
<1> QED BY <1>1, <1>2, <1>3 DEF Settled

\* What Send knows of stale.
LEMMA SendFresh ==
  ASSUME Shape, NEW p \in Pages, NEW op, NEW mends, Send(p, op, mends), ~ stale'
  PROVE  /\ conn[p] = "open" /\ pipe = <<>> /\ Issue(<<op>>)
         /\ (mends /\ Registered = {p}) \/ ~ stale
<1>1. conn[p] = "open" /\ Issue(<<op>>) BY DEF Send
<1>2. CASE mends /\ pipe = <<>> /\ Present = {p} /\ Registered = {p} BY <1>1, <1>2
<1>3. CASE ~ (mends /\ pipe = <<>> /\ Present = {p} /\ Registered = {p})
  <2>1. stale' = (stale \/ pipe # <<>>) BY <1>3, Zenon DEF Send
  <2> QED BY <1>1, <2>1
<1> QED BY <1>2, <1>3

LEMMA FreshToggles ==
  ASSUME Shape, FreshInv, NEW p \in Pages, Toggle(p) PROVE FreshInv'
<1> SUFFICES ASSUME ~ stale' PROVE FreshInv' BY DEF FreshInv
<1> DEFINE op == IF status[p] = "ONLINE" THEN setDriverAvailable ELSE setDriverBusy
<1>1. /\ status[p] # "BUSY" /\ Send(p, op, tx = {})
      /\ status' = [status EXCEPT ![p] = IF status[p] = "ONLINE" THEN "AVAILABLE" ELSE "ONLINE"]
      /\ UNCHANGED <<conn, tx>>
  BY DEF Toggle, rideVars
<1>2. conn[p] = "open" /\ pipe = <<>> /\ Issue(<<op>>)
      /\ ((tx = {} /\ Registered = {p}) \/ ~ stale)
  BY <1>1, SendFresh
<1>3. \A q \in Pages : conn[q] = "open" => q = p BY <1>2 DEF Registered, FreshInv
<1>4. "accept" \notin tx BY <1>1, <1>2 DEF FreshInv
<1>5. ASSUME status'[p] = "AVAILABLE" PROVE Settled'
  <2>1. op = setDriverAvailable BY <1>1, <1>5 DEF Shape
  <2> QED BY <1>2, <2>1, SettledIssues
<1> QED BY <1>1, <1>3, <1>4, <1>5 DEF FreshInv

LEMMA FreshSends ==
  ASSUME Shape, FreshInv, NEW p \in Pages, Heartbeat(p) \/ SendLocation(p) PROVE FreshInv'
<1> SUFFICES ASSUME ~ stale' PROVE FreshInv' BY DEF FreshInv
<1>1. PICK op \in {updateDriverHeartbeat, updateDriverLocation} : Send(p, op, FALSE)
  BY DEF Heartbeat, SendLocation
<1>2. UNCHANGED <<presence, conn, status, tx>> BY DEF Heartbeat, SendLocation, pageVars, rideVars
<1>3. pipe = <<>> /\ Issue(<<op>>) /\ ~ stale BY <1>1, SendFresh
<1>4. Settled => Settled' BY <1>2, <1>3, SettledSends
<1> QED BY <1>2, <1>3, <1>4 DEF FreshInv

\* The transactions.
LEMMA FreshCommits ==
  ASSUME Shape, FreshInv, CommitAccept \/ CommitEnd \/ RiderCancels PROVE FreshInv'
<1> SUFFICES ASSUME ~ stale' PROVE FreshInv' BY DEF FreshInv
<1>1. CASE CommitAccept
  BY <1>1 DEF CommitAccept, FreshInv, pageVars, historyVars
<1>2. CASE CommitEnd \/ RiderCancels
  <2>1. UNCHANGED <<conn, status>> /\ tx' \subseteq tx /\ Issue(<<setDriverAvailable>>)
    BY <1>2 DEF CommitEnd, RiderCancels, pageVars
  <2>2. ~ stale /\ pipe = <<>> BY <1>2, Zenon DEF CommitEnd, RiderCancels
  <2>3. Settled' BY <2>1, <2>2, SettledIssues
  <2> QED BY <2>1, <2>2, <2>3 DEF FreshInv
<1> QED BY <1>1, <1>2

\* The page acts on a ride.
LEMMA FreshRides ==
  ASSUME Shape, FreshInv, NEW p \in Pages, AcceptRide(p) \/ CancelRide(p) \/ CompleteRide(p)
  PROVE  FreshInv'
<1> SUFFICES ASSUME ~ stale' PROVE FreshInv' BY DEF FreshInv
<1>1. CASE AcceptRide(p)
  <2>1. ~ stale BY <1>1, Zenon DEF AcceptRide
  <2>2. conn' = conn /\ status'[p] = "BUSY" /\ conn[p] = "open" /\ tx' # {}
    BY <1>1 DEF AcceptRide, Shape
  <2> QED BY <2>1, <2>2 DEF FreshInv
<1>2. CASE CancelRide(p)
  <2>1. ~ stale /\ tx = {} BY <1>2, Zenon DEF CancelRide
  <2>2. conn' = conn /\ tx' = {"end"} BY <1>2, <2>1 DEF CancelRide
  <2> QED BY <2>1, <2>2 DEF FreshInv
<1>3. CASE CompleteRide(p)
  <2>1. ~ stale /\ UNCHANGED <<conn, status>> BY <1>3 DEF CompleteRide, pageVars, historyVars
  <2>2. tx' = tx \cup {"end"} BY <1>3 DEF CompleteRide
  <2> QED BY <2>1, <2>2 DEF FreshInv
<1> QED BY <1>1, <1>2, <1>3

LEMMA FreshOpens ==
  ASSUME Shape, FreshInv, NEW p \in Pages, OpenPage(p) PROVE FreshInv'
<1>1. UNCHANGED <<stale, presence, pipe, tx>> BY DEF OpenPage, redisVars, rideVars, historyVars
<1>2. \A q \in Pages : conn'[q] = "open" => conn[q] = "open" /\ status'[q] = status[q]
  BY DEF OpenPage, Shape
<1>3. Settled' = Settled BY <1>1 DEF Settled
<1> QED BY <1>1, <1>2, <1>3 DEF FreshInv

-----------------------------------------------------------------------------
(* The shape of the state.                                                 *)

LEMMA ShapeExecutes == ASSUME Shape, ExecuteCommand PROVE Shape'
<1>1. pipe[1].cmds \in Remainders /\ pipe[1].saw \in Presences /\ Head(pipe) = pipe[1]
  BY QueueMoves DEF Operation, Shape, ExecuteCommand
<1> DEFINE cmd == Head(pipe[1].cmds)
<1>2. presence' = CASE cmd \in {"unavailable", "available"} -> cmd
                    [] cmd = "restore" /\ pipe[1].saw # "none" -> pipe[1].saw
                    [] cmd = "del" -> "none"
                    [] OTHER -> presence
  BY <1>1, Zenon DEF ExecuteCommand
<1>3. geo' = CASE cmd = "zRem" -> FALSE [] cmd = "geoAdd" -> TRUE [] OTHER -> geo
  BY <1>1, Zenon DEF ExecuteCommand
<1> HIDE DEF cmd
<1>4. presence' \in Presences
  <2>1. CASE cmd \in {"unavailable", "available"} BY <1>2, <2>1 DEF Presences
  <2>2. CASE cmd \notin {"unavailable", "available"} BY <1>1, <1>2, <2>2 DEF Presences, Shape
  <2> QED BY <2>1, <2>2
<1>5. geo' \in BOOLEAN
  <2>1. geo \in BOOLEAN BY DEF Shape
  <2>2. CASE cmd = "zRem" BY <1>3, <2>2
  <2>3. CASE cmd = "geoAdd" BY <1>3, <2>3
  <2>4. CASE cmd # "zRem" /\ cmd # "geoAdd" BY <1>3, <2>1, <2>4
  <2> QED BY <2>2, <2>3, <2>4
<1>6. pipe' \in Seq(Operation) BY QueueMoves
<1>7. Len(pipe') <= MaxOps
  <2>1. Len(pipe') <= Len(pipe) /\ Len(pipe) \in Nat
    BY QueueMoves
  <2>2. Len(pipe) <= MaxOps BY DEF Shape
  <2>3. Len(pipe') \in Nat BY <1>6
  <2> QED BY <2>1, <2>2, <2>3, PresenceAssumption
<1> QED BY <1>4, <1>5, <1>6, <1>7 DEF Shape, ExecuteCommand, pageVars, rideVars, historyVars

\* An operation is issued; nothing else of the server's state changes but what is named.
LEMMA ShapeIssues ==
  ASSUME Shape, NEW op \in Operation, Issue(<<op>>), UNCHANGED <<presence, geo, candidate>>,
         ride' \in BOOLEAN, stale' \in BOOLEAN, unclean' \in BOOLEAN,
         conn' \in [Pages -> Conns], status' \in [Pages -> Statuses], view' \in [Pages -> Views],
         ghosts' \subseteq Pages, tx' \subseteq {"accept", "end"},
         \A p \in Pages : conn'[p] \in {"closed", "gone"} => view'[p] = "none"
  PROVE  Shape'
BY IssueOne DEF Shape

LEMMA ShapeSends ==
  ASSUME Shape, NEW p \in Pages, Toggle(p) \/ Heartbeat(p) \/ SendLocation(p) PROVE Shape'
<1>1. PICK op \in Operation : \E mends \in BOOLEAN : Send(p, op, mends)
  <2>1. CASE Toggle(p)
    <3>1. Send(p, IF status[p] = "ONLINE" THEN setDriverAvailable ELSE setDriverBusy, tx = {})
      BY <2>1 DEF Toggle
    <3>2. (tx = {}) \in BOOLEAN OBVIOUS
    <3> QED BY <3>1, <3>2, Operations, Zenon
  <2>2. CASE Heartbeat(p) \/ SendLocation(p) BY <2>2, Operations DEF Heartbeat, SendLocation
  <2> QED BY <2>1, <2>2
<1>2. PICK mends \in BOOLEAN : Send(p, op, mends) BY <1>1
<1>3. Issue(<<op>>) /\ conn[p] = "open" BY <1>2 DEF Send
<1>4. stale' \in BOOLEAN
  <2>1. CASE mends /\ pipe = <<>> /\ Present = {p} /\ Registered = {p} BY <1>2, <2>1 DEF Send
  <2>2. CASE ~ (mends /\ pipe = <<>> /\ Present = {p} /\ Registered = {p})
    <3>1. stale' = (stale \/ pipe # <<>>) BY <1>2, <2>2, Zenon DEF Send
    <3> QED BY <3>1
  <2> QED BY <2>1, <2>2
<1>5. /\ UNCHANGED <<presence, geo, conn, view, ghosts, ride, tx, candidate, unclean>>
      /\ status' \in [Pages -> Statuses]
  BY DEF Toggle, Heartbeat, SendLocation, pageVars, rideVars, Shape, Statuses
<1> QED BY <1>3, <1>4, <1>5, ShapeIssues DEF Shape

LEMMA ShapeSockets ==
  ASSUME Shape, NEW p \in Pages,
         \/ OpenPage(p) \/ SocketClosed(p)
         \/ \E b \in BOOLEAN : Authenticated(p, b) \/ Leave(p, b)
  PROVE  Shape'
<1>1. CASE OpenPage(p)
  <2>1. conn' \in [Pages -> Conns] /\ status' \in [Pages -> Statuses] /\ view' \in [Pages -> Views]
    BY <1>1 DEF OpenPage, Shape, Conns, Statuses, Views
  <2>2. \A q \in Pages : conn'[q] \in {"closed", "gone"} => view'[q] = "none"
    BY <1>1 DEF OpenPage, Shape
  <2> QED BY <1>1, <2>1, <2>2 DEF OpenPage, Shape, redisVars, rideVars, historyVars
<1>2. CASE SocketClosed(p)
  <2>1. conn' \in [Pages -> Conns] BY <1>2 DEF SocketClosed, Shape, Conns
  <2>2. \A q \in Pages : conn'[q] \in {"closed", "gone"} => view'[q] = "none"
    BY <1>2 DEF SocketClosed, Shape
  <2>3. stale' \in BOOLEAN BY <1>2 DEF SocketClosed
  <2>4. UNCHANGED <<presence, geo, status, view, ghosts, ride, tx, candidate, unclean>>
        /\ Issue(<<setDriverOffline>>)
    BY <1>2 DEF SocketClosed, rideVars
  <2> QED BY <2>1, <2>2, <2>3, <2>4, Operations, ShapeIssues DEF Shape
<1>3. ASSUME NEW b \in BOOLEAN, Authenticated(p, b) PROVE Shape'
  <2>1. conn' \in [Pages -> Conns] BY <1>3 DEF Authenticated, Shape, Conns
  <2>2. \A q \in Pages : conn'[q] \in {"closed", "gone"} => view'[q] = "none"
    BY <1>3 DEF Authenticated, Shape
  <2>3. stale' \in BOOLEAN BY <1>3 DEF Authenticated
  <2>4. UNCHANGED <<presence, geo, status, view, ghosts, ride, tx, candidate, unclean>>
    BY <1>3 DEF Authenticated, rideVars
  <2>5. pipe' \in Seq(Operation) /\ Len(pipe') <= MaxOps
    <3>1. PICK ops \in {<<>>, <<setDriverOnline, setDriverBusy>>, <<setDriverOnline>>} : Issue(ops)
      BY <1>3 DEF Authenticated
    <3>2. ops \in Seq(Operation) BY Operations, ShortQueues
    <3> QED BY <3>1, <3>2 DEF Issue, Shape
  <2> QED BY <2>1, <2>2, <2>3, <2>4, <2>5 DEF Shape
<1>4. ASSUME NEW b \in BOOLEAN, Leave(p, b) PROVE Shape'
  <2>1. conn' \in [Pages -> Conns] /\ status' \in [Pages -> Statuses] /\ view' \in [Pages -> Views]
    BY <1>4 DEF Leave, NotShown, Shape, Conns, Statuses, Views
  <2>2. \A q \in Pages : conn'[q] \in {"closed", "gone"} => view'[q] = "none"
    BY <1>4 DEF Leave, NotShown, Shape
  <2>3. stale' \in BOOLEAN BY <1>4 DEF Leave
  <2>4. UNCHANGED <<presence, geo, ride, tx, candidate, unclean>> /\ ghosts' \subseteq Pages
    BY <1>4 DEF Leave, rideVars, Shape
  <2>5. pipe' \in Seq(Operation) /\ Len(pipe') <= MaxOps
    <3>1. PICK ops \in {<<>>, <<setDriverOffline>>} : Issue(ops) BY <1>4 DEF Leave
    <3>2. ops \in Seq(Operation) BY Operations, ShortQueues
    <3> QED BY <3>1, <3>2 DEF Issue, Shape
  <2> QED BY <2>1, <2>2, <2>3, <2>4, <2>5 DEF Shape
<1> QED BY <1>1, <1>2, <1>3, <1>4

LEMMA ShapeRides ==
  ASSUME Shape, NEW p \in Pages,
         RejectRide(p) \/ AcceptRide(p) \/ CancelRide(p) \/ CompleteRide(p)
  PROVE  Shape'
<1>1. UNCHANGED <<presence, geo, pipe, conn, ghosts, ride, candidate, unclean>> /\ conn[p] = "open"
  BY DEF RejectRide, AcceptRide, CancelRide, CompleteRide, redisVars, rideVars, historyVars, pageVars
<1>2. status' \in [Pages -> Statuses] /\ view' \in [Pages -> Views]
      /\ \A q \in Pages : q # p => view'[q] = view[q]
  BY DEF RejectRide, AcceptRide, CancelRide, CompleteRide, pageVars, Shape, Statuses, Views
<1>3. tx' \subseteq {"accept", "end"}
  BY DEF RejectRide, AcceptRide, CancelRide, CompleteRide, rideVars, Shape
<1>4. stale' \in BOOLEAN
  <2>1. stale \in BOOLEAN BY DEF Shape
  <2>2. CASE RejectRide(p) \/ CompleteRide(p) BY <2>1, <2>2 DEF RejectRide, CompleteRide, historyVars
  <2>3. CASE AcceptRide(p) BY <2>3, Zenon DEF AcceptRide
  <2>4. CASE CancelRide(p) BY <2>4, Zenon DEF CancelRide
  <2> QED BY <2>2, <2>3, <2>4
<1> QED BY <1>1, <1>2, <1>3, <1>4 DEF Shape

LEMMA ShapeServes ==
  ASSUME Shape, CommitAccept \/ CommitEnd \/ RiderCancels
  PROVE  Shape'
<1>1. UNCHANGED <<presence, geo, conn, status, view, ghosts, candidate, unclean>>
  BY DEF CommitAccept, CommitEnd, RiderCancels, pageVars, historyVars
<1>2. ride' \in BOOLEAN /\ tx' \subseteq {"accept", "end"}
  BY DEF CommitAccept, CommitEnd, RiderCancels, Shape
<1>3. stale' \in BOOLEAN
  <2>1. stale \in BOOLEAN BY DEF Shape
  <2>2. CASE CommitAccept BY <2>1, <2>2 DEF CommitAccept, historyVars
  <2>3. CASE CommitEnd BY <2>3, Zenon DEF CommitEnd
  <2>4. CASE RiderCancels BY <2>4, Zenon DEF RiderCancels
  <2> QED BY <2>2, <2>3, <2>4
<1>4. Issue(<<setDriverBusy>>) \/ Issue(<<setDriverAvailable>>)
  BY DEF CommitAccept, CommitEnd, RiderCancels
<1> QED BY <1>1, <1>2, <1>3, <1>4, Operations, ShapeIssues DEF Shape

LEMMA ShapeFails ==
  ASSUME Shape,
         \/ RedisFails \/ PresenceExpires \/ Crash \/ BecomeCandidate \/ NotifyDriver
         \/ \E op \in {"accept", "end"} : TxFails(op)
  PROVE  Shape'
<1>1. CASE RedisFails
  <2>1. Tail(pipe) \in Seq(Operation) /\ Len(Tail(pipe)) <= MaxOps
    BY <1>1, PresenceAssumption DEF RedisFails, Shape
  <2>2. unclean' \in BOOLEAN BY <1>1, Zenon DEF RedisFails
  <2>3. stale' \in BOOLEAN BY <1>1 DEF RedisFails
  <2> QED BY <1>1, <2>1, <2>2, <2>3 DEF RedisFails, Shape, pageVars, rideVars
<1>2. CASE PresenceExpires
  BY <1>2 DEF PresenceExpires, Shape, Presences, pageVars, rideVars
<1>3. CASE Crash
  <2>1. stale' \in BOOLEAN /\ unclean' \in BOOLEAN /\ candidate' \in BOOLEAN BY <1>3, Zenon DEF Crash
  <2>2. conn' \in [Pages -> Conns] /\ status' \in [Pages -> Statuses] /\ view' \in [Pages -> Views]
        /\ \A q \in Pages : view'[q] = "none"
    BY <1>3 DEF Crash, Conns, Statuses, Views
  <2>3. pipe' \in Seq(Operation) /\ Len(pipe') <= MaxOps
    BY <1>3, PresenceAssumption DEF Crash
  <2> QED BY <1>3, <2>1, <2>2, <2>3 DEF Crash, Shape
<1>4. CASE BecomeCandidate
  <2>1. candidate' \in BOOLEAN BY <1>4 DEF BecomeCandidate
  <2> QED BY <1>4, <2>1 DEF BecomeCandidate, Shape, redisVars, pageVars, historyVars
<1>5. CASE NotifyDriver
  <2>1. candidate' \in BOOLEAN BY <1>5 DEF NotifyDriver
  <2>2. stale' \in BOOLEAN BY <1>5, Zenon DEF NotifyDriver
  <2>3. view' \in [Pages -> Views]
        /\ \A q \in Pages : conn[q] # "open" => view'[q] = view[q]
    BY <1>5 DEF NotifyDriver, Shape, Views
  <2> QED BY <1>5, <2>1, <2>2, <2>3 DEF NotifyDriver, Shape, redisVars
<1>6. ASSUME NEW op \in {"accept", "end"}, TxFails(op) PROVE Shape'
  <2>1. stale' \in BOOLEAN BY <1>6 DEF TxFails
  <2> QED BY <1>6, <2>1 DEF TxFails, Shape, redisVars, pageVars
<1> QED BY <1>1, <1>2, <1>3, <1>4, <1>5, <1>6

-----------------------------------------------------------------------------
(* Every step.                                                             *)

LEMMA InitInv == Init => IInv
<1> SUFFICES ASSUME Init PROVE IInv OBVIOUS
<1>1. Shape
  <2>1. geo \in BOOLEAN /\ ride \in BOOLEAN /\ candidate \in BOOLEAN
        /\ stale \in BOOLEAN /\ unclean \in BOOLEAN
    BY Zenon DEF Init
  <2>2. pipe \in Seq(Operation) /\ Len(pipe) <= MaxOps BY PresenceAssumption DEF Init
  <2> QED BY <2>1, <2>2 DEF Init, Shape, Presences, Conns, Statuses, Views
<1>2. GoneInv BY DEF Init, GoneInv, LastWord
<1>3. FreshInv BY DEF Init, FreshInv
<1> QED BY <1>1, <1>2, <1>3 DEF IInv

LEMMA PageInv ==
  ASSUME IInv, NEW p \in Pages,
         \/ OpenPage(p) \/ SocketClosed(p)
         \/ \E b \in BOOLEAN : Authenticated(p, b) \/ Leave(p, b)
         \/ Toggle(p) \/ Heartbeat(p) \/ SendLocation(p) \/ RejectRide(p)
         \/ AcceptRide(p) \/ CancelRide(p) \/ CompleteRide(p)
  PROVE  IInv'
<1> USE DEF IInv
<1>1. CASE OpenPage(p)
  <2>1. Registered' = Registered BY <1>1 DEF OpenPage, Registered, Shape
  <2>2. GoneInv' BY <1>1, <2>1 DEF OpenPage, redisVars, historyVars, GoneInv, LastWord
  <2> QED BY <1>1, <2>2, ShapeSockets, FreshOpens
<1>2. CASE SocketClosed(p)
  <2>1. GoneInv' BY <1>2, GoneCloses DEF SocketClosed
  <2>2. FreshInv' BY <1>2 DEF SocketClosed, FreshInv
  <2> QED BY <1>2, <2>1, <2>2, ShapeSockets
<1>3. ASSUME NEW b \in BOOLEAN, Authenticated(p, b) PROVE IInv'
  <2>1. conn'[p] = "open" BY <1>3 DEF Authenticated, Shape
  <2>2. GoneInv' BY <2>1 DEF GoneInv, Registered
  <2>3. FreshInv' BY <1>3 DEF Authenticated, FreshInv
  <2> QED BY <1>3, <2>2, <2>3, ShapeSockets
<1>4. ASSUME NEW b \in BOOLEAN, Leave(p, b) PROVE IInv'
  <2>1. GoneInv'
    <3>1. CASE conn[p] = "open"
      <4>1. conn'[p] = "gone" BY <1>4, <3>1 DEF Leave, Shape
      <4> QED BY <4>1 DEF GoneInv, Registered
    <3>2. CASE conn[p] = "connecting"
      <4>1. pipe' = pipe BY <1>4, <3>2, IssueNone DEF Leave
      <4>2. Registered' = Registered BY <1>4, <3>2 DEF Leave, Registered, Shape
      <4> QED BY <1>4, <4>1, <4>2 DEF Leave, GoneInv, LastWord
    <3> QED BY <1>4, <3>1, <3>2 DEF Leave
  <2>2. FreshInv' BY <1>4 DEF Leave, FreshInv
  <2> QED BY <1>4, <2>1, <2>2, ShapeSockets
<1>5. CASE Toggle(p) \/ Heartbeat(p) \/ SendLocation(p)
  <2>1. conn[p] = "open" /\ conn' = conn
    BY <1>5 DEF Toggle, Heartbeat, SendLocation, Send, pageVars
  <2>2. GoneInv' BY <2>1 DEF GoneInv, Registered
  <2> QED BY <1>5, <2>2, ShapeSends, FreshToggles, FreshSends
<1>6. CASE RejectRide(p)
  <2>1. GoneInv' /\ FreshInv'
    BY <1>6, GoneGoesOn, FreshGoesOn DEF RejectRide, redisVars, rideVars, historyVars
  <2> QED BY <1>6, <2>1, ShapeRides
<1>7. CASE AcceptRide(p) \/ CancelRide(p) \/ CompleteRide(p)
  <2>1. UNCHANGED <<geo, pipe, conn, unclean>>
    BY <1>7 DEF AcceptRide, CancelRide, CompleteRide, redisVars, pageVars, historyVars
  <2> QED BY <1>7, <2>1, GoneGoesOn, FreshRides, ShapeRides
<1> QED BY <1>1, <1>2, <1>3, <1>4, <1>5, <1>6, <1>7

LEMMA ServerInv ==
  ASSUME IInv,
         \/ ExecuteCommand \/ RedisFails \/ PresenceExpires \/ Crash
         \/ BecomeCandidate \/ NotifyDriver \/ CommitAccept \/ CommitEnd \/ RiderCancels
         \/ \E op \in {"accept", "end"} : TxFails(op)
  PROVE  IInv'
<1> USE DEF IInv
<1>1. CASE ExecuteCommand BY <1>1, ShapeExecutes, GoneExecutes, FreshExecutes
<1>2. CASE RedisFails
  <2>1. FreshInv' BY <1>2 DEF RedisFails, FreshInv
  <2>2. GoneInv'
    <3> SUFFICES ASSUME Registered' = {}, ~ unclean' PROVE GoneInv' BY DEF GoneInv
    <3>1. Registered = {} BY <1>2 DEF RedisFails, Registered, pageVars
    <3>2. ~ unclean /\ "del" \notin Range(Head(pipe).cmds) BY <1>2, Zenon DEF RedisFails
    <3>3. pipe[1].cmds # <<"zRem", "del">>
      <4>1. SUFFICES ASSUME pipe[1].cmds = <<"zRem", "del">> PROVE FALSE OBVIOUS
      <4>2. Head(pipe) = pipe[1] BY <1>2 DEF RedisFails, Shape
      <4>3. Head(pipe).cmds[2] = "del" /\ 2 \in DOMAIN Head(pipe).cmds BY <4>1, <4>2
      <4> QED BY <3>2, <4>3 DEF Range
    <3>4. /\ Len(pipe) \in Nat /\ Len(pipe) >= 1 /\ Len(pipe') = Len(pipe) - 1
          /\ \A i \in 1 .. Len(pipe') : pipe'[i] = pipe[i + 1]
      BY <1>2 DEF RedisFails, Shape
    <3>5. CASE ~ geo /\ LastWord(0)
      <4>1. LastWord(0)' BY <3>4, <3>5 DEF LastWord
      <4> QED BY <1>2, <3>5, <4>1 DEF GoneInv, RedisFails
    <3>6. ASSUME NEW i \in 1 .. Len(pipe), pipe[i].cmds = <<"zRem", "del">>, LastWord(i) PROVE GoneInv'
      <4>1. i # 1 BY <3>3, <3>6
      <4>2. i - 1 \in 1 .. Len(pipe') /\ pipe'[i - 1] = pipe[i] BY <3>4, <4>1
      <4>3. LastWord(i - 1)' BY <3>4, <3>6 DEF LastWord
      <4> QED BY <3>6, <4>2, <4>3 DEF GoneInv
    <3> QED BY <3>1, <3>2, <3>5, <3>6 DEF GoneInv
  <2> QED BY <1>2, <2>1, <2>2, ShapeFails
<1>3. CASE PresenceExpires
  <2>1. FreshInv' BY <1>3 DEF PresenceExpires, FreshInv
  <2> QED BY <1>3, <2>1, GoneGoesOn, ShapeFails DEF PresenceExpires, pageVars
<1>4. CASE Crash
  <2>1. FreshInv' /\ GoneInv' BY <1>4 DEF Crash, FreshInv, GoneInv
  <2> QED BY <1>4, <2>1, ShapeFails
<1>5. CASE BecomeCandidate
  BY <1>5, GoneGoesOn, FreshGoesOn, ShapeFails
     DEF BecomeCandidate, redisVars, pageVars, historyVars
<1>6. CASE NotifyDriver
  <2>1. stale => stale' BY <1>6, Zenon DEF NotifyDriver
  <2> QED BY <1>6, <2>1, GoneGoesOn, FreshGoesOn, ShapeFails DEF NotifyDriver, redisVars
<1>7. CASE CommitAccept \/ CommitEnd \/ RiderCancels
  <2>1. UNCHANGED <<geo, conn, unclean>>
    BY <1>7 DEF CommitAccept, CommitEnd, RiderCancels, pageVars, historyVars
  <2>2. Issue(<<setDriverBusy>>) \/ Issue(<<setDriverAvailable>>)
    BY <1>7 DEF CommitAccept, CommitEnd, RiderCancels
  <2>3. setDriverBusy.cmds # <<"geoAdd">> /\ setDriverAvailable.cmds # <<"geoAdd">>
    BY DEF setDriverBusy, setDriverAvailable, Op
  <2>4. GoneInv' BY <2>1, <2>2, <2>3, Operations, GoneIssues
  <2> QED BY <1>7, <2>4, FreshCommits, ShapeServes
<1>8. ASSUME NEW op \in {"accept", "end"}, TxFails(op) PROVE IInv'
  <2>1. FreshInv' BY <1>8 DEF TxFails, FreshInv
  <2>2. GoneInv' BY <1>8, GoneGoesOn DEF TxFails, redisVars, pageVars
  <2> QED BY <1>8, <2>1, <2>2, ShapeFails
<1> QED BY <1>1, <1>2, <1>3, <1>4, <1>5, <1>6, <1>7, <1>8

\* In every state: unless the process died or Redis failed the close of a
\* socket, a driver without sockets is out of drivers:geo or about to leave it;
\* and while nothing is stale, a page that shows AVAILABLE has the operation
\* that makes it so behind it or in the queue.
THEOREM Inductive == Spec => []IInv
<1>1. Init => IInv BY InitInv
<1>2. IInv /\ UNCHANGED vars => IInv'
  <2> SUFFICES ASSUME IInv, UNCHANGED vars PROVE IInv' OBVIOUS
  <2> USE DEF vars, redisVars, pageVars, rideVars, historyVars, IInv
  <2>1. Shape' BY DEF Shape
  <2>2. GoneInv' /\ FreshInv' BY GoneGoesOn, FreshGoesOn
  <2> QED BY <2>1, <2>2
<1>3. IInv /\ Next => IInv' BY PageInv, ServerInv DEF Next
<1> QED BY <1>1, <1>2, <1>3, PTL DEF Spec

\* The shape of the state, for any number of pages and any length of the queue.
THEOREM TypeCorrect == Spec => []TypeOK
<1>1. IInv => TypeOK
  <2> SUFFICES ASSUME IInv PROVE TypeOK OBVIOUS
  <2>1. ASSUME NEW i \in 1 .. Len(pipe)
        PROVE  /\ pipe[i].cmds # <<>>
               /\ \A j \in 1 .. Len(pipe[i].cmds) : pipe[i].cmds[j] \in Commands
               /\ pipe[i].saw \in {"none", "unavailable", "available"}
    <3>1. pipe[i] \in Operation BY DEF IInv, Shape
    <3>2. pipe[i].cmds \in Remainders /\ pipe[i].saw \in Presences BY <3>1 DEF Operation
    <3> QED BY <3>2, OneCommand DEF Presences
  <2> QED BY <2>1 DEF IInv, Shape, TypeOK, Presences
<1> QED BY <1>1, Inductive, PTL

\* However many operations of messages, heartbeats and rides are under way and
\* take turns: once the last socket of a driver is closed and the queue is
\* empty, the driver is in no rider's list (socket.ts, close).
THEOREM GoneStaysUnmatched == Spec => []GoneIsNotMatched
<1>1. IInv => GoneIsNotMatched
  <2> SUFFICES ASSUME IInv, Registered = {}, pipe = <<>>, ~ unclean PROVE ~ geo
    BY DEF GoneIsNotMatched, Eligible
  <2>1. Len(pipe) = 0 OBVIOUS
  <2> QED BY <2>1 DEF IInv, GoneInv
<1> QED BY <1>1, Inductive, PTL

\* For any number of pages: with nothing under way, a page that shows AVAILABLE
\* belongs to a driver who is available, unless stale tells why not.
THEOREM AvailableMatched == Spec => []AvailableIsMatched
<1>1. IInv => AvailableIsMatched
  <2> SUFFICES ASSUME IInv, ~ stale, pipe = <<>>, tx = {},
                      NEW p \in Pages, conn[p] = "open", status[p] = "AVAILABLE"
               PROVE  presence = "available"
    BY DEF AvailableIsMatched
  <2>1. Len(pipe) = 0 OBVIOUS
  <2>2. Settled BY DEF IInv, FreshInv
  <2> QED BY <2>1, <2>2 DEF Settled
<1> QED BY <1>1, Inductive, PTL
=============================================================================

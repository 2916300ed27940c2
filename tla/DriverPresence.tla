---------------------------- MODULE DriverPresence ----------------------------
(***************************************************************************)
(* One driver's presence: the dashboard pages the driver has open          *)
(* (frontend/src/DriverDashboard.tsx), their sockets                       *)
(* (backend/src/sockets), driver:presence and drivers:geo in Redis         *)
(* (backend/src/redis/services) and the rides that make the driver busy.   *)
(*                                                                         *)
(* Each message starts an operation of a few Redis commands.  The process  *)
(* has one connection to Redis: commands are executed in the order they    *)
(* are issued, and an operation issues its next one when it has the reply  *)
(* to the last.  So `pipe` is a queue of operations that take turns.       *)
(*                                                                         *)
(* online and lastSeen of a presence are left out: every operation that    *)
(* writes one sets online, and nothing reads lastSeen.                     *)
(***************************************************************************)
EXTENDS Naturals, Sequences, FiniteSets, Functions

CONSTANTS
    Pages,       \* tabs with the dashboard, each with its socket
    MaxOps       \* bound on operations on Redis under way at once

ASSUME PresenceAssumption == MaxOps \in Nat \ {0}

VARIABLES
    presence,    \* driver:presence: "none", "unavailable" or "available"
    geo,         \* drivers:geo has the driver
    pipe,        \* operations on Redis, the next to be served first
    conn,        \* the socket of each page, see Conns
    status,      \* driverStatus of each page
    view,        \* currentRide of each page, see Views
    ghosts,      \* pages a closed socket of which stays in the registry
    ride,        \* the driver has a currentRide
    tx,          \* ride operations that are not committed yet
    candidate,   \* a dispatch has the driver in its list
    stale,       \* history: Redis may differ from what a page shows
    unclean      \* history: the process died, or Redis failed setDriverOffline

redisVars == <<presence, geo, pipe>>
pageVars == <<conn, status, view, ghosts>>
rideVars == <<ride, tx, candidate>>
historyVars == <<stale, unclean>>
vars == <<redisVars, pageVars, rideVars, historyVars>>

\* closed: no page, or a page without a socket; connecting: authenticateSocket
\* is awaited; open; gone: the page has left or the connection is broken, and
\* the server has not noticed.
Conns == {"closed", "connecting", "open", "gone"}
Views == {"none", "offered", "busy"}   \* none: or a ride that is over
Statuses == {"ONLINE", "AVAILABLE", "BUSY"}

\* driverSockets of the registry, without the ghosts: emitToDriver skips those,
\* isDriverOnline counts them.
Registered == {p \in Pages : conn[p] \in {"open", "gone"}}
Present == {p \in Pages : conn[p] \in {"connecting", "open"}}

\* findEligibleDrivers: near, available, without a ride.
Eligible == geo /\ presence = "available" /\ ~ride

Init ==
    /\ presence = "none" /\ geo = FALSE /\ pipe = <<>>
    /\ conn = [p \in Pages |-> "closed"]
    /\ status = [p \in Pages |-> "ONLINE"]
    /\ view = [p \in Pages |-> "none"]
    /\ ghosts = {}
    /\ ride = FALSE /\ tx = {} /\ candidate = FALSE
    /\ stale = FALSE /\ unclean = FALSE

-----------------------------------------------------------------------------
(* driver-presence.service and geo.service: an operation is its commands.  *)

Op(cmds) == [cmds |-> cmds, saw |-> "none"]

setDriverOnline == Op(<<"get", "unavailable">>)
setDriverOffline == Op(<<"zRem", "del">>)
updateDriverHeartbeat == Op(<<"read", "restore">>)
setDriverAvailable == Op(<<"get", "available">>)
setDriverBusy == Op(<<"get", "zRem", "unavailable">>)
updateDriverLocation == Op(<<"geoAdd">>)

Issue(ops) ==
    /\ Len(pipe) + Len(ops) <= MaxOps
    /\ pipe' = pipe \o ops

\* The next command; `restore` writes back what the operation read.
ExecuteCommand ==
    /\ pipe # <<>>
    /\ LET op == Head(pipe)
           cmd == Head(op.cmds)
           more == Tail(op.cmds)
       IN  /\ presence' = CASE cmd \in {"unavailable", "available"} -> cmd
                            [] cmd = "restore" /\ op.saw # "none" -> op.saw
                            [] cmd = "del" -> "none"
                            [] OTHER -> presence
           /\ geo' = CASE cmd = "zRem" -> FALSE [] cmd = "geoAdd" -> TRUE [] OTHER -> geo
           /\ pipe' = IF more = <<>> THEN Tail(pipe)
                      ELSE Append(Tail(pipe),
                                  [cmds |-> more,
                                   saw |-> IF cmd = "read" THEN presence ELSE op.saw])
    /\ UNCHANGED <<pageVars, rideVars, historyVars>>

\* Redis does not answer: the operation throws and the rest of it is not done.
RedisFails ==
    /\ pipe # <<>>
    /\ pipe' = Tail(pipe)
    /\ stale' = TRUE
    /\ unclean' = (unclean \/ "del" \in Range(Head(pipe).cmds))
    /\ UNCHANGED <<presence, geo, pageVars, rideVars>>

\* EX 300: pages that are open send a heartbeat every 10 seconds.
PresenceExpires ==
    /\ presence # "none" /\ pipe = <<>>
    /\ \A p \in Pages : conn[p] # "open"
    /\ presence' = "none"
    /\ stale' = TRUE
    /\ UNCHANGED <<geo, pipe, pageVars, rideVars, unclean>>

-----------------------------------------------------------------------------
(* socket.ts                                                               *)

\* The page loads the driver's current ride and connects.
OpenPage(p) ==
    /\ conn[p] = "closed"
    /\ conn' = [conn EXCEPT ![p] = "connecting"]
    /\ view' = [view EXCEPT ![p] = IF ride THEN "busy" ELSE "none"]
    /\ status' = [status EXCEPT ![p] = IF ride THEN "BUSY" ELSE "ONLINE"]
    /\ UNCHANGED <<redisVars, rideVars, historyVars, ghosts>>

\* authenticateSocket returns and the socket is registered.  The page sends
\* GO_ONLINE, and SET_BUSY on a ride, when its end is open: what comes before
\* the listener is there is dropped.
Authenticated(p, early) ==
    /\ conn[p] = "connecting"
    /\ conn' = [conn EXCEPT ![p] = "open"]
    /\ LET ops == IF early THEN <<>>
                  ELSE IF view[p] = "busy" THEN <<setDriverOnline, setDriverBusy>>
                  ELSE <<setDriverOnline>>
       IN  Issue(ops)
    /\ stale' = TRUE
    /\ UNCHANGED <<presence, geo, status, view, rideVars, unclean, ghosts>>

\* What a page without a working socket shows does not matter any more.
NotShown(p) ==
    /\ status' = [status EXCEPT ![p] = "ONLINE"]
    /\ view' = [view EXCEPT ![p] = "none"]

\* The page is unmounted, which sends GO_OFFLINE first, or the tab is closed or
\* the connection breaks.  The listener for the close event is attached after
\* authenticateSocket: a socket that closes before is registered all the same,
\* if authentication succeeds, and never taken out.
Leave(p, unmounted) ==
    /\ conn[p] \in {"connecting", "open"}
    /\ conn' = [conn EXCEPT ![p] = IF @ = "open" THEN "gone" ELSE "closed"]
    /\ Issue(IF unmounted /\ conn[p] = "open" THEN <<setDriverOffline>> ELSE <<>>)
    /\ \/ conn[p] = "connecting" /\ ghosts' = ghosts \cup {p}
       \/ UNCHANGED ghosts
    /\ NotShown(p)
    /\ stale' = TRUE
    /\ UNCHANGED <<presence, geo, rideVars, unclean>>

\* Mutant of SocketClosed: only the last socket takes the driver offline, and the
\* registry is asked before the socket is taken out.
SocketClosedIfLast(p) ==
    /\ conn[p] = "gone"
    /\ conn' = [conn EXCEPT ![p] = "closed"]
    /\ Issue(IF Registered = {} THEN <<setDriverOffline>> ELSE <<>>)
    /\ stale' = TRUE
    /\ UNCHANGED <<presence, geo, status, view, rideVars, unclean, ghosts>>

\* The close event: unregister, and the driver goes offline, whatever other
\* sockets the driver has.
SocketClosed(p) ==
    /\ conn[p] = "gone"
    /\ conn' = [conn EXCEPT ![p] = "closed"]
    /\ Issue(<<setDriverOffline>>)
    /\ stale' = TRUE
    /\ UNCHANGED <<presence, geo, status, view, rideVars, unclean, ghosts>>

\* The process dies and starts again; the pages keep no socket.
Crash ==
    /\ pipe' = <<>>
    /\ tx' = {} /\ candidate' = FALSE
    /\ conn' = [p \in Pages |-> "closed"]
    /\ status' = [p \in Pages |-> "ONLINE"]
    /\ view' = [p \in Pages |-> "none"]
    /\ ghosts' = {}
    /\ stale' = TRUE /\ unclean' = TRUE
    /\ UNCHANGED <<presence, geo, ride>>

-----------------------------------------------------------------------------
(* DriverDashboard and driver.handler.                                     *)

\* Page p sends a message that starts operation op.  `mends`: it says all there
\* is to say about the availability.
Send(p, op, mends) ==
    /\ conn[p] = "open"
    /\ Issue(<<op>>)
    /\ stale' = IF mends /\ pipe = <<>> /\ Present = {p} /\ Registered = {p}
                THEN FALSE ELSE stale \/ pipe # <<>>

\* handleToggleAvailability
Toggle(p) ==
    /\ status[p] # "BUSY"
    /\ LET on == status[p] = "ONLINE"
       IN  /\ Send(p, IF on THEN setDriverAvailable ELSE setDriverBusy, tx = {})
           /\ status' = [status EXCEPT ![p] = IF on THEN "AVAILABLE" ELSE "ONLINE"]
    /\ UNCHANGED <<presence, geo, conn, view, rideVars, unclean, ghosts>>

Heartbeat(p) ==
    /\ Send(p, updateDriverHeartbeat, FALSE)
    /\ UNCHANGED <<presence, geo, pageVars, rideVars, unclean>>

\* The effect that watches the position returns early on a ride.
Watching(p) == view[p] # "busy" /\ status[p] # "ONLINE"

SendLocation(p) ==
    /\ Watching(p)
    /\ Send(p, updateDriverLocation, FALSE)
    /\ UNCHANGED <<presence, geo, pageVars, rideVars, unclean>>

\* NEW_RIDE, to every socket of a driver some dispatch found eligible before,
\* replaces the page's ride.
BecomeCandidate ==
    /\ Eligible /\ ~candidate
    /\ candidate' = TRUE
    /\ UNCHANGED <<redisVars, pageVars, ride, tx, historyVars>>

\* Mutant of NotifyDriver: pages without a socket are shown the ride as well.
NotifyEveryPage ==
    /\ candidate
    /\ candidate' = FALSE
    /\ view' = [p \in Pages |-> "offered"]
    /\ UNCHANGED <<redisVars, conn, status, ride, tx, historyVars, ghosts>>

NotifyDriver ==
    /\ candidate
    /\ candidate' = FALSE
    /\ view' = [p \in Pages |-> IF conn[p] = "open" THEN "offered" ELSE view[p]]
    /\ stale' = (stale \/ \E p \in Pages : status[p] = "BUSY")
    /\ UNCHANGED <<redisVars, conn, status, ride, tx, unclean, ghosts>>

\* handleRejectRide
RejectRide(p) ==
    /\ conn[p] = "open" /\ view[p] = "offered"
    /\ view' = [view EXCEPT ![p] = "none"]
    /\ UNCHANGED <<redisVars, conn, status, rideVars, historyVars, ghosts>>

\* handleAcceptRide shows the ride as assigned at once; an effect shows BUSY.
AcceptRide(p) ==
    /\ conn[p] = "open" /\ view[p] = "offered"
    /\ view' = [view EXCEPT ![p] = "busy"]
    /\ status' = [status EXCEPT ![p] = "BUSY"]
    /\ tx' = tx \cup {"accept"}
    /\ stale' = (stale \/ pipe # <<>> \/ tx # {})
    /\ UNCHANGED <<redisVars, conn, ride, candidate, unclean, ghosts>>

\* handleCancelRide shows the ride as cancelled at once; effects show AVAILABLE
\* and send a SET_AVAILABLE that has no `available` and is refused.
CancelRide(p) ==
    /\ conn[p] = "open" /\ view[p] = "busy"
    /\ view' = [view EXCEPT ![p] = "none"]
    /\ status' = [status EXCEPT ![p] = IF status[p] = "BUSY" THEN "AVAILABLE" ELSE status[p]]
    /\ tx' = tx \cup {"end"}
    /\ stale' = (stale \/ tx # {})
    /\ UNCHANGED <<redisVars, conn, ride, candidate, unclean, ghosts>>

\* COMPLETE_RIDE leaves the page as it is.
CompleteRide(p) ==
    /\ conn[p] = "open" /\ view[p] = "busy"
    /\ tx' = tx \cup {"end"}
    /\ UNCHANGED <<redisVars, pageVars, ride, candidate, historyVars>>

-----------------------------------------------------------------------------
(* ride.service, as far as it concerns the driver.                         *)

\* The transaction of acceptRide commits, and the presence follows.
CommitAccept ==
    /\ "accept" \in tx /\ ~ride
    /\ tx' = tx \ {"accept"}
    /\ ride' = TRUE
    /\ Issue(<<setDriverBusy>>)
    /\ UNCHANGED <<presence, geo, pageVars, candidate, historyVars>>

\* Mutant of CommitEnd: a ride that ends leaves the presence alone.
CommitEndOnly ==
    /\ "end" \in tx /\ ride
    /\ tx' = tx \ {"end"}
    /\ ride' = FALSE
    /\ UNCHANGED <<redisVars, pageVars, candidate, historyVars>>

\* The transaction of cancelRideByDriver or completeRide.
CommitEnd ==
    /\ "end" \in tx /\ ride
    /\ tx' = tx \ {"end"}
    /\ ride' = FALSE
    /\ Issue(<<setDriverAvailable>>)
    /\ stale' = (stale \/ pipe # <<>>)
    /\ UNCHANGED <<presence, geo, pageVars, candidate, unclean>>

\* Refused, or an error: the page is not told that what it shows is wrong.
TxFails(op) ==
    /\ op \in tx
    /\ tx' = tx \ {op}
    /\ stale' = TRUE
    /\ UNCHANGED <<redisVars, pageVars, ride, candidate, unclean>>

\* cancelRide by the rider.  Its RIDE_CANCELLED goes to the sockets of a rider
\* with the driver's id: the page keeps the ride.
RiderCancels ==
    /\ ride
    /\ ride' = FALSE
    /\ Issue(<<setDriverAvailable>>)
    /\ stale' = (stale \/ pipe # <<>>)
    /\ UNCHANGED <<presence, geo, pageVars, tx, candidate, unclean>>

Next ==
    \/ ExecuteCommand \/ RedisFails \/ PresenceExpires \/ Crash
    \/ BecomeCandidate \/ NotifyDriver \/ CommitAccept \/ CommitEnd \/ RiderCancels
    \/ \E op \in {"accept", "end"} : TxFails(op)
    \/ \E p \in Pages :
        \/ OpenPage(p) \/ SocketClosed(p)
        \/ \E b \in BOOLEAN : Authenticated(p, b) \/ Leave(p, b)
        \/ Toggle(p) \/ Heartbeat(p) \/ SendLocation(p) \/ RejectRide(p)
        \/ AcceptRide(p) \/ CancelRide(p) \/ CompleteRide(p)

Spec == Init /\ [][Next]_vars

-----------------------------------------------------------------------------
Commands == {"get", "read", "unavailable", "available", "restore", "zRem", "del", "geoAdd"}

\* Shape of the state.
TypeOK ==
    /\ presence \in {"none", "unavailable", "available"}
    /\ geo \in BOOLEAN /\ ride \in BOOLEAN /\ candidate \in BOOLEAN
    /\ stale \in BOOLEAN /\ unclean \in BOOLEAN
    /\ Len(pipe) <= MaxOps
    /\ \A i \in 1 .. Len(pipe) :
        /\ pipe[i].cmds # <<>>
        /\ \A j \in 1 .. Len(pipe[i].cmds) : pipe[i].cmds[j] \in Commands
        /\ pipe[i].saw \in {"none", "unavailable", "available"}
    /\ conn \in [Pages -> Conns]
    /\ status \in [Pages -> Statuses]
    /\ view \in [Pages -> Views]
    /\ ghosts \subseteq Pages
    /\ tx \subseteq {"accept", "end"}
    /\ \A p \in Pages : conn[p] \in {"closed", "gone"} => view[p] = "none"

\* When the server knows that the driver has no page left and has done what
\* the messages asked for, no rider is sent to the driver: a heartbeat or a
\* location sent before the close does not outlast it (socket.ts, close), and a
\* closed socket that stays in the registry, which makes isDriverOnline true for
\* good, brings nothing back into Redis.
GoneIsNotMatched ==
    Registered = {} /\ pipe = <<>> /\ ~unclean => ~Eligible

\* What the page shows is what dispatch sees: a driver shown as available is
\* available in Redis, unless stale tells why not.
AvailableIsMatched ==
    ~stale /\ pipe = <<>> /\ tx = {} =>
        \A p \in Pages : conn[p] = "open" /\ status[p] = "AVAILABLE" => presence = "available"
=============================================================================

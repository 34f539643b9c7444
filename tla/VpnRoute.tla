------------------------------ MODULE VpnRoute ------------------------------
(***************************************************************************)
(* One VPN route (internal/vpn): the container that provides the route of  *)
(* a profile, shared by the connections that go through it.  A connection  *)
(* starts the route if it is not up; the user stops or disconnects it;     *)
(* the engine stops it when nobody has used it for a while.  Starting and  *)
(* stopping take the transition lock, which a caller waits for only as     *)
(* long as its context lives; the counters are read without that lock.     *)
(* Profiles do not share anything, so one route stands for all of them.    *)
(***************************************************************************)
EXTENDS Integers, FiniteSets

CONSTANTS
    Dials,      \* the calls of Dial
    Ups,        \* the calls of Start alone: the VPN screen and `sshc vpn up`
    Relays,     \* the connections the CLI makes through the engine's relay
    Stoppers,   \* concurrent callers of Stop, Forget and Disconnect
    Free,       \* nobody holds the transition lock
    Sweeper,    \* the engine's supervisor
    MaxStops    \* bound: requested stops

Starters == Dials \cup Ups
Users == Starters \cup Relays

VARIABLES
    holder,        \* who holds state.transition
    running,       \* state.running: started, and its relay offered
    container,     \* the container is up
    open,          \* state.open
    idle,          \* idleSince is longer ago than the idle timeout
    disconnected,  \* state.disconnected
    stops,         \* state.stops
    cause,         \* state.stopCause
    starter,       \* whose start state.cancelStart cancels, or Free
    cancelled,     \* why each start has been cancelled
    quitting,      \* Manager.Close: the lifetime is over
    dial,          \* where each user of the route is
    snap,          \* the stops each start saw before it waited
    stopping,      \* where each caller of a stop is
    sweep          \* where StopIdle is

routeVars == <<holder, running, container, open, idle, disconnected, stops, cause,
               starter, cancelled, quitting>>
userVars == <<dial, snap>>
vpnVars == <<routeVars, userVars, stopping, sweep>>

TypeOK ==
    /\ holder \in Starters \cup Stoppers \cup {Free, Sweeper}
    /\ running \in BOOLEAN /\ container \in BOOLEAN
    /\ open \in 0 .. Cardinality(Users)
    /\ idle \in BOOLEAN /\ disconnected \in BOOLEAN
    /\ stops \in 0 .. MaxStops
    /\ cause \in {"stopped", "disconnected"}
    /\ starter \in Starters \cup {Free}
    /\ cancelled \in [Starters -> {"no", "stopped", "disconnected"}]
    /\ quitting \in BOOLEAN
    /\ dial \in [Users -> {"idle", "borrowed", "queued", "building",
                           "connecting", "connected", "broken", "closed",
                           "failed", "refused"}]
    /\ snap \in [Starters -> 0 .. MaxStops]
    /\ stopping \in [Stoppers -> {"none", "stop", "disconnect", "stopping",
                                  "disconnecting"}]
    /\ sweep \in {"none", "queued", "stopping"}

Init ==
    /\ holder = Free /\ running = FALSE /\ container = FALSE
    /\ open = 0 /\ idle = FALSE /\ disconnected = FALSE
    /\ stops = 0 /\ cause = "stopped" /\ starter = Free
    /\ cancelled = [d \in Starters |-> "no"]
    /\ quitting = FALSE
    /\ dial = [d \in Users |-> "idle"]
    /\ snap = [d \in Starters |-> 0]
    /\ stopping = [c \in Stoppers |-> "none"]
    /\ sweep = "none"

\* The users whose borrow is counted: from before their start to their last close.
Borrowers == {d \in Dials \cup Relays :
                dial[d] \in {"borrowed", "queued", "building", "connecting",
                             "connected", "broken"}}

(***************************************************************************)
(* Dial                                                                    *)
(***************************************************************************)

Moves(d, to) == dial' = [dial EXCEPT ![d] = to]

\* release: the last one out starts the idle clock.  Start alone borrowed nothing.
release(d) ==
    IF d \in Ups THEN UNCHANGED <<open, idle>>
    ELSE /\ open' = IF open > 0 THEN open - 1 ELSE 0
         /\ idle' = IF open' = 0 THEN FALSE ELSE idle

\* A start that found or made the route up goes on to connect; Start alone is over.
Served(d) == IF d \in Ups THEN "closed" ELSE "connecting"

\* A start under way ends for the first reason it is given.
CancelStart(why) ==
    cancelled' = [d \in Starters |-> IF d = starter /\ cancelled[d] = "no" THEN why
                                     ELSE cancelled[d]]

\* Mutant: an early return of Dial that keeps the borrow.
StartEndsBorrowing(d) ==
    /\ UNCHANGED <<open, idle>>
    /\ Moves(d, IF cancelled[d] = "disconnected" THEN "refused" ELSE "failed")

\* The end of a start that did not succeed: the borrow goes back.
StartEnds(d) ==
    /\ release(d)
    /\ Moves(d, IF cancelled[d] = "disconnected" THEN "refused" ELSE "failed")

\* refuseRestartAfterDisconnect, and then Dial, which borrows before it starts.
Ask(d, automatic) ==
    /\ d \in Dials /\ dial[d] = "idle"
    /\ IF disconnected /\ automatic THEN Moves(d, "refused") /\ UNCHANGED open
       ELSE Moves(d, "borrowed") /\ open' = open + 1
    /\ UNCHANGED <<holder, running, container, idle, disconnected, stops, cause,
                   starter, cancelled, quitting, snap, stopping, sweep>>

\* The profile could not be read, or has no such destination.
AskFails(d) ==
    /\ d \in Dials /\ dial[d] = "idle"
    /\ Moves(d, "failed")
    /\ UNCHANGED <<routeVars, snap, stopping, sweep>>

\* Start notes the stops requested so far and waits for the lock.
Queue(d) ==
    /\ \/ dial[d] = "borrowed"
       \/ d \in Ups /\ dial[d] = "idle"
    /\ snap' = [snap EXCEPT ![d] = stops]
    /\ Moves(d, "queued")
    /\ UNCHANGED <<routeVars, stopping, sweep>>

\* There is no docker, or the context or the engine's lifetime ended before the lock was
\* taken.
GiveUp(d) ==
    /\ dial[d] = "queued"
    /\ StartEnds(d)
    /\ UNCHANGED <<holder, running, container, disconnected, stops, cause, starter,
                   cancelled, quitting, snap, stopping, sweep>>

\* The lock is taken, and beginStart refuses: a stop was requested meanwhile.
Overtaken(d) ==
    /\ dial[d] = "queued" /\ holder = Free /\ stops # snap[d]
    /\ release(d)
    /\ Moves(d, IF cause = "disconnected" THEN "refused" ELSE "failed")
    /\ UNCHANGED <<holder, running, container, disconnected, stops, cause, starter,
                   cancelled, quitting, snap, stopping, sweep>>

\* The connections of a container that goes are dead.
Broken(f) == [u \in Users |-> IF f[u] = "connected" THEN "broken" ELSE f[u]]

\* Mutant: a start does not forget the disconnection.
BeginsRemembering(d) ==
    /\ dial[d] = "queued" /\ holder = Free /\ stops = snap[d]
    /\ UNCHANGED disconnected

\* Mutant: a start does not compare the stops requested since it began to wait.
BeginsRegardless(d) ==
    /\ dial[d] = "queued" /\ holder = Free
    /\ disconnected' = FALSE

\* The lock is taken and beginStart agrees; startLocked forgets a disconnection.
Begins(d) ==
    /\ dial[d] = "queued" /\ holder = Free /\ stops = snap[d]
    /\ disconnected' = FALSE

\* The route is up with this configuration: touch, and the lock is given back.
Serves(d) ==
    /\ Begins(d) /\ running /\ container
    /\ idle' = IF open = 0 THEN FALSE ELSE idle
    /\ Moves(d, Served(d))
    /\ UNCHANGED <<holder, running, container, open, stops, cause, starter, cancelled,
                   quitting, snap, stopping, sweep>>

\* The route is down, or its settings changed: closeRelay, stopContainer, build.
Rebuild(d) ==
    /\ Begins(d)
    /\ holder' = d /\ starter' = d
    /\ running' = FALSE /\ container' = FALSE
    /\ dial' = [Broken(dial) EXCEPT ![d] = "building"]
    /\ UNCHANGED <<open, idle, stops, cause, cancelled, quitting, snap, stopping,
                   sweep>>

\* The profile cannot be read any more, and a disconnection stays remembered, or Docker
\* could not tell whose container it is: nothing has been touched.
BeginFails(d) ==
    /\ dial[d] = "queued" /\ holder = Free /\ stops = snap[d]
    /\ disconnected' \in {disconnected, FALSE}
    /\ release(d)
    /\ Moves(d, "failed")
    /\ UNCHANGED <<holder, running, container, stops, cause, starter, cancelled,
                   quitting, snap, stopping, sweep>>

\* The container is up and its relay is open: markStarted.
Started(d) ==
    /\ dial[d] = "building"
    /\ running' = TRUE /\ container' = TRUE /\ idle' = FALSE
    /\ holder' = Free /\ starter' = Free
    /\ Moves(d, Served(d))
    /\ UNCHANGED <<open, disconnected, stops, cause, cancelled, quitting, snap,
                   stopping, sweep>>

\* The start failed or was cancelled; what it had built is removed.
StartFails(d) ==
    /\ dial[d] = "building"
    /\ StartEnds(d)
    /\ holder' = Free /\ starter' = Free
    /\ UNCHANGED <<running, container, disconnected, stops, cause, cancelled,
                   quitting, snap, stopping, sweep>>

\* connectCounted.
Connect(d) ==
    /\ dial[d] = "connecting" /\ container
    /\ Moves(d, "connected")
    /\ UNCHANGED <<routeVars, snap, stopping, sweep>>

ConnectFails(d) ==
    /\ dial[d] = "connecting"
    /\ release(d)
    /\ Moves(d, "failed")
    /\ UNCHANGED <<holder, running, container, disconnected, stops, cause, starter,
                   cancelled, quitting, snap, stopping, sweep>>

\* countedConnection.Close, counted once.
CloseConnection(d) ==
    /\ dial[d] \in {"connected", "broken"}
    /\ release(d)
    /\ Moves(d, "closed")
    /\ UNCHANGED <<holder, running, container, disconnected, stops, cause, starter,
                   cancelled, quitting, snap, stopping, sweep>>

\* dialRelay: the CLI comes through the relay of a route that is up, without Start.
Relay(d) ==
    /\ d \in Relays /\ dial[d] = "idle" /\ running
    /\ open' = open + 1
    /\ Moves(d, "connecting")
    /\ UNCHANGED <<holder, running, container, idle, disconnected, stops, cause,
                   starter, cancelled, quitting, snap, stopping, sweep>>

(***************************************************************************)
(* Stop, Forget and Disconnect                                             *)
(***************************************************************************)

\* requestStop: counted, and the start under way is cancelled.
RequestStop(c, kind) ==
    /\ stopping[c] = "none" /\ stops < MaxStops
    /\ stops' = stops + 1
    /\ cause' = IF kind = "disconnect" THEN "disconnected" ELSE "stopped"
    /\ CancelStart(cause')
    /\ stopping' = [stopping EXCEPT ![c] = kind]
    /\ UNCHANGED <<holder, running, container, open, idle, disconnected, starter,
                   quitting, userVars, sweep>>

\* The caller's context ended before it had the lock.
StopGivesUp(c) ==
    /\ stopping[c] \in {"stop", "disconnect"}
    /\ stopping' = [stopping EXCEPT ![c] = "none"]
    /\ UNCHANGED <<routeVars, userVars, sweep>>

\* With the lock; a disconnection is remembered before the route is stopped.
StopLocks(c) ==
    /\ stopping[c] \in {"stop", "disconnect"} /\ holder = Free
    /\ holder' = c
    /\ disconnected' = (disconnected \/ stopping[c] = "disconnect")
    /\ stopping' = [stopping EXCEPT ![c] = IF @ = "disconnect" THEN "disconnecting"
                                          ELSE "stopping"]
    /\ UNCHANGED <<running, container, open, idle, stops, cause, starter, cancelled,
                   quitting, userVars, sweep>>

\* stopLocked: the relay, the container, the files.
TakeDown ==
    /\ running' = FALSE /\ container' = FALSE
    /\ dial' = Broken(dial)
    /\ holder' = Free

StopEnds(c) ==
    /\ stopping[c] \in {"stopping", "disconnecting"}
    /\ TakeDown
    /\ stopping' = [stopping EXCEPT ![c] = "none"]
    /\ UNCHANGED <<open, idle, disconnected, stops, cause, starter, cancelled,
                   quitting, snap, sweep>>

\* Docker could not be asked: the route is as it was, and not remembered as
\* disconnected.
StopFails(c) ==
    /\ stopping[c] \in {"stopping", "disconnecting"}
    /\ holder' = Free
    /\ disconnected' = (disconnected /\ stopping[c] # "disconnecting")
    /\ stopping' = [stopping EXCEPT ![c] = "none"]
    /\ UNCHANGED <<running, container, open, idle, stops, cause, starter, cancelled,
                   quitting, userVars, sweep>>

(***************************************************************************)
(* The engine: StopIdle, and Close                                         *)
(***************************************************************************)

\* idleLongerThan, which takes no lock.
idleLongerThan == running /\ open = 0 /\ idle

IdleTimeout ==
    /\ open = 0 /\ ~idle /\ running
    /\ idle' = TRUE
    /\ UNCHANGED <<holder, running, container, open, disconnected, stops, cause,
                   starter, cancelled, quitting, userVars, stopping, sweep>>

SweepLooks ==
    /\ sweep = "none" /\ idleLongerThan
    /\ sweep' = "queued"
    /\ UNCHANGED <<routeVars, userVars, stopping>>

\* Mutant: the sweep acts on what it saw without the lock.
SweepLocksBlind ==
    /\ sweep = "queued" /\ holder = Free
    /\ holder' = Sweeper /\ sweep' = "stopping"
    /\ UNCHANGED <<running, container, open, idle, disconnected, stops, cause,
                   starter, cancelled, quitting, userVars, stopping>>

\* stopIfIdle looks again with the lock.
SweepLocks ==
    /\ sweep = "queued" /\ holder = Free
    /\ IF idleLongerThan THEN holder' = Sweeper /\ sweep' = "stopping"
       ELSE holder' = Free /\ sweep' = "none"
    /\ UNCHANGED <<running, container, open, idle, disconnected, stops, cause,
                   starter, cancelled, quitting, userVars, stopping>>

SweepStops ==
    /\ sweep = "stopping"
    /\ TakeDown
    /\ sweep' = "none"
    /\ UNCHANGED <<open, idle, disconnected, stops, cause, starter, cancelled,
                   quitting, snap, stopping>>

\* Manager.Close: the start under way is cancelled, waiting ones end.
Quit ==
    /\ ~quitting
    /\ quitting' = TRUE
    /\ CancelStart("stopped")
    /\ UNCHANGED <<holder, running, container, open, idle, disconnected, stops, cause,
                   starter, userVars, stopping, sweep>>

(***************************************************************************)
(* What the route promises                                                 *)
(***************************************************************************)

\* The borrow count is exact.  A count too high keeps an unused container for ever,
\* one too low stops a route in use (lifecycle.go, borrow, release and
\* countedConnection, with the early returns of Dial and connectCounted).
OpenIsExact == open = Cardinality(Borrowers)

\* A route remembered as disconnected is down, or its stop is still under way: the
\* automatic reconnections that are refused for it are refused for a reason
\* (manager.go, Disconnect, startLocked and stopLocked).
DisconnectedIsDown ==
    disconnected /\ running => \E c \in Stoppers : holder = c

\* A start that began waiting before a stop was requested does not bring the route
\* up after it, unless the stop found it under way and cancelled it (beginStart and
\* requestStop compare and register in one critical section).
StopWins ==
    [][~running /\ running' => snap[holder] = stops \/ cancelled[holder] # "no"]_vpnVars

\* The supervisor never takes the route from under a Dial, waiting or connected: the
\* Dial borrows before it waits for the lock the supervisor holds (stopIfIdle).
\* Only the CLI's relay borrows without the lock.
SweepSparesDials ==
    [][sweep = "stopping" /\ sweep' = "none" =>
          \A d \in Dials : dial[d] \notin {"building", "connecting", "connected"}]_vpnVars

(***************************************************************************)
(* The route by itself                                                     *)
(***************************************************************************)

DialStep(d) ==
    \/ \E automatic \in BOOLEAN : Ask(d, automatic)
    \/ AskFails(d) \/ Queue(d) \/ GiveUp(d) \/ Overtaken(d)
    \/ Serves(d) \/ Rebuild(d) \/ BeginFails(d) \/ Started(d) \/ StartFails(d)

UserStep(d) == Connect(d) \/ ConnectFails(d) \/ CloseConnection(d) \/ Relay(d)

StopStep(c) ==
    \/ \E kind \in {"stop", "disconnect"} : RequestStop(c, kind)
    \/ StopGivesUp(c) \/ StopLocks(c) \/ StopEnds(c) \/ StopFails(c)

EngineStep == IdleTimeout \/ SweepLooks \/ SweepLocks \/ SweepStops \/ Quit

Next ==
    \/ \E d \in Starters : DialStep(d)
    \/ \E d \in Users : UserStep(d)
    \/ \E c \in Stoppers : StopStep(c)
    \/ EngineStep

Spec == Init /\ [][Next]_vpnVars
=============================================================================

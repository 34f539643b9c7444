----------------------------- MODULE Connections -----------------------------
(***************************************************************************)
(* Terminal sessions whose connections go through a VPN route: the         *)
(* composition of TerminalSessions and VpnRoute, as the engine wires them  *)
(* (internal/app/vpn.go, vpnRoute; internal/sshclient).                    *)
(*                                                                         *)
(* The handshake of every process of a routed session dials through the    *)
(* route.  A dial whose context ended goes on until it notices; a process  *)
(* that ended closes its connection, and that returns the borrow.  An      *)
(* attempt of the automatic reconnection carries that mark in its context. *)
(***************************************************************************)
EXTENDS TerminalSessions

CONSTANTS
    Ups, Relays, Stoppers, Free, Sweeper, MaxStops,   \* of VpnRoute
    RoutedSessions,                \* bound: the sessions opened when there is a route
    PlainRequests, RoutedRequests
                   \* bounds: what users and signals ask for, without and with a route

ASSUME ConnectionsAssumption ==
    /\ Sessions \subseteq Nat /\ RoutedSessions \subseteq Sessions
    /\ PlainRequests \in Nat /\ RoutedRequests \in Nat
    /\ MaxStops \in Nat
    /\ Free # Sweeper

\* Every process makes one connection.
Dials == Sessions \X Processes

\* The users of the route, those who stop it, and the engine are told apart.
ASSUME RouteAssumption ==
    /\ Dials \cap Ups = {} /\ (Dials \cup Ups) \cap Relays = {}
    /\ (Dials \cup Ups \cup Relays) \cap Stoppers = {}
    /\ {Free, Sweeper} \cap (Dials \cup Ups \cup Relays \cup Stoppers) = {}
    /\ IsFiniteSet(Ups \cup Relays)

VARIABLES
    holder, running, container, open, idle, disconnected, stops, cause, starter,
    cancelled, quitting, dial, snap, stopCall, sweep,   \* of VpnRoute
    routed,        \* whether the destination has a VPN profile
    automatic,     \* the processes opened by the automatic reconnection
    requests       \* bound: how many more requests there can be

Vpn == INSTANCE VpnRoute WITH stopping <- stopCall

routeVars == <<holder, running, container, open, idle, disconnected, stops, cause,
               starter, cancelled, quitting, dial, snap, stopCall, sweep>>
allVars == <<vars, routeVars, routed, automatic, requests>>

CInit ==
    /\ Init /\ Vpn!Init
    /\ automatic = [d \in Dials |-> FALSE]
    /\ routed \in BOOLEAN
    /\ requests = IF routed THEN RoutedRequests ELSE PlainRequests

CTypeOK ==
    /\ TypeOK /\ Vpn!TypeOK
    /\ automatic \in [Dials -> BOOLEAN]
    /\ routed \in BOOLEAN /\ requests \in Nat

(***************************************************************************)
(* Who moves                                                               *)
(***************************************************************************)

\* A step of the sessions that does not touch the route.
Aside == UNCHANGED <<routeVars, automatic, routed>>
\* A step of the route that does not touch the sessions.
Below == UNCHANGED <<vars, automatic, routed>>

Asked == requests > 0 /\ requests' = requests - 1
Going == UNCHANGED requests

\* Sessions are numbered in the order they are opened in.
Turn(s) ==
    /\ routed => s \in RoutedSessions
    /\ \A t \in Sessions : t < s => state[t] # "none" \/ call[t] # "none"

Request ==
    /\ Asked
    /\ \/ /\ Aside
          /\ \/ \E s \in Sessions : \/ Turn(s) /\ OpenBegin(s)
                                   \/ ReconnectBegin(s) \/ StopAsk(s) \/ Close(s)
             \/ BeginShutdown \/ ForceClose
       \/ /\ Below /\ routed
          /\ \/ \E c \in Stoppers, kind \in {"stop", "disconnect"} :
                   Vpn!RequestStop(c, kind)
             \/ \E d \in Relays : Vpn!Relay(d)
             \/ \E d \in Ups : Vpn!Queue(d)

\* The sessions' own goroutines.
Sequel(s) ==
    /\ Going /\ Aside
    /\ \/ ReadySeen(s) \/ ChooseAttempt(s) \/ Install(s) \/ Observe(s) \/ Finish(s)
       \/ stopping[s] /\ WaitOver(s)
       \/ \E retry, noNetwork \in BOOLEAN : DialFails(s, retry, noNetwork)

\* A failure caused by a route the user disconnected is never retried.
Ends(s) ==
    /\ Going /\ Aside
    /\ \E fresh, retry, noNetwork \in BOOLEAN :
          /\ routed /\ hand[s] # None /\ dial[<<s, hand[s]>>] = "refused"
                => ~retry /\ ~noNetwork
          /\ ProcessEnds(s, fresh, retry, noNetwork)

\* reopen, in the context of the automatic reconnection.
Reopened(s) ==
    /\ Going /\ UNCHANGED <<routeVars, routed>>
    /\ DialReturns(s)
    /\ automatic' = [automatic EXCEPT ![<<s, Next1(s)>>] = TRUE]

Pumping(s) == Sequel(s) \/ Ends(s) \/ Reopened(s)

Calling(s) ==
    /\ Going /\ Aside
    /\ \/ OpenFails(s) \/ ReconnectFails(s)
       \/ \E gone \in BOOLEAN : OpenReturns(s, gone) \/ ReconnectReturns(s, gone)
       \/ ReconnectPublish(s) \/ StartPump(s) \/ Undo(s)

Stops(s) == Going /\ Aside /\ (StopReconnecting(s) \/ StopAbandons(s))
Closes(s) == Going /\ Aside /\ (CloseStops(s) \/ CloseKills(s) \/ CloseRemoves(s))
HangsUp(s) ==
    /\ Going /\ Aside
    /\ HangupStops(s) \/ \E obeyed \in BOOLEAN : HangupSends(s, obeyed)
Forces(s) == Going /\ Aside /\ (ForceStops(s) \/ ForceKills(s))
Waits == Going /\ Aside /\ (WaitBegins \/ WaitSnapshots \/ WaitReceives)

\* What nothing obliges to happen.
Whim ==
    /\ Going /\ Aside
    /\ \/ \E s \in Sessions : WaitOver(s)
       \/ ListSessions

(***************************************************************************)
(* Processes and their connections                                         *)
(***************************************************************************)

\* A handshake is done over the connection that was dialled; it fails at once when
\* there is none to be had, and over any connection for reasons of its own.
HandshakeEnds(s, p) ==
    /\ Going /\ Aside
    /\ LET d == dial[<<s, p>>]
       IN  \/ (routed => d \in {"connected", "broken"})
                 /\ (HandshakeOk(s, p) \/ HandshakeFails(s, p))
           \/ routed /\ d \in {"failed", "refused"} /\ HandshakeFails(s, p)

ProcessLives(s, p) ==
    /\ Going /\ Aside
    /\ TransportLost(s, p) \/ ProgramExits(s, p)

\* Dial, for a process that was born; its context ends with the process.
Dialing(s, p) ==
    LET d == <<s, p>>
    IN  /\ Going /\ Below
        /\ routed /\ life[s][p] # "unborn"
        /\ \/ Vpn!Ask(d, automatic[d]) \/ Vpn!AskFails(d) \/ Vpn!Queue(d)
           \/ Vpn!GiveUp(d) \/ Vpn!Overtaken(d) \/ Vpn!Serves(d)
           \/ Vpn!Rebuild(d) \/ Vpn!BeginFails(d) \/ Vpn!Started(d)
           \/ Vpn!StartFails(d) \/ Vpn!Connect(d) \/ Vpn!ConnectFails(d)
           \/ ~Alive(s, p) /\ Vpn!CloseConnection(d)

\* `sshc vpn up`, and the CLI's connections through the relay.
CommandLine ==
    /\ Going /\ Below
    /\ \/ \E d \in Ups : \/ Vpn!GiveUp(d) \/ Vpn!Overtaken(d) \/ Vpn!Serves(d)
                         \/ Vpn!Rebuild(d) \/ Vpn!BeginFails(d) \/ Vpn!Started(d)
                         \/ Vpn!StartFails(d)
       \/ \E d \in Relays : Vpn!Connect(d) \/ Vpn!ConnectFails(d)
                            \/ Vpn!CloseConnection(d)

StopsRoute(c) ==
    /\ Going /\ Below
    /\ Vpn!StopLocks(c) \/ Vpn!StopEnds(c) \/ Vpn!StopFails(c)

StopGivesUp(c) == Going /\ Below /\ Vpn!StopGivesUp(c)

\* The engine closes the route's manager after the terminals have been waited for.
Supervises ==
    /\ Going /\ Below
    /\ \/ Vpn!IdleTimeout \/ Vpn!SweepLooks \/ Vpn!SweepLocks \/ Vpn!SweepStops
       \/ wait = "returned" /\ Vpn!Quit

CNext ==
    \/ Request \/ Whim \/ Waits \/ CommandLine \/ Supervises
    \/ \E s \in Sessions :
          \/ Pumping(s) \/ Calling(s) \/ Stops(s) \/ Closes(s) \/ HangsUp(s) \/ Forces(s)
          \/ \E p \in Processes : HandshakeEnds(s, p) \/ ProcessLives(s, p)
                                  \/ Dialing(s, p)
    \/ \E c \in Stoppers : StopsRoute(c) \/ StopGivesUp(c)

(***************************************************************************)
(* Every goroutine of the engine goes on; a dial returns; docker answers.  *)
(* No handshake need end (a prompt waits for the user), no wait for the    *)
(* network either, and no process ends by itself.                          *)
(***************************************************************************)
Fairness ==
    /\ \A s \in Sessions :
          /\ WF_allVars(Pumping(s)) /\ WF_allVars(Calling(s))
          /\ WF_allVars(Closes(s)) /\ WF_allVars(HangsUp(s)) /\ WF_allVars(Forces(s))
          /\ \A p \in Processes : WF_allVars(Dialing(s, p))
    /\ WF_allVars(Waits) /\ WF_allVars(CommandLine) /\ WF_allVars(Supervises)
    /\ \A c \in Stoppers : WF_allVars(StopsRoute(c))

CSpec == CInit /\ [][CNext]_allVars /\ Fairness

(***************************************************************************)
(* What the composition promises                                           *)
(***************************************************************************)

\* The borrow count of the route is exact, with processes killed, reconnected and
\* refused at any point of their dial.
RouteIsAccounted == Vpn!OpenIsExact

\* See DisconnectedIsDown, StopWins and SweepSparesDials in VpnRoute.
DisconnectedIsDown == Vpn!DisconnectedIsDown
StopWins == Vpn!StopWins
SweepSparesDials == Vpn!SweepSparesDials

\* Closing a session ends its processes and returns what they borrowed, so that the
\* route can be stopped when it is idle: through a reconnection, a start that waits for
\* the lock, or a handshake (registry.go Close, sshclient ForceClose, Dial).
CloseGivesBack ==
    \A s \in Sessions :
        discarded[s] ~> /\ AliveOf(s) = {}
                        /\ {<<s, p>> : p \in Processes} \cap Vpn!Borrowers = {}

\* After ForceClose, Wait returns, and then every process left is one a cancelled Open
\* is about to drop or one of a session the user closed: sessions that reconnect, are
\* reopened by hand or ignore SIGHUP do not hold the engine up (registry.go, Wait).
ShutdownEnds ==
    forced ~> /\ wait = "returned"
              /\ \A s \in Sessions :
                    AliveOf(s) = {} \/ call[s] = "undoing" \/ discarded[s]
=============================================================================

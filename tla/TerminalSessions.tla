-------------------------- MODULE TerminalSessions --------------------------
(***************************************************************************)
(* The terminal sessions of one engine (internal/terminal): the registry   *)
(* that opens, reopens, closes and shuts them down, and for every session  *)
(* the pump that reads its process and reconnects a lost transport.        *)
(*                                                                         *)
(* A step is one critical section (registry or session mutex) or one call  *)
(* on a process.  Every caller that reads a field under the mutex and acts *)
(* on it after unlocking has one step for the read and one for the act.    *)
(* Output, titles, problem texts, tmux names and the browser streams are   *)
(* left out: nothing here reads them.                                      *)
(***************************************************************************)
EXTENDS Integers, FiniteSets

CONSTANTS
    Sessions,         \* the sessions that can be opened
    MaxSessions,      \* Limits.MaxSessions
    RetainedExited,   \* how many exited sessions stay listed
    ReconnectLimit,   \* the setting: automatic reconnections per loss, 0 = never
    MaxProcesses      \* bound: processes one session opens in its life

ASSUME SessionsAssumption ==
    /\ IsFiniteSet(Sessions)
    /\ MaxSessions \in Nat \ {0}
    /\ RetainedExited \in Nat
    /\ ReconnectLimit \in Nat
    /\ MaxProcesses \in Nat \ {0}

Processes == 1 .. MaxProcesses
None == 0

VARIABLES
    \* the registry, under its mutex
    list,         \* r.sessions
    place,        \* their order in it, the one they were opened in
    closing,      \* r.closing
    forced,       \* r.forced
    call,         \* the Open or Reconnect under way for a session
    hangup,       \* the Hangup dispatched to a session
    force,        \* the forceClose dispatched to a session
    wait,         \* where Wait is
    waitFor,      \* the sessions whose done Wait is receiving
    \* a session, under its mutex
    state,        \* s.state; "none" before Open returned a process
    process,      \* s.process; None is nil
    seen,         \* s.ready: what the observer of Ready found
    byUser,       \* s.ready.userInitiated
    attempts,     \* s.reconnectAttempts
    stopping,     \* s.stopping is closed
    discarded,    \* s.discarded
    \* its goroutines and the calls on it
    pump,         \* where the pump is
    hand,         \* the process the pump reads, or the caller has just opened
    stop,         \* where StopReconnecting is
    shaking,      \* the handshaking process StopReconnecting saw
    close,        \* where Close is
    \* the processes
    life          \* how far each process of a session has come

registryVars == <<list, place, closing, forced, call, hangup, force, wait, waitFor>>
sessionVars == <<state, process, seen, byUser, attempts, stopping, discarded>>
callVars == <<stop, shaking, close>>
vars == <<registryVars, sessionVars, pump, hand, callVars, life>>

(***************************************************************************)
(* Derived state                                                           *)
(***************************************************************************)

\* Session.Live: opened and not exited.
Live(s) == state[s] \notin {"none", "exited"}

\* stoppedLocked: no process of this session may be published any more.
Stopped(s) == stopping[s] \/ discarded[s]

Alive(s, p) == p # None /\ life[s][p] \in {"handshake", "up"}
AliveOf(s) == {p \in Processes : Alive(s, p)}

\* The entries of r.pending: Opens and Reconnects waiting for their process.
Pending == {s \in Sessions : call[s] \in {"opening", "reopening"}}

\* liveCount: a Reconnect under way is pending and live, and counts once.
liveCount ==
    Cardinality({s \in Sessions : call[s] = "opening"})
        + Cardinality({s \in list : Live(s)})

\* The calls counted in r.outstanding.
outstanding ==
    {s \in Sessions : hangup[s] # "none" \/ force[s] # "none"}

\* prune: discarded exited sessions go, and of the others the newest stay.
prune(l, live) ==
    LET exited == {s \in l \ live : ~discarded[s]}
        newer(s) == {t \in exited : place[t] > place[s]}
    IN  (l \cap live) \cup {s \in exited : Cardinality(newer(s)) < RetainedExited}

LiveSessions == {s \in Sessions : Live(s)}

\* The next process of a session is born in its handshake.
Next1(s) == Cardinality({p \in Processes : life[s][p] # "unborn"}) + 1
Born(s) == life' = [life EXCEPT ![s][Next1(s)] = "handshake"]

\* What is left of a process after ForceClose and Close: a transport reported
\* lost, or a handshake that failed.
Cut(s, p) == IF life[s][p] = "handshake" THEN "refused"
             ELSE IF life[s][p] = "up" THEN "lost" ELSE life[s][p]
abandonProcess(s, p) ==
    life' = IF p = None THEN life ELSE [life EXCEPT ![s][p] = Cut(s, p)]

TypeOK ==
    /\ list \in SUBSET Sessions /\ place \in [Sessions -> Nat]
    /\ closing \in BOOLEAN /\ forced \in BOOLEAN
    /\ call \in [Sessions -> {"none", "opening", "reopening", "reopened",
                              "published", "undoing"}]
    /\ hangup \in [Sessions -> {"none", "due", "stopped"}]
    /\ force \in [Sessions -> {"none", "due", "stopped"}]
    /\ wait \in {"none", "outstanding", "sessions", "returned"}
    /\ waitFor \in SUBSET Sessions
    /\ state \in [Sessions -> {"none", "connecting", "connected", "reconnecting",
                               "exited"}]
    /\ process \in [Sessions -> Processes \cup {None}]
    /\ seen \in [Sessions -> {"none", "pending", "ok", "failed"}]
    /\ byUser \in [Sessions -> BOOLEAN]
    /\ attempts \in [Sessions -> 0 .. ReconnectLimit]
    /\ stopping \in [Sessions -> BOOLEAN]
    /\ discarded \in [Sessions -> BOOLEAN]
    /\ pump \in [Sessions -> {"off", "reading", "choosing", "waiting", "dialing",
                              "opened", "installed", "finishing"}]
    /\ hand \in [Sessions -> Processes \cup {None}]
    /\ stop \in [Sessions -> {"none", "asked", "abandoning"}]
    /\ shaking \in [Sessions -> Processes \cup {None}]
    /\ close \in [Sessions -> {"none", "discarded", "stopped", "killed"}]
    /\ life \in [Sessions -> [Processes ->
                    {"unborn", "handshake", "up", "refused", "lost", "ended"}]]

Init ==
    /\ list = {} /\ place = [s \in Sessions |-> 0]
    /\ closing = FALSE /\ forced = FALSE
    /\ call = [s \in Sessions |-> "none"]
    /\ hangup = [s \in Sessions |-> "none"]
    /\ force = [s \in Sessions |-> "none"]
    /\ wait = "none" /\ waitFor = {}
    /\ state = [s \in Sessions |-> "none"]
    /\ process = [s \in Sessions |-> None]
    /\ seen = [s \in Sessions |-> "none"]
    /\ byUser = [s \in Sessions |-> FALSE]
    /\ attempts = [s \in Sessions |-> 0]
    /\ stopping = [s \in Sessions |-> FALSE]
    /\ discarded = [s \in Sessions |-> FALSE]
    /\ pump = [s \in Sessions |-> "off"]
    /\ hand = [s \in Sessions |-> None]
    /\ stop = [s \in Sessions |-> "none"]
    /\ shaking = [s \in Sessions |-> None]
    /\ close = [s \in Sessions |-> "none"]
    /\ life = [s \in Sessions |-> [p \in Processes |-> "unborn"]]

(***************************************************************************)
(* Processes.  Dialer.Open returns a process before its handshake.         *)
(***************************************************************************)

Becomes(s, p, from, to) ==
    /\ life[s][p] = from
    /\ life' = [life EXCEPT ![s][p] = to]
    /\ UNCHANGED <<registryVars, sessionVars, pump, hand, callVars>>

HandshakeOk(s, p) == Becomes(s, p, "handshake", "up")
HandshakeFails(s, p) == Becomes(s, p, "handshake", "refused")
TransportLost(s, p) == Becomes(s, p, "up", "lost")
ProgramExits(s, p) == Becomes(s, p, "up", "ended")

\* Mutant: the observer does not ask whether the session was closed.
ReadySeenBlind(s) ==
    /\ seen[s] = "pending" /\ life[s][hand[s]] # "handshake"
    /\ seen' = [seen EXCEPT ![s] = IF life[s][hand[s]] # "refused" THEN "ok"
                                   ELSE "failed"]
    /\ state' = [state EXCEPT ![s] = IF seen'[s] = "ok" THEN "connected" ELSE @]
    /\ UNCHANGED <<registryVars, process, byUser, attempts, stopping, discarded,
                   pump, hand, callVars, life>>

\* The goroutine observeProcess starts: Ready closed, so the state may be set.
ReadySeen(s) ==
    /\ seen[s] = "pending" /\ life[s][hand[s]] # "handshake"
    /\ LET ok == life[s][hand[s]] # "refused"
       IN  /\ seen' = [seen EXCEPT ![s] = IF ok THEN "ok" ELSE "failed"]
           /\ state' = IF ok /\ ~Stopped(s) /\ state[s] # "exited"
                       THEN [state EXCEPT ![s] = "connected"] ELSE state
    /\ UNCHANGED <<registryVars, process, byUser, attempts, stopping, discarded,
                   pump, hand, callVars, life>>

(***************************************************************************)
(* Registry.Open and Registry.Reconnect                                    *)
(***************************************************************************)

OpenBegin(s) ==
    /\ ~closing /\ state[s] = "none" /\ call[s] = "none"
    /\ liveCount < MaxSessions
    /\ call' = [call EXCEPT ![s] = "opening"]
    /\ UNCHANGED <<list, place, closing, forced, hangup, force, wait, waitFor,
                   sessionVars, pump, hand, callVars, life>>

OpenFails(s) ==
    /\ call[s] = "opening"
    /\ call' = [call EXCEPT ![s] = "none"]
    /\ UNCHANGED <<list, place, closing, forced, hangup, force, wait, waitFor,
                   sessionVars, pump, hand, callVars, life>>

\* The process is there; gone says that the request was cancelled meanwhile.
OpenReturns(s, gone) ==
    /\ call[s] = "opening" /\ Next1(s) \in Processes
    /\ Born(s)
    /\ hand' = [hand EXCEPT ![s] = Next1(s)]
    /\ IF closing \/ gone
       THEN /\ call' = [call EXCEPT ![s] = "undoing"]
            /\ UNCHANGED <<list, place, state, process>>
       ELSE /\ call' = [call EXCEPT ![s] = "published"]
            /\ list' = prune(list \cup {s}, LiveSessions \cup {s})
            /\ place' = [place EXCEPT ![s] =
                            Cardinality({t \in Sessions : place[t] > 0}) + 1]
            /\ state' = [state EXCEPT ![s] = "connecting"]
            /\ process' = [process EXCEPT ![s] = Next1(s)]
    /\ UNCHANGED <<closing, forced, hangup, force, wait, waitFor, seen, byUser,
                   attempts, stopping, discarded, pump, callVars>>

\* Mutant: a manual reconnection does not count against the limit.
ReconnectBeginUncounted(s) ==
    /\ ~closing /\ s \in list
    /\ state[s] = "exited" /\ ~discarded[s] /\ call[s] = "none"
    /\ call' = [call EXCEPT ![s] = "reopening"]
    /\ state' = [state EXCEPT ![s] = "connecting"]
    /\ process' = [process EXCEPT ![s] = None]
    /\ attempts' = [attempts EXCEPT ![s] = 0]
    /\ stopping' = [stopping EXCEPT ![s] = FALSE]
    /\ UNCHANGED <<list, place, closing, forced, hangup, force, wait, waitFor, seen,
                   byUser, discarded, pump, hand, callVars, life>>

\* prepareManualReconnect, under the registry's mutex: a fresh stopping channel.
ReconnectBegin(s) ==
    /\ ~closing /\ s \in list /\ liveCount < MaxSessions
    /\ state[s] = "exited" /\ ~discarded[s] /\ call[s] = "none"
    /\ call' = [call EXCEPT ![s] = "reopening"]
    /\ state' = [state EXCEPT ![s] = "connecting"]
    /\ process' = [process EXCEPT ![s] = None]
    /\ attempts' = [attempts EXCEPT ![s] = 0]
    /\ stopping' = [stopping EXCEPT ![s] = FALSE]
    /\ UNCHANGED <<list, place, closing, forced, hangup, force, wait, waitFor, seen,
                   byUser, discarded, pump, hand, callVars, life>>

\* reopen failed: unreserve, then failManualReconnect.
ReconnectFails(s) ==
    /\ call[s] = "reopening"
    /\ call' = [call EXCEPT ![s] = "none"]
    /\ state' = [state EXCEPT ![s] = "exited"]
    /\ process' = [process EXCEPT ![s] = None]
    /\ UNCHANGED <<list, place, closing, forced, hangup, force, wait, waitFor, seen,
                   byUser, attempts, stopping, discarded, pump, hand, callVars,
                   life>>

ReconnectReturns(s, gone) ==
    /\ call[s] = "reopening" /\ Next1(s) \in Processes
    /\ Born(s)
    /\ hand' = [hand EXCEPT ![s] = Next1(s)]
    /\ call' = [call EXCEPT ![s] = IF closing \/ gone THEN "undoing"
                                   ELSE "reopened"]
    /\ UNCHANGED <<list, place, closing, forced, hangup, force, wait, waitFor,
                   sessionVars, pump, callVars>>

\* completeManualReconnect: not after a close, a stop or a shutdown.
ReconnectPublish(s) ==
    /\ call[s] = "reopened"
    /\ IF Stopped(s) \/ state[s] # "connecting"
       THEN call' = [call EXCEPT ![s] = "undoing"] /\ UNCHANGED process
       ELSE /\ call' = [call EXCEPT ![s] = "published"]
            /\ process' = [process EXCEPT ![s] = hand[s]]
    /\ UNCHANGED <<list, place, closing, forced, hangup, force, wait, waitFor, state,
                   seen, byUser, attempts, stopping, discarded, pump, hand,
                   callVars, life>>

\* observeProcess(StateConnecting) and startPump.
StartPump(s) ==
    /\ call[s] = "published"
    /\ call' = [call EXCEPT ![s] = "none"]
    /\ seen' = [seen EXCEPT ![s] = "pending"]
    /\ byUser' = [byUser EXCEPT ![s] = TRUE]
    /\ state' = [state EXCEPT ![s] = "connecting"]
    /\ pump' = [pump EXCEPT ![s] = "reading"]
    /\ UNCHANGED <<list, place, closing, forced, hangup, force, wait, waitFor, process,
                   attempts, stopping, discarded, hand, callVars, life>>

\* Registry.discard, and failManualReconnect when it was a Reconnect.
Undo(s) ==
    /\ call[s] = "undoing"
    /\ call' = [call EXCEPT ![s] = "none"]
    /\ abandonProcess(s, hand[s])
    /\ hand' = [hand EXCEPT ![s] = None]
    /\ IF state[s] = "none" THEN UNCHANGED <<state, process>>
       ELSE /\ state' = [state EXCEPT ![s] = "exited"]
            /\ process' = [process EXCEPT ![s] = None]
    /\ UNCHANGED <<list, place, closing, forced, hangup, force, wait, waitFor, seen,
                   byUser, attempts, stopping, discarded, pump, callVars>>

\* Registry.Sessions: listing drops what prune drops.
ListSessions ==
    /\ list' = prune(list, LiveSessions)
    /\ UNCHANGED <<place, closing, forced, call, hangup, force, wait, waitFor,
                   sessionVars, pump, hand, callVars, life>>

(***************************************************************************)
(* The pump                                                                *)
(***************************************************************************)

Goes(s, to) == pump' = [pump EXCEPT ![s] = to]

\* A failure that found no network gives its attempt back.
Refund(n, noNetwork) == IF noNetwork /\ n > 0 THEN n - 1 ELSE n

\* The output ended, Wait and Ready have answered.  A connection that had settled,
\* or was lost to a change of network (fresh), starts its budget again; a failed
\* handshake is retried only if it was an automatic attempt and may be.
ProcessEnds(s, fresh, retry, noNetwork) ==
    LET end == life[s][hand[s]]
    IN  /\ pump[s] = "reading" /\ ~Alive(s, hand[s])
        /\ seen[s] \in {"ok", "failed"}
        /\ attempts' =
              [attempts EXCEPT ![s] =
                  IF seen[s] = "ok" THEN (IF fresh THEN 0 ELSE @)
                  ELSE IF byUser[s] THEN @ ELSE Refund(@, noNetwork)]
        /\ Goes(s, IF \/ seen[s] = "ok" /\ end = "lost"
                      \/ seen[s] = "failed" /\ ~byUser[s] /\ retry
                   THEN "choosing" ELSE "finishing")
        /\ UNCHANGED <<registryVars, state, process, seen, byUser, stopping,
                       discarded, hand, callVars, life>>

\* Mutant: one attempt too many.
ChooseAttemptTooMany(s) ==
    /\ pump[s] = "choosing"
    /\ IF attempts[s] > ReconnectLimit \/ Stopped(s)
       THEN Goes(s, "finishing") /\ UNCHANGED <<state, process>>
       ELSE /\ Goes(s, "waiting")
            /\ state' = [state EXCEPT ![s] = "reconnecting"]
            /\ process' = [process EXCEPT ![s] = None]
    /\ UNCHANGED <<registryVars, seen, byUser, attempts, stopping, discarded, hand,
                   callVars, life>>

\* nextReconnectAttempt, and showReconnectingLocked when there is one.
ChooseAttempt(s) ==
    /\ pump[s] = "choosing"
    /\ IF attempts[s] >= ReconnectLimit \/ Stopped(s)
       THEN Goes(s, "finishing") /\ UNCHANGED <<state, process>>
       ELSE /\ Goes(s, "waiting")
            /\ state' = [state EXCEPT ![s] = "reconnecting"]
            /\ process' = [process EXCEPT ![s] = None]
    /\ UNCHANGED <<registryVars, seen, byUser, attempts, stopping, discarded, hand,
                   callVars, life>>

\* The wait is over by the clock, by the network or by stopping; reopenForReconnect
\* looks at stoppedLocked before it dials.
WaitOver(s) ==
    /\ pump[s] = "waiting"
    /\ Goes(s, IF Stopped(s) THEN "finishing" ELSE "dialing")
    /\ UNCHANGED <<registryVars, sessionVars, hand, callVars, life>>

\* reopen returned a process; it is dropped if the decision fell meanwhile.
DialReturns(s) ==
    /\ pump[s] = "dialing" /\ Next1(s) \in Processes
    /\ IF Stopped(s)
       THEN /\ life' = [life EXCEPT ![s][Next1(s)] = "refused"]
            /\ Goes(s, "finishing") /\ UNCHANGED hand
       ELSE /\ Born(s) /\ Goes(s, "opened")
            /\ hand' = [hand EXCEPT ![s] = Next1(s)]
    /\ UNCHANGED <<registryVars, sessionVars, callVars>>

\* recordReopenFailure.
DialFails(s, retry, noNetwork) ==
    /\ pump[s] = "dialing"
    /\ attempts' = [attempts EXCEPT ![s] = Refund(@ + 1, noNetwork)]
    /\ Goes(s, IF retry THEN "choosing" ELSE "finishing")
    /\ UNCHANGED <<registryVars, state, process, seen, byUser, stopping, discarded,
                   hand, callVars, life>>

\* Mutant: a process that may not be installed is forgotten instead of ended.
InstallForgets(s) ==
    /\ pump[s] = "opened"
    /\ IF Stopped(s)
       THEN Goes(s, "finishing") /\ UNCHANGED <<process, attempts>>
       ELSE /\ process' = [process EXCEPT ![s] = hand[s]]
            /\ attempts' = [attempts EXCEPT ![s] = @ + 1]
            /\ Goes(s, "installed")
    /\ UNCHANGED <<registryVars, state, seen, byUser, stopping, discarded, hand,
                   callVars, life>>

\* installReconnectedProcess, its critical section.
Install(s) ==
    /\ pump[s] = "opened"
    /\ IF Stopped(s)
       THEN /\ abandonProcess(s, hand[s])
            /\ Goes(s, "finishing") /\ UNCHANGED <<process, attempts>>
       ELSE /\ process' = [process EXCEPT ![s] = hand[s]]
            /\ attempts' = [attempts EXCEPT ![s] = @ + 1]
            /\ Goes(s, "installed") /\ UNCHANGED life
    /\ UNCHANGED <<registryVars, state, seen, byUser, stopping, discarded, hand,
                   callVars>>

\* observeProcess(StateReconnecting).
Observe(s) ==
    /\ pump[s] = "installed"
    /\ seen' = [seen EXCEPT ![s] = "pending"]
    /\ byUser' = [byUser EXCEPT ![s] = FALSE]
    /\ state' = [state EXCEPT ![s] = "reconnecting"]
    /\ Goes(s, "reading")
    /\ UNCHANGED <<registryVars, process, attempts, stopping, discarded, hand,
                   callVars, life>>

\* finish, and the close of done that the pump deferred.
Finish(s) ==
    /\ pump[s] = "finishing"
    /\ state' = [state EXCEPT ![s] = "exited"]
    /\ Goes(s, "off")
    /\ hand' = [hand EXCEPT ![s] = None]
    /\ UNCHANGED <<registryVars, process, seen, byUser, attempts, stopping,
                   discarded, callVars, life>>

(***************************************************************************)
(* What the user asks of an open session                                   *)
(***************************************************************************)

\* StopReconnecting, first critical section.
StopAsk(s) ==
    /\ s \in list /\ stop[s] = "none" /\ state[s] = "reconnecting"
    /\ stop' = [stop EXCEPT ![s] = "asked"]
    /\ shaking' = [shaking EXCEPT ![s] = IF seen[s] = "pending" THEN process[s]
                                        ELSE None]
    /\ UNCHANGED <<registryVars, sessionVars, pump, hand, close, life>>

\* stopReconnecting: whatever channel s.stopping holds by now is closed.
StopReconnecting(s) ==
    /\ stop[s] = "asked"
    /\ stopping' = [stopping EXCEPT ![s] = TRUE]
    /\ stop' = [stop EXCEPT ![s] = IF shaking[s] = None THEN "none" ELSE "abandoning"]
    /\ UNCHANGED <<registryVars, state, process, seen, byUser, attempts, discarded,
                   pump, hand, shaking, close, life>>

StopAbandons(s) ==
    /\ stop[s] = "abandoning"
    /\ abandonProcess(s, shaking[s])
    /\ stop' = [stop EXCEPT ![s] = "none"]
    /\ shaking' = [shaking EXCEPT ![s] = None]
    /\ UNCHANGED <<registryVars, sessionVars, pump, hand, close>>

\* Registry.Close: Discard.
Close(s) ==
    /\ s \in list /\ close[s] = "none"
    /\ discarded' = [discarded EXCEPT ![s] = TRUE]
    /\ close' = [close EXCEPT ![s] = "discarded"]
    /\ UNCHANGED <<registryVars, state, process, seen, byUser, attempts, stopping,
                   pump, hand, stop, shaking, life>>

\* forceClose of a live session: stopReconnecting, then the process it reads.
CloseStops(s) ==
    /\ close[s] = "discarded"
    /\ stopping' = IF Live(s) THEN [stopping EXCEPT ![s] = TRUE] ELSE stopping
    /\ close' = [close EXCEPT ![s] = IF Live(s) THEN "stopped" ELSE "killed"]
    /\ UNCHANGED <<registryVars, state, process, seen, byUser, attempts, discarded,
                   pump, hand, stop, shaking, life>>

\* Mutant: a process in its handshake is left to end by itself.
CloseSparesHandshakes(s) ==
    /\ close[s] = "stopped"
    /\ abandonProcess(s, IF state[s] = "exited" \/ seen[s] = "pending" THEN None
                         ELSE process[s])
    /\ close' = [close EXCEPT ![s] = "killed"]
    /\ UNCHANGED <<registryVars, sessionVars, pump, hand, stop, shaking>>

CloseKills(s) ==
    /\ close[s] = "stopped"
    /\ abandonProcess(s, IF state[s] = "exited" THEN None ELSE process[s])
    /\ close' = [close EXCEPT ![s] = "killed"]
    /\ UNCHANGED <<registryVars, sessionVars, pump, hand, stop, shaking>>

CloseRemoves(s) ==
    /\ close[s] = "killed"
    /\ close' = [close EXCEPT ![s] = "none"]
    /\ list' = list \ {s}
    /\ UNCHANGED <<place, closing, forced, call, hangup, force, wait, waitFor,
                   sessionVars, pump, hand, stop, shaking, life>>

(***************************************************************************)
(* Shutdown                                                                *)
(***************************************************************************)

BeginShutdown ==
    /\ ~closing
    /\ closing' = TRUE
    /\ hangup' = [s \in Sessions |-> IF s \in list THEN "due" ELSE hangup[s]]
    /\ UNCHANGED <<list, place, forced, call, force, wait, waitFor, sessionVars, pump,
                   hand, callVars, life>>

HangupStops(s) ==
    /\ hangup[s] = "due"
    /\ hangup' = [hangup EXCEPT ![s] = "stopped"]
    /\ stopping' = [stopping EXCEPT ![s] = TRUE]
    /\ UNCHANGED <<list, place, closing, forced, call, force, wait, waitFor, state,
                   process, seen, byUser, attempts, discarded, pump, hand, callVars,
                   life>>

\* A SIGHUP the process may ignore; a handshake is closed.
HangupSends(s, obeyed) ==
    /\ hangup[s] = "stopped"
    /\ hangup' = [hangup EXCEPT ![s] = "none"]
    /\ LET ignored == process[s] # None /\ life[s][process[s]] = "up" /\ ~obeyed
       IN  abandonProcess(s, IF state[s] = "exited" \/ ignored THEN None
                             ELSE process[s])
    /\ UNCHANGED <<list, place, closing, forced, call, force, wait, waitFor, sessionVars,
                   pump, hand, callVars>>

ForceClose ==
    /\ ~forced
    /\ forced' = TRUE /\ closing' = TRUE
    /\ force' = [s \in Sessions |-> IF s \in list THEN "due" ELSE force[s]]
    /\ UNCHANGED <<list, place, call, hangup, wait, waitFor, sessionVars, pump, hand,
                   callVars, life>>

\* Mutant: a forced close does not end the wait for the next attempt.
ForceLeavesWaiting(s) ==
    /\ force[s] = "due"
    /\ force' = [force EXCEPT ![s] = "stopped"]
    /\ UNCHANGED <<list, place, closing, forced, call, hangup, wait, waitFor, sessionVars,
                   pump, hand, callVars, life>>

ForceStops(s) ==
    /\ force[s] = "due"
    /\ force' = [force EXCEPT ![s] = "stopped"]
    /\ stopping' = [stopping EXCEPT ![s] = TRUE]
    /\ UNCHANGED <<list, place, closing, forced, call, hangup, wait, waitFor, state,
                   process, seen, byUser, attempts, discarded, pump, hand, callVars,
                   life>>

ForceKills(s) ==
    /\ force[s] = "stopped"
    /\ force' = [force EXCEPT ![s] = "none"]
    /\ abandonProcess(s, IF state[s] = "exited" THEN None ELSE process[s])
    /\ UNCHANGED <<list, place, closing, forced, call, hangup, wait, waitFor, sessionVars,
                   pump, hand, callVars>>

\* Wait: the calls and the pending opens, then every session's done, then again.
WaitBegins ==
    /\ closing /\ wait = "none"
    /\ wait' = "outstanding"
    /\ UNCHANGED <<list, place, closing, forced, call, hangup, force, waitFor, sessionVars,
                   pump, hand, callVars, life>>

WaitSnapshots ==
    /\ wait = "outstanding" /\ outstanding = {} /\ Pending = {}
    /\ wait' = "sessions" /\ waitFor' = list
    /\ UNCHANGED <<list, place, closing, forced, call, hangup, force, sessionVars, pump,
                   hand, callVars, life>>

WaitReceives ==
    /\ wait = "sessions" /\ \A s \in waitFor : state[s] = "exited"
    /\ wait' = IF outstanding = {} /\ Pending = {}
                  /\ Cardinality(list) = Cardinality(waitFor)
               THEN "returned" ELSE "outstanding"
    /\ UNCHANGED <<list, place, closing, forced, call, hangup, force, waitFor, sessionVars,
                   pump, hand, callVars, life>>

(***************************************************************************)
(* What the sessions promise                                               *)
(***************************************************************************)

\* Every process that runs is in the hands of exactly one goroutine that will read it
\* to its end or discard it: no shell is left behind by a reconnection, a close, a
\* stop or a shutdown that crossed each other (reopenForReconnect,
\* installReconnectedProcess, completeManualReconnect, Registry.Open).
EveryProcessIsHeld ==
    \A s \in Sessions : \A p \in AliveOf(s) :
        /\ p = hand[s]
        /\ \/ pump[s] \in {"opened", "installed", "reading"} /\ call[s] = "none"
           \/ pump[s] = "off" /\ call[s] \in {"reopened", "published", "undoing"}

\* Sessions being opened, live and being reopened by hand never exceed the limit,
\* whatever is in flight when it is checked (Registry.Open, Reconnect, liveCount).
WithinLimit == liveCount <= MaxSessions

\* What runs has an owner, and what is counted fits.
ProcessesAreAccounted == EveryProcessIsHeld /\ WithinLimit

\* Once the user closed a session no process is published in it and it does not
\* become connected again, however far a reconnection had come (stoppedLocked).
ClosedStaysClosed ==
    [][\A s \in Sessions : discarded[s] =>
          /\ process'[s] \in {process[s], None}
          /\ state'[s] = "connected" => state[s] = "connected"]_vars

(***************************************************************************)
(* The sessions by themselves                                              *)
(***************************************************************************)

ProcessStep(s) ==
    \E p \in Processes : HandshakeOk(s, p) \/ HandshakeFails(s, p)
                            \/ TransportLost(s, p) \/ ProgramExits(s, p)

CallStep(s) ==
    \/ OpenBegin(s) \/ OpenFails(s) \/ \E gone \in BOOLEAN : OpenReturns(s, gone)
    \/ ReconnectBegin(s) \/ ReconnectFails(s)
    \/ \E gone \in BOOLEAN : ReconnectReturns(s, gone)
    \/ ReconnectPublish(s) \/ StartPump(s) \/ Undo(s)

PumpStep(s) ==
    \/ ReadySeen(s)
    \/ \E fresh, retry, noNetwork \in BOOLEAN : ProcessEnds(s, fresh, retry, noNetwork)
    \/ ChooseAttempt(s) \/ WaitOver(s) \/ DialReturns(s)
    \/ \E retry, noNetwork \in BOOLEAN : DialFails(s, retry, noNetwork)
    \/ Install(s) \/ Observe(s) \/ Finish(s)

UserCall(s) ==
    \/ StopAsk(s) \/ StopReconnecting(s) \/ StopAbandons(s)
    \/ Close(s) \/ CloseStops(s) \/ CloseKills(s) \/ CloseRemoves(s)

ShutdownStep ==
    \/ BeginShutdown \/ ForceClose \/ WaitBegins \/ WaitSnapshots \/ WaitReceives
    \/ \E s \in Sessions :
          \/ HangupStops(s) \/ \E obeyed \in BOOLEAN : HangupSends(s, obeyed)
          \/ ForceStops(s) \/ ForceKills(s)

Next ==
    \/ \E s \in Sessions : ProcessStep(s) \/ CallStep(s) \/ PumpStep(s) \/ UserCall(s)
    \/ ListSessions \/ ShutdownStep

Spec == Init /\ [][Next]_vars
=============================================================================

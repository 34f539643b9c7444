-------------------------- MODULE ConnectionsProofs --------------------------
(***************************************************************************)
(* What the sessions and the route promise, proved of their composition    *)
(* for any number of sessions, processes, users and callers of the route.  *)
(*                                                                         *)
(* The sessions first: a session has one owner at a time, a call of Open   *)
(* or Reconnect or its pump; a session with a pump is live; and only the   *)
(* owner has a running process in its hands.  The limit on live sessions   *)
(* and the bound on the attempts follow from that order.                   *)
(*                                                                         *)
(* Then the two together: every step of Connections is a step of           *)
(* TerminalSessions or none, and a step of VpnRoute or none, so that both  *)
(* inductive invariants hold of it, and the promises of the parts follow.  *)
(***************************************************************************)
EXTENDS Connections, FiniteSetTheorems, TLAPS

-----------------------------------------------------------------------------
(* The sessions *)

\* How the owner of a session, its state and its attempts belong together.
ControlOK(s) ==
  /\ call[s] # "none" => pump[s] = "off"
  /\ call[s] = "opening" => state[s] = "none"
  /\ call[s] \in {"reopening", "reopened", "published"} => state[s] = "connecting"
  /\ pump[s] # "off" => state[s] \notin {"none", "exited"}
  /\ pump[s] \in {"waiting", "dialing", "opened"} => attempts[s] < ReconnectLimit
  /\ seen[s] = "pending" => pump[s] = "reading"
  /\ s \in list \/ discarded[s] => state[s] # "none"

\* EveryProcessIsHeld, for one session.
Held(s) ==
  \A p \in AliveOf(s) :
     /\ p = hand[s]
     /\ \/ pump[s] \in {"opened", "installed", "reading"} /\ call[s] = "none"
        \/ pump[s] = "off" /\ call[s] \in {"reopened", "published", "undoing"}

SessionOK(s) == ControlOK(s) /\ Held(s)

SessionsInv == TypeOK /\ (\A s \in Sessions : SessionOK(s)) /\ WithinLimit

-----------------------------------------------------------------------------
(* Helpers *)

\* What SessionOK reads of a session stays as it is.
Same(t) ==
  /\ call'[t] = call[t] /\ pump'[t] = pump[t] /\ state'[t] = state[t]
  /\ seen'[t] = seen[t] /\ attempts'[t] = attempts[t] /\ hand'[t] = hand[t]
  /\ life'[t] = life[t] /\ discarded'[t] = discarded[t]
  /\ t \in list' => t \in list

LEMMA SessionFrame ==
  ASSUME NEW t \in Sessions, SessionOK(t), Same(t)
  PROVE  SessionOK(t)'
  BY DEF SessionOK, ControlOK, Held, AliveOf, Alive, Same

\* No session joins the ones that are being opened or are live.
Quiet ==
  \A t \in Sessions : /\ call'[t] = "opening" => call[t] = "opening"
                      /\ t \in list' /\ Live(t)' => t \in list /\ Live(t)

LEMMA LimitKept ==
  ASSUME TypeOK, list' \subseteq Sessions, WithinLimit, Quiet
  PROVE  WithinLimit'
  <1> DEFINE Opening == {s \in Sessions : call[s] = "opening"}
             Running == {s \in list : Live(s)}
  <1>1. IsFiniteSet(Sessions) BY SessionsAssumption
  <1>2. /\ Opening' \subseteq Opening /\ Running' \subseteq Running
        /\ Opening \subseteq Sessions /\ Running \subseteq Sessions
    BY DEF Quiet, TypeOK
  <1>3. /\ IsFiniteSet(Opening) /\ IsFiniteSet(Running)
        /\ IsFiniteSet(Opening') /\ IsFiniteSet(Running')
    BY <1>1, <1>2, FS_Subset
  <1>4. /\ Cardinality(Opening') <= Cardinality(Opening)
        /\ Cardinality(Running') <= Cardinality(Running)
    BY <1>2, <1>3, FS_Subset
  <1>5. /\ Cardinality(Opening) \in Nat /\ Cardinality(Running) \in Nat
        /\ Cardinality(Opening') \in Nat /\ Cardinality(Running') \in Nat
    BY <1>3, FS_CardinalityType
  <1>6. liveCount = Cardinality(Opening) + Cardinality(Running)
        /\ liveCount' = Cardinality(Opening') + Cardinality(Running')
    BY DEF liveCount
  <1> HIDE DEF Opening, Running
  <1> QED BY <1>4, <1>5, <1>6, SessionsAssumption DEF WithinLimit

\* One more session is being opened or live, and there was room for it.
LEMMA LimitJoined ==
  ASSUME TypeOK, NEW s \in Sessions, WithinLimit, liveCount < MaxSessions,
         \/ /\ \A t \in Sessions : call'[t] = "opening" => call[t] = "opening" \/ t = s
            /\ \A t \in list' : Live(t)' => t \in list /\ Live(t)
         \/ /\ \A t \in Sessions : call'[t] = "opening" => call[t] = "opening"
            /\ \A t \in list' : Live(t)' => (t \in list /\ Live(t)) \/ t = s,
         list' \subseteq Sessions
  PROVE  WithinLimit'
  <1> DEFINE Opening == {t \in Sessions : call[t] = "opening"}
             Running == {t \in list : Live(t)}
  <1>1. IsFiniteSet(Sessions) BY SessionsAssumption
  <1>2. /\ \/ Opening' \subseteq Opening \cup {s} /\ Running' \subseteq Running
           \/ Opening' \subseteq Opening /\ Running' \subseteq Running \cup {s}
        /\ Opening \subseteq Sessions /\ Running \subseteq Sessions
        /\ Opening' \subseteq Sessions /\ Running' \subseteq Sessions
    BY DEF TypeOK
  <1>3. /\ IsFiniteSet(Opening) /\ IsFiniteSet(Running)
        /\ IsFiniteSet(Opening') /\ IsFiniteSet(Running')
    BY <1>1, <1>2, FS_Subset
  <1>4. /\ Cardinality(Opening) \in Nat /\ Cardinality(Running) \in Nat
        /\ Cardinality(Opening') \in Nat /\ Cardinality(Running') \in Nat
    BY <1>3, FS_CardinalityType
  <1>7. \A S : IsFiniteSet(S) => /\ IsFiniteSet(S \cup {s})
                                 /\ Cardinality(S \cup {s}) \in Nat
                                 /\ Cardinality(S \cup {s}) <= Cardinality(S) + 1
    <2>1. SUFFICES ASSUME NEW S, IsFiniteSet(S)
                   PROVE  /\ IsFiniteSet(S \cup {s})
                          /\ Cardinality(S \cup {s}) \in Nat
                          /\ Cardinality(S \cup {s}) <= Cardinality(S) + 1
      OBVIOUS
    <2>2. Cardinality(S) \in Nat BY <2>1, FS_CardinalityType
    <2>3. /\ IsFiniteSet(S \cup {s})
          /\ Cardinality(S \cup {s}) = IF s \in S THEN Cardinality(S) ELSE Cardinality(S) + 1
      BY <2>1, FS_AddElement
    <2> QED BY <2>2, <2>3
  <1>5. \/ Cardinality(Opening') <= Cardinality(Opening \cup {s})
           /\ Cardinality(Running') <= Cardinality(Running)
        \/ Cardinality(Opening') <= Cardinality(Opening)
           /\ Cardinality(Running') <= Cardinality(Running \cup {s})
    <2>1. IsFiniteSet(Opening \cup {s}) /\ IsFiniteSet(Running \cup {s})
      BY <1>3, <1>7
    <2> HIDE DEF Opening, Running
    <2>2. CASE Opening' \subseteq Opening \cup {s} /\ Running' \subseteq Running
      BY <1>3, <2>1, <2>2, FS_Subset
    <2>3. CASE Opening' \subseteq Opening /\ Running' \subseteq Running \cup {s}
      BY <1>3, <2>1, <2>3, FS_Subset
    <2> QED BY <1>2, <2>2, <2>3
  <1>6. liveCount = Cardinality(Opening) + Cardinality(Running)
        /\ liveCount' = Cardinality(Opening') + Cardinality(Running')
    BY DEF liveCount
  <1>8. /\ Cardinality(Opening \cup {s}) \in Nat /\ Cardinality(Running \cup {s}) \in Nat
        /\ Cardinality(Opening \cup {s}) <= Cardinality(Opening) + 1
        /\ Cardinality(Running \cup {s}) <= Cardinality(Running) + 1
    BY <1>3, <1>7
  <1> HIDE DEF Opening, Running
  <1> QED BY <1>4, <1>5, <1>6, <1>8, SessionsAssumption DEF WithinLimit

-----------------------------------------------------------------------------
(* Steps *)

LEMMA InitSessions == Init => SessionsInv
  <1> SUFFICES ASSUME Init PROVE SessionsInv OBVIOUS
  <1>1. TypeOK
    <2>1. 0 \in 0 .. ReconnectLimit BY SessionsAssumption
    <2>2. /\ attempts \in [Sessions -> 0 .. ReconnectLimit]
          /\ life \in [Sessions -> [Processes ->
                    {"unborn", "handshake", "up", "refused", "lost", "ended"}]]
      BY <2>1 DEF Init
    <2>3. /\ process \in [Sessions -> Processes \cup {None}]
          /\ hand \in [Sessions -> Processes \cup {None}]
          /\ shaking \in [Sessions -> Processes \cup {None}]
      BY DEF Init
    <2> QED BY <2>2, <2>3 DEF Init, TypeOK
  <1>2. ASSUME NEW s \in Sessions PROVE SessionOK(s)
    BY DEF Init, SessionOK, ControlOK, Held, AliveOf, Alive
  <1>3. WithinLimit
    <2>1. {s \in Sessions : call[s] = "opening"} = {} /\ {s \in list : Live(s)} = {}
      BY DEF Init
    <2>2. liveCount = 0 BY <2>1, FS_EmptySet DEF liveCount
    <2> QED BY <2>2, SessionsAssumption DEF WithinLimit
  <1> QED BY <1>1, <1>2, <1>3 DEF SessionsInv

\* Steps that none of the three parts reads: what they have in common.
LEMMA StepAside ==
  ASSUME SessionsInv, TypeOK', list' \subseteq list,
         UNCHANGED <<call, pump, state, seen, attempts, hand, life>>,
         \A t \in Sessions : discarded'[t] = discarded[t] \/ t \in list
  PROVE  SessionsInv'
  <1>1. ASSUME NEW t \in Sessions PROVE SessionOK(t)'
    BY <1>1 DEF SessionsInv, SessionOK, ControlOK, Held, AliveOf, Alive
  <1>2. Quiet BY DEF Quiet, Live
  <1>3. WithinLimit' BY <1>2, LimitKept DEF SessionsInv, TypeOK
  <1> QED BY <1>1, <1>3 DEF SessionsInv

LEMMA StepAsked ==
  ASSUME SessionsInv, NEW s \in Sessions,
         \/ StopAsk(s) \/ StopReconnecting(s)
         \/ Close(s) \/ CloseStops(s) \/ CloseRemoves(s)
         \/ HangupStops(s) \/ ForceStops(s)
  PROVE  SessionsInv'
  <1>1. TypeOK'
    <2> USE DEF SessionsInv, TypeOK, registryVars, sessionVars, callVars
    <2>1. CASE StopAsk(s) BY <2>1 DEF StopAsk
    <2>2. CASE StopReconnecting(s) BY <2>2 DEF StopReconnecting
    <2>3. CASE Close(s) BY <2>3 DEF Close
    <2>4. CASE CloseStops(s) BY <2>4 DEF CloseStops
    <2>5. CASE CloseRemoves(s) BY <2>5 DEF CloseRemoves
    <2>6. CASE HangupStops(s) BY <2>6 DEF HangupStops
    <2>7. CASE ForceStops(s) BY <2>7 DEF ForceStops
    <2> QED BY <2>1, <2>2, <2>3, <2>4, <2>5, <2>6, <2>7
  <1>2. /\ list' \subseteq list
        /\ UNCHANGED <<call, pump, state, seen, attempts, hand, life>>
        /\ \A t \in Sessions : discarded'[t] = discarded[t] \/ t \in list
    BY DEF SessionsInv, TypeOK, StopAsk, StopReconnecting, Close, CloseStops, CloseRemoves,
       HangupStops, ForceStops, registryVars, sessionVars, callVars
  <1> QED BY <1>1, <1>2, StepAside

LEMMA StepShutdown ==
  ASSUME SessionsInv,
         \/ BeginShutdown \/ ForceClose \/ WaitBegins \/ WaitSnapshots \/ WaitReceives
         \/ ListSessions
  PROVE  SessionsInv'
  <1>1. /\ list' \subseteq list
        /\ UNCHANGED <<call, pump, state, seen, attempts, hand, life, discarded>>
    BY DEF BeginShutdown, ForceClose, WaitBegins, WaitSnapshots, WaitReceives,
       ListSessions, prune, registryVars, sessionVars, callVars
  <1>2. TypeOK'
    <2> USE <1>1 DEF SessionsInv, TypeOK, registryVars, sessionVars, callVars
    <2>1. CASE BeginShutdown BY <2>1 DEF BeginShutdown
    <2>2. CASE ForceClose BY <2>2 DEF ForceClose
    <2>3. CASE WaitBegins BY <2>3 DEF WaitBegins
    <2>4. CASE WaitSnapshots BY <2>4 DEF WaitSnapshots
    <2>5. CASE WaitReceives BY <2>5 DEF WaitReceives
    <2>6. CASE ListSessions BY <2>6 DEF ListSessions
    <2> QED BY <2>1, <2>2, <2>3, <2>4, <2>5, <2>6
  <1> QED BY <1>1, <1>2, StepAside

\* A process that ends or is up is in the hands it was in.
LEMMA StepLife ==
  ASSUME SessionsInv, TypeOK', NEW s \in Sessions, list' = list,
         UNCHANGED <<call, pump, state, seen, attempts, hand, discarded>>,
         \A t \in Sessions : \A p \in Processes :
            life'[t][p] \in {"handshake", "up"} => life[t][p] \in {"handshake", "up"}
  PROVE  SessionsInv'
  <1>1. ASSUME NEW t \in Sessions PROVE SessionOK(t)'
    BY <1>1 DEF SessionsInv, SessionOK, ControlOK, Held, AliveOf, Alive
  <1>2. Quiet BY DEF Quiet, Live
  <1>3. WithinLimit' BY <1>2, LimitKept DEF SessionsInv, TypeOK
  <1> QED BY <1>1, <1>3 DEF SessionsInv

LEMMA StepProcess ==
  ASSUME SessionsInv, NEW s \in Sessions, NEW p \in Processes,
         \/ HandshakeOk(s, p) \/ HandshakeFails(s, p)
         \/ TransportLost(s, p) \/ ProgramExits(s, p)
  PROVE  SessionsInv'
  <1>1. PICK to \in {"up", "refused", "lost", "ended"} :
          /\ life' = [life EXCEPT ![s][p] = to]
          /\ to = "up" => life[s][p] = "handshake"
    BY DEF HandshakeOk, HandshakeFails, TransportLost, ProgramExits, Becomes
  <1>2. UNCHANGED <<registryVars, sessionVars, pump, hand, callVars>>
    BY DEF HandshakeOk, HandshakeFails, TransportLost, ProgramExits, Becomes
  <1>3. TypeOK'
    BY <1>1, <1>2 DEF SessionsInv, TypeOK, registryVars, sessionVars, callVars
  <1>4. \A t \in Sessions : \A q \in Processes :
          life'[t][q] \in {"handshake", "up"} => life[t][q] \in {"handshake", "up"}
    BY <1>1 DEF SessionsInv, TypeOK
  <1>5. list' = list /\ UNCHANGED <<call, pump, state, seen, attempts, hand, discarded>>
    BY <1>2 DEF registryVars, sessionVars
  <1> QED BY <1>3, <1>4, <1>5, StepLife

\* A process that is abandoned runs no more, and no other one begins to.
LEMMA Abandoned ==
  ASSUME TypeOK, NEW s \in Sessions, NEW q \in Processes \cup {None}, abandonProcess(s, q)
  PROVE  /\ life' \in [Sessions -> [Processes ->
                    {"unborn", "handshake", "up", "refused", "lost", "ended"}]]
         /\ \A t \in Sessions : t # s => life'[t] = life[t]
         /\ \A p \in Processes : life'[s][p] \in {"handshake", "up"} =>
                                    life[s][p] \in {"handshake", "up"} /\ p # q
  <1>1. CASE q = None
    BY <1>1 DEF abandonProcess, TypeOK, None, Processes
  <1>2. CASE q # None
    <2>1. q \in Processes /\ life' = [life EXCEPT ![s][q] = Cut(s, q)]
      BY <1>2 DEF abandonProcess
    <2>2. Cut(s, q) \in {"unborn", "refused", "lost", "ended"}
      BY <2>1 DEF Cut, TypeOK
    <2> QED BY <2>1, <2>2 DEF TypeOK
  <1> QED BY <1>1, <1>2

LEMMA StepAbandons ==
  ASSUME SessionsInv, NEW s \in Sessions,
         \/ StopAbandons(s) \/ CloseKills(s)
         \/ (\E obeyed \in BOOLEAN : HangupSends(s, obeyed)) \/ ForceKills(s)
  PROVE  SessionsInv'
  <1>1. PICK q \in Processes \cup {None} : abandonProcess(s, q)
    BY DEF StopAbandons, CloseKills, HangupSends, ForceKills, SessionsInv, TypeOK
  <1>2. TypeOK BY DEF SessionsInv
  <1>3. /\ life' \in [Sessions -> [Processes ->
                    {"unborn", "handshake", "up", "refused", "lost", "ended"}]]
        /\ \A t \in Sessions : \A p \in Processes :
              life'[t][p] \in {"handshake", "up"} => life[t][p] \in {"handshake", "up"}
    BY <1>1, <1>2, Abandoned
  <1>4. TypeOK'
    <2> USE <1>2, <1>3 DEF TypeOK, registryVars, sessionVars, callVars
    <2>1. CASE StopAbandons(s) BY <2>1 DEF StopAbandons
    <2>2. CASE CloseKills(s) BY <2>2 DEF CloseKills
    <2>3. CASE \E obeyed \in BOOLEAN : HangupSends(s, obeyed) BY <2>3 DEF HangupSends
    <2>4. CASE ForceKills(s) BY <2>4 DEF ForceKills
    <2> QED BY <2>1, <2>2, <2>3, <2>4
  <1>5. list' = list /\ UNCHANGED <<call, pump, state, seen, attempts, hand, discarded>>
    BY DEF StopAbandons, CloseKills, HangupSends, ForceKills, registryVars, sessionVars,
       callVars
  <1> QED BY <1>3, <1>4, <1>5, StepLife

-----------------------------------------------------------------------------
(* Open and Reconnect *)

\* Once s is done, the other sessions are as they were.
LEMMA Rest ==
  ASSUME SessionsInv, TypeOK', NEW s \in Sessions, SessionOK(s)', WithinLimit',
         \A t \in Sessions : t # s => Same(t)
  PROVE  SessionsInv'
  BY SessionFrame DEF SessionsInv

LEMMA StepBegin ==
  ASSUME SessionsInv, NEW s \in Sessions, OpenBegin(s) \/ ReconnectBegin(s)
  PROVE  SessionsInv'
  <1>1. TypeOK'
    <2> USE SessionsAssumption DEF SessionsInv, TypeOK, registryVars, sessionVars, callVars
    <2>1. CASE OpenBegin(s) BY <2>1 DEF OpenBegin
    <2>2. CASE ReconnectBegin(s) BY <2>2 DEF ReconnectBegin
    <2> QED BY <2>1, <2>2
  <1>2. \A t \in Sessions : t # s => Same(t)
    BY DEF SessionsInv, TypeOK, Same, OpenBegin, ReconnectBegin, sessionVars
  <1>3. SessionOK(s)'
    <2> USE DEF SessionsInv, TypeOK, SessionOK, ControlOK, Held, AliveOf, Alive, sessionVars
    <2>1. CASE OpenBegin(s)
      <3>1. state[s] = "none" /\ call[s] = "none" BY <2>1 DEF OpenBegin
      <3>2. pump[s] = "off" BY <3>1
      <3>3. AliveOf(s) = {} BY <3>1, <3>2
      <3>4. /\ call'[s] = "opening"
            /\ UNCHANGED <<pump, state, seen, attempts, discarded, list, hand, life>>
        BY <2>1 DEF OpenBegin
      <3> QED BY <3>1, <3>2, <3>3, <3>4
    <2>2. CASE ReconnectBegin(s)
      <3>0. call[s] = "none" /\ state[s] = "exited" BY <2>2 DEF ReconnectBegin
      <3>1. pump[s] = "off" /\ seen[s] # "pending" BY <3>0
      <3>3. AliveOf(s) = {} BY <3>0, <3>1
      <3>2. /\ call'[s] = "reopening" /\ state'[s] = "connecting"
            /\ UNCHANGED <<pump, life, seen, list, hand>>
        BY <2>2 DEF ReconnectBegin
      <3> QED BY <3>1, <3>2, <3>3
    <2> QED BY <2>1, <2>2
  <1>4. WithinLimit'
    <2>1. CASE OpenBegin(s)
      <3>1. /\ \A t \in Sessions : call'[t] = "opening" => call[t] = "opening" \/ t = s
            /\ \A t \in list' : Live(t)' => t \in list /\ Live(t)
            /\ list' \subseteq Sessions /\ liveCount < MaxSessions
        BY <2>1 DEF OpenBegin, SessionsInv, TypeOK, Live, sessionVars
      <3> QED BY <3>1, LimitJoined DEF SessionsInv
    <2>2. CASE ReconnectBegin(s)
      <3>1. /\ \A t \in Sessions : call'[t] = "opening" => call[t] = "opening"
            /\ \A t \in list' : Live(t)' => (t \in list /\ Live(t)) \/ t = s
            /\ list' \subseteq Sessions /\ liveCount < MaxSessions
        BY <2>2 DEF ReconnectBegin, SessionsInv, TypeOK, Live
      <3> QED BY <3>1, LimitJoined DEF SessionsInv
    <2> QED BY <2>1, <2>2
  <1> QED BY <1>1, <1>2, <1>3, <1>4, Rest

\* The next process of a session is born, into the hands of its owner.
LEMMA Birth ==
  ASSUME TypeOK, NEW s \in Sessions, AliveOf(s) = {}, Next1(s) \in Processes, Born(s)
  PROVE  /\ life' \in [Sessions -> [Processes ->
                    {"unborn", "handshake", "up", "refused", "lost", "ended"}]]
         /\ \A t \in Sessions : t # s => life'[t] = life[t]
         /\ \A p \in Processes : life'[s][p] \in {"handshake", "up"} => p = Next1(s)
  <1>1. \A p \in Processes : life[s][p] \notin {"handshake", "up"}
    BY DEF AliveOf, Alive, Processes, None
  <1>2. life' = [life EXCEPT ![s][Next1(s)] = "handshake"] BY DEF Born
  <1> HIDE DEF Next1
  <1> QED BY <1>1, <1>2 DEF TypeOK

LEMMA StepOpenReturns ==
  ASSUME SessionsInv, NEW s \in Sessions, NEW gone \in BOOLEAN, OpenReturns(s, gone)
  PROVE  SessionsInv'
  <1> DEFINE p == Next1(s)
  <1>1. /\ call[s] = "opening" /\ p \in Processes /\ Born(s)
        /\ hand' = [hand EXCEPT ![s] = p]
        /\ UNCHANGED <<closing, forced, hangup, force, wait, waitFor, seen, byUser,
                       attempts, stopping, discarded, pump, callVars>>
    BY DEF OpenReturns
  <1>2. \/ /\ call' = [call EXCEPT ![s] = "undoing"]
           /\ UNCHANGED <<list, place, state, process>>
        \/ /\ call' = [call EXCEPT ![s] = "published"]
           /\ list' = prune(list \cup {s}, LiveSessions \cup {s})
           /\ place' = [place EXCEPT ![s] =
                            Cardinality({t \in Sessions : place[t] > 0}) + 1]
           /\ state' = [state EXCEPT ![s] = "connecting"]
           /\ process' = [process EXCEPT ![s] = p]
    BY DEF OpenReturns
  <1> HIDE DEF p
  <1>3. pump[s] = "off" /\ state[s] = "none" /\ AliveOf(s) = {} /\ s \notin list
        /\ seen[s] # "pending"
    BY <1>1 DEF SessionsInv, SessionOK, ControlOK, Held
  <1>4. TypeOK BY DEF SessionsInv
  <1>5. /\ life' \in [Sessions -> [Processes ->
                    {"unborn", "handshake", "up", "refused", "lost", "ended"}]]
        /\ \A t \in Sessions : t # s => life'[t] = life[t]
        /\ \A q \in Processes : life'[s][q] \in {"handshake", "up"} => q = p
    BY <1>1, <1>3, <1>4, Birth DEF p
  <1>6. list' \subseteq list \cup {s}
    BY <1>2 DEF prune
  <1>7. TypeOK'
    <2> DEFINE n == Cardinality({t \in Sessions : place[t] > 0})
    <2>1. n \in Nat
      <3>1. {t \in Sessions : place[t] > 0} \subseteq Sessions OBVIOUS
      <3> QED BY <3>1, SessionsAssumption, FS_Subset, FS_CardinalityType
    <2>5. place' = place \/ place' = [place EXCEPT ![s] = n + 1] BY <1>2
    <2>6. \/ call' = [call EXCEPT ![s] = "undoing"] /\ state' = state /\ process' = process
          \/ /\ call' = [call EXCEPT ![s] = "published"]
             /\ state' = [state EXCEPT ![s] = "connecting"]
             /\ process' = [process EXCEPT ![s] = p]
      BY <1>2
    <2> HIDE DEF n
    <2>2. place' \in [Sessions -> Nat]
      <3>1. place \in [Sessions -> Nat] BY <1>4 DEF TypeOK
      <3>2. n + 1 \in Nat BY <2>1
      <3>3. CASE place' = place BY <3>1, <3>3
      <3>4. CASE place' = [place EXCEPT ![s] = n + 1] BY <3>1, <3>2, <3>4
      <3> QED BY <2>5, <3>3, <3>4
    <2>3. /\ call' \in [Sessions -> {"none", "opening", "reopening", "reopened",
                                     "published", "undoing"}]
          /\ state' \in [Sessions -> {"none", "connecting", "connected", "reconnecting",
                                      "exited"}]
          /\ process' \in [Sessions -> Processes \cup {None}]
          /\ hand' \in [Sessions -> Processes \cup {None}]
      <3>1. call \in [Sessions -> {"none", "opening", "reopening", "reopened",
                                     "published", "undoing"}]
            /\ state \in [Sessions -> {"none", "connecting", "connected", "reconnecting",
                                      "exited"}]
            /\ process \in [Sessions -> Processes \cup {None}]
            /\ hand \in [Sessions -> Processes \cup {None}]
        BY <1>4 DEF TypeOK
      <3> QED BY <1>1, <2>6, <3>1
    <2>4. list' \in SUBSET Sessions BY <1>4, <1>6 DEF TypeOK
    <2> QED BY <1>1, <1>4, <1>5, <2>2, <2>3, <2>4 DEF TypeOK, callVars
  <1>8. \A t \in Sessions : t # s => Same(t)
    BY <1>1, <1>2, <1>4, <1>5, <1>6 DEF TypeOK, Same
  <1>9. /\ call'[s] \in {"undoing", "published"} /\ hand'[s] = p
        /\ call'[s] = "published" => state'[s] = "connecting"
        /\ call'[s] # "published" => state'[s] = "none" /\ s \notin list'
    BY <1>1, <1>2, <1>3, <1>4 DEF TypeOK
  <1>10. ControlOK(s)'
    BY <1>1, <1>3, <1>4, <1>9 DEF ControlOK, SessionsInv, SessionOK
  <1>11. Held(s)' BY <1>1, <1>3, <1>5, <1>9 DEF Held, AliveOf, Alive
  <1>12. WithinLimit'
    <2>1. CASE call'[s] = "undoing"
      <3>1. Quiet
        BY <1>1, <1>2, <1>4, <2>1 DEF Quiet, Live, TypeOK
      <3> QED BY <1>4, <1>7, <3>1, LimitKept DEF SessionsInv, TypeOK
    <2>2. CASE call'[s] = "published"
      <3> DEFINE Opening == {t \in Sessions : call[t] = "opening"}
                 Running == {t \in list : Live(t)}
      <3>1. /\ Opening' = Opening \ {s} /\ s \in Opening
            /\ Running' \subseteq Running \cup {s}
            /\ Opening \subseteq Sessions /\ Running \subseteq Sessions
        BY <1>1, <1>2, <1>4, <1>6, <2>2 DEF TypeOK, Live
      <3>2. /\ liveCount = Cardinality(Opening) + Cardinality(Running)
            /\ liveCount' = Cardinality(Opening') + Cardinality(Running')
        BY DEF liveCount
      <3> HIDE DEF Opening, Running
      <3>3. IsFiniteSet(Opening) /\ IsFiniteSet(Running)
        BY <3>1, SessionsAssumption, FS_Subset
      <3>4. Cardinality(Opening') = Cardinality(Opening) - 1
        BY <3>1, <3>3, FS_RemoveElement
      <3>5. /\ IsFiniteSet(Running \cup {s})
            /\ Cardinality(Running \cup {s}) =
                  IF s \in Running THEN Cardinality(Running) ELSE Cardinality(Running) + 1
        BY <3>3, FS_AddElement
      <3>6. Cardinality(Running') <= Cardinality(Running \cup {s})
            /\ IsFiniteSet(Running')
        BY <3>1, <3>5, FS_Subset
      <3>7. Cardinality(Running) \in Nat /\ Cardinality(Running') \in Nat
            /\ Cardinality(Opening) \in Nat
        BY <3>3, <3>6, FS_CardinalityType
      <3> QED BY <3>2, <3>4, <3>5, <3>6, <3>7, SessionsAssumption
              DEF SessionsInv, WithinLimit
    <2> QED BY <1>9, <2>1, <2>2
  <1> QED BY <1>7, <1>8, <1>10, <1>11, <1>12, Rest DEF SessionOK

\* A step of s that makes nothing live and lists nothing.
LEMMA StepOwn ==
  ASSUME SessionsInv, TypeOK', NEW s \in Sessions, SessionOK(s)', list' = list,
         \A t \in Sessions : t # s => Same(t),
         call'[s] = "opening" => call[s] = "opening",
         Live(s)' => Live(s)
  PROVE  SessionsInv'
  <1>1. Quiet BY DEF Quiet, Same, Live, SessionsInv
  <1>2. WithinLimit' BY <1>1, LimitKept DEF SessionsInv, TypeOK
  <1> QED BY <1>2, Rest

LEMMA StepCall ==
  ASSUME SessionsInv, NEW s \in Sessions,
         OpenFails(s) \/ ReconnectFails(s) \/ ReconnectPublish(s) \/ StartPump(s)
  PROVE  SessionsInv'
  <1> USE DEF SessionsInv, sessionVars
  <1>1. TypeOK'
    <2> USE DEF TypeOK, callVars
    <2>1. CASE OpenFails(s) BY <2>1 DEF OpenFails
    <2>2. CASE ReconnectFails(s) BY <2>2 DEF ReconnectFails
    <2>3. CASE ReconnectPublish(s)
      <3>0. \E to \in {"undoing", "published"} : call' = [call EXCEPT ![s] = to]
        BY <2>3 DEF ReconnectPublish
      <3> DEFINE calls == {"none", "opening", "reopening", "reopened", "published", "undoing"}
      <3>1. call' \in [Sessions -> calls]
        <4>1. call \in [Sessions -> calls] OBVIOUS
        <4> HIDE DEF SessionsInv, TypeOK
        <4> QED BY <3>0, <4>1
      <3>2. process' \in [Sessions -> Processes \cup {None}] BY <2>3 DEF ReconnectPublish
      <3>3. UNCHANGED <<list, place, closing, forced, hangup, force, wait, waitFor, state, seen,
                        byUser, attempts, stopping, discarded, pump, hand, callVars, life>>
        BY <2>3 DEF ReconnectPublish
      <3> QED BY <3>1, <3>2, <3>3
    <2>4. CASE StartPump(s) BY <2>4 DEF StartPump
    <2> QED BY <2>1, <2>2, <2>3, <2>4
  <1>2. list' = list /\ \A t \in Sessions : t # s => Same(t)
    BY DEF TypeOK, Same, OpenFails, ReconnectFails, ReconnectPublish, StartPump
  <1>3. call'[s] # "opening" /\ (Live(s)' => Live(s))
    BY DEF TypeOK, Live, SessionOK, ControlOK, OpenFails, ReconnectFails, ReconnectPublish,
       StartPump
  <1>4. SessionOK(s)'
    <2> USE DEF TypeOK, SessionOK, ControlOK, Held, AliveOf, Alive
    <2>1. CASE OpenFails(s) \/ ReconnectFails(s)
      <3>1. /\ call[s] \in {"opening", "reopening"} /\ call'[s] = "none"
            /\ state'[s] \in {state[s], "exited"} /\ (state[s] # "none" => state'[s] # "none")
            /\ UNCHANGED <<pump, life, seen, list, hand, attempts, discarded>>
        BY <2>1 DEF OpenFails, ReconnectFails
      <3>2. pump[s] = "off" BY <3>1
      <3>3. AliveOf(s) = {} BY <3>1, <3>2
      <3> QED BY <3>1, <3>2, <3>3
    <2>3. CASE ReconnectPublish(s) BY <2>3 DEF ReconnectPublish
    <2>4. CASE StartPump(s) BY <2>4 DEF StartPump
    <2> QED BY <2>1, <2>3, <2>4
  <1> QED BY <1>1, <1>2, <1>3, <1>4, StepOwn

LEMMA StepReconnectReturns ==
  ASSUME SessionsInv, NEW s \in Sessions, NEW gone \in BOOLEAN, ReconnectReturns(s, gone)
  PROVE  SessionsInv'
  <1>1. TypeOK /\ SessionOK(s) BY DEF SessionsInv
  <1>2. call[s] = "reopening" /\ pump[s] = "off" /\ AliveOf(s) = {}
    BY <1>1 DEF ReconnectReturns, SessionOK, ControlOK, Held
  <1>3. PICK to \in {"undoing", "reopened"} : call' = [call EXCEPT ![s] = to]
    BY DEF ReconnectReturns
  <1>4. Next1(s) \in Processes /\ Born(s) /\ hand' = [hand EXCEPT ![s] = Next1(s)]
        /\ UNCHANGED <<list, place, closing, forced, hangup, force, wait, waitFor,
                       sessionVars, pump, callVars>>
    BY DEF ReconnectReturns
  <1>5. /\ life' \in [Sessions -> [Processes ->
                    {"unborn", "handshake", "up", "refused", "lost", "ended"}]]
        /\ \A t \in Sessions : t # s => life'[t] = life[t]
        /\ \A q \in Processes : life'[s][q] \in {"handshake", "up"} => q = Next1(s)
    BY <1>1, <1>2, <1>4, Birth
  <1> HIDE DEF Next1
  <1>6. TypeOK' BY <1>1, <1>3, <1>4, <1>5 DEF TypeOK, sessionVars, callVars
  <1>7. \A t \in Sessions : t # s => Same(t)
    BY <1>1, <1>3, <1>4, <1>5 DEF TypeOK, Same, sessionVars
  <1>8. SessionOK(s)'
    BY <1>1, <1>2, <1>3, <1>4, <1>5 DEF TypeOK, SessionOK, ControlOK, Held, AliveOf, Alive,
       sessionVars
  <1>9. call'[s] # "opening" /\ (Live(s)' => Live(s)) /\ list' = list
    BY <1>1, <1>3, <1>4 DEF TypeOK, Live, sessionVars
  <1> QED BY <1>6, <1>7, <1>8, <1>9, StepOwn

LEMMA StepUndo ==
  ASSUME SessionsInv, NEW s \in Sessions, Undo(s)
  PROVE  SessionsInv'
  <1>1. TypeOK /\ SessionOK(s) /\ call[s] = "undoing" BY DEF SessionsInv, Undo
  <1>2. /\ abandonProcess(s, hand[s]) /\ hand[s] \in Processes \cup {None}
        /\ call' = [call EXCEPT ![s] = "none"] /\ hand' = [hand EXCEPT ![s] = None]
        /\ \/ state[s] = "none" /\ UNCHANGED <<state, process>>
           \/ /\ state[s] # "none"
              /\ state' = [state EXCEPT ![s] = "exited"]
              /\ process' = [process EXCEPT ![s] = None]
        /\ UNCHANGED <<list, place, closing, forced, hangup, force, wait, waitFor, seen,
                       byUser, attempts, stopping, discarded, pump, callVars>>
    BY <1>1 DEF Undo, TypeOK
  <1>3. /\ life' \in [Sessions -> [Processes ->
                    {"unborn", "handshake", "up", "refused", "lost", "ended"}]]
        /\ \A t \in Sessions : t # s => life'[t] = life[t]
        /\ \A p \in Processes : life'[s][p] \in {"handshake", "up"} =>
                                    life[s][p] \in {"handshake", "up"} /\ p # hand[s]
    BY <1>1, <1>2, Abandoned
  <1>4. \A p \in Processes : life'[s][p] \notin {"handshake", "up"}
    BY <1>1, <1>3 DEF SessionOK, Held, AliveOf, Alive, None, Processes
  <1>5. TypeOK'
    <2>1. /\ state' \in [Sessions -> {"none", "connecting", "connected", "reconnecting",
                                      "exited"}]
          /\ process' \in [Sessions -> Processes \cup {None}]
      <3>1. /\ state \in [Sessions -> {"none", "connecting", "connected", "reconnecting",
                                      "exited"}]
            /\ process \in [Sessions -> Processes \cup {None}]
        BY <1>1 DEF TypeOK
      <3>2. CASE UNCHANGED <<state, process>> BY <3>1, <3>2
      <3>3. CASE /\ state' = [state EXCEPT ![s] = "exited"]
                 /\ process' = [process EXCEPT ![s] = None]
        BY <3>1, <3>3
      <3> QED BY <1>2, <3>2, <3>3
    <2>2. /\ call' \in [Sessions -> {"none", "opening", "reopening", "reopened",
                                     "published", "undoing"}]
          /\ hand' \in [Sessions -> Processes \cup {None}]
      BY <1>1, <1>2 DEF TypeOK
    <2> QED BY <1>1, <1>2, <1>3, <2>1, <2>2 DEF TypeOK, callVars
  <1>6. \A t \in Sessions : t # s => Same(t) BY <1>1, <1>2, <1>3 DEF TypeOK, Same
  <1>7. SessionOK(s)'
    BY <1>1, <1>2, <1>4 DEF TypeOK, SessionOK, ControlOK, Held, AliveOf, Alive
  <1>8. call'[s] # "opening" /\ (Live(s)' => Live(s)) /\ list' = list
    BY <1>1, <1>2 DEF TypeOK, Live
  <1> QED BY <1>5, <1>6, <1>7, <1>8, StepOwn

-----------------------------------------------------------------------------
(* The pump *)

\* ReadySeen and the steps of the pump that start and end no process.
LEMMA StepPump ==
  ASSUME SessionsInv, NEW s \in Sessions,
         \/ ReadySeen(s)
         \/ (\E fresh, retry, noNetwork \in BOOLEAN : ProcessEnds(s, fresh, retry, noNetwork))
         \/ ChooseAttempt(s) \/ WaitOver(s)
         \/ (\E retry, noNetwork \in BOOLEAN : DialFails(s, retry, noNetwork))
         \/ Observe(s) \/ Finish(s)
  PROVE  SessionsInv'
  <1> USE DEF SessionsInv
  <1>1. SessionOK(s) /\ attempts[s] \in 0 .. ReconnectLimit /\ ReconnectLimit \in Nat
    BY SessionsAssumption DEF TypeOK
  <1>2. CASE ReadySeen(s)
    <2>1. /\ seen[s] = "pending"
          /\ \E v \in {"ok", "failed"} : seen' = [seen EXCEPT ![s] = v]
          /\ \/ state' = state
             \/ state' = [state EXCEPT ![s] = "connected"]
          /\ UNCHANGED <<registryVars, process, byUser, attempts, stopping, discarded,
                         pump, hand, callVars, life>>
      BY <1>2 DEF ReadySeen
    <2>2. pump[s] = "reading" BY <1>1, <2>1 DEF SessionOK, ControlOK
    <2>3. TypeOK'
      <3>1. seen' \in [Sessions -> {"none", "pending", "ok", "failed"}]
        BY <2>1 DEF TypeOK
      <3>2. state' \in [Sessions -> {"none", "connecting", "connected", "reconnecting",
                                    "exited"}]
        <4>1. state \in [Sessions -> {"none", "connecting", "connected", "reconnecting",
                                     "exited"}]
          BY DEF TypeOK
        <4> HIDE DEF SessionsInv
        <4> QED BY <2>1, <4>1
      <3> QED BY <2>1, <3>1, <3>2 DEF TypeOK, registryVars, callVars
    <2>4. list' = list /\ \A t \in Sessions : t # s => Same(t)
      BY <2>1 DEF TypeOK, Same, registryVars
    <2>5. SessionOK(s)'
      <3>0. /\ state'[s] \in {state[s], "connected"} /\ seen'[s] # "pending"
            /\ UNCHANGED <<call, pump, attempts, list, discarded>>
        BY <2>1 DEF TypeOK, registryVars
      <3>1. ControlOK(s)' BY <1>1, <2>2, <3>0 DEF SessionOK, ControlOK
      <3>2. Held(s)' BY <1>1, <2>1, <2>2 DEF SessionOK, Held, AliveOf, Alive, registryVars
      <3> QED BY <3>1, <3>2 DEF SessionOK
    <2>6. call'[s] = call[s] /\ Live(s)
      BY <1>1, <2>1, <2>2 DEF SessionOK, ControlOK, Live, registryVars
    <2> QED BY <2>3, <2>4, <2>5, <2>6, StepOwn
  <1>3. CASE \E fresh, retry, noNetwork \in BOOLEAN : ProcessEnds(s, fresh, retry, noNetwork)
    <2>1. PICK fresh, retry, noNetwork \in BOOLEAN : ProcessEnds(s, fresh, retry, noNetwork)
      BY <1>3
    <2>2. /\ pump[s] = "reading" /\ ~Alive(s, hand[s]) /\ seen[s] # "pending"
          /\ UNCHANGED <<registryVars, state, process, seen, byUser, stopping,
                         discarded, hand, callVars, life>>
      BY <2>1 DEF ProcessEnds
    <2>3. PICK n \in 0 .. ReconnectLimit : attempts' = [attempts EXCEPT ![s] = n]
      <3>1. Refund(attempts[s], noNetwork) \in 0 .. ReconnectLimit BY <1>1 DEF Refund
      <3> DEFINE m == IF seen[s] = "ok" THEN (IF fresh THEN 0 ELSE attempts[s])
                      ELSE IF byUser[s] THEN attempts[s] ELSE Refund(attempts[s], noNetwork)
      <3>2. m \in 0 .. ReconnectLimit BY <1>1, <3>1
      <3>3. attempts' = [attempts EXCEPT ![s] = m] BY <2>1 DEF ProcessEnds
      <3> QED BY <3>2, <3>3
    <2>4. PICK to \in {"choosing", "finishing"} : pump' = [pump EXCEPT ![s] = to]
      BY <2>1 DEF ProcessEnds, Goes
    <2>5. TypeOK' BY <2>2, <2>3, <2>4 DEF TypeOK, registryVars, callVars
    <2>6. list' = list /\ \A t \in Sessions : t # s => Same(t)
      BY <2>2, <2>3, <2>4 DEF TypeOK, Same, registryVars
    <2>7. AliveOf(s) = {} BY <1>1, <2>2 DEF SessionOK, Held, AliveOf
    <2>8. SessionOK(s)'
      BY <1>1, <2>2, <2>3, <2>4, <2>7
      DEF TypeOK, SessionOK, ControlOK, Held, AliveOf, Alive, registryVars
    <2>9. call'[s] = call[s] /\ (Live(s)' => Live(s)) BY <2>2 DEF Live, registryVars
    <2> QED BY <2>5, <2>6, <2>8, <2>9, StepOwn
  <1>4. CASE ChooseAttempt(s) \/ WaitOver(s)
    <2> USE DEF ChooseAttempt, WaitOver, Goes
    <2>1. TypeOK'
      <3>1. CASE ChooseAttempt(s)
        <4>0. \/ UNCHANGED <<state, process>>
              \/ /\ state' = [state EXCEPT ![s] = "reconnecting"]
                 /\ process' = [process EXCEPT ![s] = None]
          BY <3>1
        <4>3. /\ state \in [Sessions -> {"none", "connecting", "connected",
                                          "reconnecting", "exited"}]
              /\ process \in [Sessions -> Processes \cup {None}]
          BY DEF TypeOK
        <4>1. /\ state' \in [Sessions -> {"none", "connecting", "connected",
                                          "reconnecting", "exited"}]
              /\ process' \in [Sessions -> Processes \cup {None}]
          BY <4>0, <4>3
        <4>2. pump' \in [Sessions -> {"off", "reading", "choosing", "waiting", "dialing",
                                      "opened", "installed", "finishing"}]
          BY <3>1 DEF TypeOK
        <4> QED BY <3>1, <4>1, <4>2 DEF TypeOK, registryVars, callVars
      <3>2. CASE WaitOver(s) BY <3>2 DEF TypeOK, registryVars, callVars, sessionVars
      <3> QED BY <1>4, <3>1, <3>2
    <2>2. list' = list /\ \A t \in Sessions : t # s => Same(t)
      BY <1>4 DEF TypeOK, Same, registryVars, sessionVars
    <2>3. /\ pump[s] \in {"choosing", "waiting"}
          /\ pump'[s] \in {"finishing", "waiting", "dialing"}
          /\ pump'[s] # "finishing" => attempts'[s] < ReconnectLimit
          /\ state'[s] \in {state[s], "reconnecting"}
          /\ UNCHANGED <<call, seen, hand, life, discarded>>
      BY <1>1, <1>4 DEF TypeOK, SessionOK, ControlOK, registryVars, sessionVars
    <2>4. AliveOf(s) = {} BY <1>1, <2>3 DEF SessionOK, Held
    <2>5. SessionOK(s)'
      BY <1>1, <2>2, <2>3, <2>4 DEF SessionOK, ControlOK, Held, AliveOf, Alive
    <2>6. Live(s) BY <1>1, <2>3 DEF SessionOK, ControlOK, Live
    <2> QED BY <2>1, <2>2, <2>3, <2>5, <2>6, StepOwn
  <1>5. CASE \E retry, noNetwork \in BOOLEAN : DialFails(s, retry, noNetwork)
    <2>1. PICK retry, noNetwork \in BOOLEAN : DialFails(s, retry, noNetwork) BY <1>5
    <2>2. /\ pump[s] = "dialing"
          /\ attempts' = [attempts EXCEPT ![s] = Refund(attempts[s] + 1, noNetwork)]
          /\ UNCHANGED <<registryVars, state, process, seen, byUser, stopping, discarded,
                         hand, callVars, life>>
      BY <2>1 DEF DialFails
    <2>3. PICK to \in {"choosing", "finishing"} : pump' = [pump EXCEPT ![s] = to]
      BY <2>1 DEF DialFails, Goes
    <2>4. Refund(attempts[s] + 1, noNetwork) \in 0 .. ReconnectLimit
      BY <1>1, <2>2 DEF SessionOK, ControlOK, Refund
    <2>5. TypeOK' BY <2>2, <2>3, <2>4 DEF TypeOK, registryVars, callVars
    <2>6. list' = list /\ \A t \in Sessions : t # s => Same(t)
      BY <2>2, <2>3 DEF TypeOK, Same, registryVars
    <2>7. AliveOf(s) = {} BY <1>1, <2>2 DEF SessionOK, Held
    <2>8. SessionOK(s)'
      BY <1>1, <2>2, <2>3, <2>7
      DEF TypeOK, SessionOK, ControlOK, Held, AliveOf, Alive, registryVars
    <2>9. call'[s] = call[s] /\ (Live(s)' => Live(s)) BY <2>2 DEF Live, registryVars
    <2> QED BY <2>5, <2>6, <2>8, <2>9, StepOwn
  <1>6. CASE Observe(s) \/ Finish(s)
    <2> USE DEF Observe, Finish, Goes
    <2>1. TypeOK'
      <3>1. CASE Observe(s) BY <3>1 DEF TypeOK, registryVars, callVars
      <3>2. CASE Finish(s) BY <3>2 DEF TypeOK, registryVars, callVars
      <3> QED BY <1>6, <3>1, <3>2
    <2>2. list' = list /\ \A t \in Sessions : t # s => Same(t)
      BY <1>6 DEF TypeOK, Same, registryVars
    <2>3. SessionOK(s)'
      <3>1. CASE Observe(s)
        BY <1>1, <3>1 DEF TypeOK, SessionOK, ControlOK, Held, AliveOf, Alive, registryVars
      <3>2. CASE Finish(s)
        <4>1. AliveOf(s) = {} /\ seen[s] # "pending" /\ call[s] = "none"
          BY <1>1, <3>2 DEF SessionOK, ControlOK, Held
        <4> QED
          BY <1>1, <3>2, <4>1 DEF TypeOK, SessionOK, ControlOK, Held, AliveOf, Alive,
             registryVars
      <3> QED BY <1>6, <3>1, <3>2
    <2>4. call'[s] = call[s] /\ Live(s)
      BY <1>1, <1>6 DEF SessionOK, ControlOK, Live, registryVars
    <2> QED BY <2>1, <2>2, <2>3, <2>4, StepOwn
  <1> QED BY <1>2, <1>3, <1>4, <1>5, <1>6

\* The two steps of the pump that start or end a process.
LEMMA StepReopens ==
  ASSUME SessionsInv, NEW s \in Sessions, DialReturns(s) \/ Install(s)
  PROVE  SessionsInv'
  <1>1. TypeOK /\ SessionOK(s) /\ ReconnectLimit \in Nat
    BY SessionsAssumption DEF SessionsInv
  <1>2. call[s] = "none" /\ state[s] \notin {"none", "exited"} /\ seen[s] # "pending"
        /\ attempts[s] \in 0 .. ReconnectLimit /\ attempts[s] < ReconnectLimit
    BY <1>1 DEF SessionOK, ControlOK, DialReturns, Install, TypeOK
  <1>3. CASE DialReturns(s)
    <2>1. pump[s] = "dialing" /\ AliveOf(s) = {}
      BY <1>1, <1>3 DEF DialReturns, SessionOK, Held
    <2>2. Next1(s) \in Processes /\ UNCHANGED <<registryVars, sessionVars, callVars>>
      BY <1>3 DEF DialReturns
    <2>3. CASE Stopped(s)
      <3>1. /\ life' = [life EXCEPT ![s][Next1(s)] = "refused"]
            /\ pump' = [pump EXCEPT ![s] = "finishing"] /\ hand' = hand
        BY <1>3, <2>3 DEF DialReturns, Goes
      <3> HIDE DEF Next1
      <3>2. TypeOK' BY <1>1, <2>2, <3>1 DEF TypeOK, registryVars, sessionVars, callVars
      <3>3. \A t \in Sessions : t # s => Same(t)
        BY <1>1, <2>2, <3>1 DEF TypeOK, Same, registryVars, sessionVars
      <3>4. AliveOf(s)' = {}
        BY <1>1, <2>1, <2>2, <3>1 DEF TypeOK, AliveOf, Alive
      <3>5. SessionOK(s)'
        BY <1>1, <1>2, <2>2, <3>1, <3>4 DEF TypeOK, SessionOK, ControlOK, Held,
           registryVars, sessionVars
      <3>6. call'[s] = call[s] /\ (Live(s)' => Live(s)) /\ list' = list
        BY <2>2 DEF Live, registryVars, sessionVars
      <3> QED BY <3>2, <3>3, <3>5, <3>6, StepOwn
    <2>4. CASE ~Stopped(s)
      <3>1. /\ Born(s) /\ hand' = [hand EXCEPT ![s] = Next1(s)]
            /\ pump' = [pump EXCEPT ![s] = "opened"]
        BY <1>3, <2>4 DEF DialReturns, Goes
      <3>2. /\ life' \in [Sessions -> [Processes ->
                    {"unborn", "handshake", "up", "refused", "lost", "ended"}]]
            /\ \A t \in Sessions : t # s => life'[t] = life[t]
            /\ \A q \in Processes : life'[s][q] \in {"handshake", "up"} => q = Next1(s)
        BY <1>1, <2>1, <2>2, <3>1, Birth
      <3> HIDE DEF Next1
      <3>3. TypeOK'
        BY <1>1, <2>2, <3>1, <3>2 DEF TypeOK, registryVars, sessionVars, callVars
      <3>4. \A t \in Sessions : t # s => Same(t)
        BY <1>1, <2>2, <3>1, <3>2 DEF TypeOK, Same, registryVars, sessionVars
      <3>5. SessionOK(s)'
        BY <1>1, <1>2, <2>2, <3>1, <3>2 DEF TypeOK, SessionOK, ControlOK, Held, AliveOf,
           Alive, registryVars, sessionVars
      <3>6. call'[s] = call[s] /\ (Live(s)' => Live(s)) /\ list' = list
        BY <2>2 DEF Live, registryVars, sessionVars
      <3> QED BY <3>3, <3>4, <3>5, <3>6, StepOwn
    <2> QED BY <2>3, <2>4
  <1>4. CASE Install(s)
    <2>1. /\ UNCHANGED <<registryVars, state, seen, byUser, stopping, discarded, hand,
                         callVars>>
          /\ pump[s] = "opened" /\ hand[s] \in Processes \cup {None}
      BY <1>1, <1>4 DEF Install, TypeOK
    <2>2. CASE Stopped(s)
      <3>1. /\ abandonProcess(s, hand[s]) /\ UNCHANGED <<process, attempts>>
            /\ pump' = [pump EXCEPT ![s] = "finishing"]
        BY <1>4, <2>2 DEF Install, Goes
      <3>2. /\ life' \in [Sessions -> [Processes ->
                    {"unborn", "handshake", "up", "refused", "lost", "ended"}]]
            /\ \A t \in Sessions : t # s => life'[t] = life[t]
            /\ \A p \in Processes : life'[s][p] \in {"handshake", "up"} =>
                                    life[s][p] \in {"handshake", "up"} /\ p # hand[s]
        BY <1>1, <2>1, <3>1, Abandoned
      <3>3. TypeOK' BY <1>1, <2>1, <3>1, <3>2 DEF TypeOK, registryVars, callVars
      <3>4. \A t \in Sessions : t # s => Same(t)
        BY <1>1, <2>1, <3>1, <3>2 DEF TypeOK, Same, registryVars
      <3>5. AliveOf(s)' = {}
        BY <1>1, <3>2 DEF SessionOK, Held, AliveOf, Alive
      <3>6. SessionOK(s)'
        BY <1>1, <1>2, <2>1, <3>1, <3>5 DEF TypeOK, SessionOK, ControlOK, Held, registryVars
      <3>7. call'[s] = call[s] /\ (Live(s)' => Live(s)) /\ list' = list
        BY <2>1 DEF Live, registryVars
      <3> QED BY <3>3, <3>4, <3>6, <3>7, StepOwn
    <2>3. CASE ~Stopped(s)
      <3>1. /\ process' = [process EXCEPT ![s] = hand[s]]
            /\ attempts' = [attempts EXCEPT ![s] = attempts[s] + 1]
            /\ pump' = [pump EXCEPT ![s] = "installed"] /\ life' = life
        BY <1>4, <2>3 DEF Install, Goes
      <3>2. attempts[s] + 1 \in 0 .. ReconnectLimit BY <1>1, <1>2
      <3>3. TypeOK' BY <1>1, <2>1, <3>1, <3>2 DEF TypeOK, registryVars, callVars
      <3>4. \A t \in Sessions : t # s => Same(t)
        BY <1>1, <2>1, <3>1 DEF TypeOK, Same, registryVars
      <3>5. SessionOK(s)'
        BY <1>1, <1>2, <2>1, <3>1 DEF TypeOK, SessionOK, ControlOK, Held, AliveOf, Alive,
           registryVars
      <3>6. call'[s] = call[s] /\ (Live(s)' => Live(s)) /\ list' = list
        BY <2>1 DEF Live, registryVars
      <3> QED BY <3>3, <3>4, <3>5, <3>6, StepOwn
    <2> QED BY <2>2, <2>3
  <1> QED BY <1>3, <1>4

LEMMA SessionsStep ==
  ASSUME SessionsInv, [Next]_vars
  PROVE  SessionsInv'
  <1>1. ASSUME NEW s \in Sessions, ProcessStep(s) PROVE SessionsInv'
    BY <1>1, StepProcess DEF ProcessStep
  <1>2. ASSUME NEW s \in Sessions, CallStep(s) PROVE SessionsInv'
    BY <1>2, StepBegin, StepOpenReturns, StepCall, StepReconnectReturns, StepUndo
    DEF CallStep
  <1>3. ASSUME NEW s \in Sessions, PumpStep(s) PROVE SessionsInv'
    <2>1. CASE DialReturns(s) \/ Install(s) BY <2>1, StepReopens
    <2>2. CASE ~(DialReturns(s) \/ Install(s)) BY <1>3, <2>2, StepPump DEF PumpStep
    <2> QED BY <2>1, <2>2
  <1>4. ASSUME NEW s \in Sessions, UserCall(s) PROVE SessionsInv'
    BY <1>4, StepAsked, StepAbandons DEF UserCall
  <1>5. ASSUME ShutdownStep PROVE SessionsInv'
    BY <1>5, StepShutdown, StepAsked, StepAbandons DEF ShutdownStep
  <1>6. ASSUME UNCHANGED vars PROVE SessionsInv'
    <2> USE <1>6 DEF vars, registryVars, sessionVars, callVars
    <2>1. TypeOK' BY DEF SessionsInv, TypeOK
    <2>2. list' \subseteq list /\ UNCHANGED <<call, pump, state, seen, attempts, hand, life>>
          /\ \A t \in Sessions : discarded'[t] = discarded[t] \/ t \in list
      OBVIOUS
    <2> QED BY <2>1, <2>2, StepAside
  <1> QED BY <1>1, <1>2, <1>3, <1>4, <1>5, <1>6, StepShutdown DEF Next

-----------------------------------------------------------------------------
(* What follows *)

LEMMA InvAccounted ==
  ASSUME SessionsInv
  PROVE  ProcessesAreAccounted
  BY DEF SessionsInv, SessionOK, Held, ProcessesAreAccounted, EveryProcessIsHeld

\* What a step may do to the process and the state of a closed session.
Closed(s) == discarded[s] => /\ process'[s] \in {process[s], None}
                             /\ state'[s] = "connected" => state[s] = "connected"

LEMMA ClosedByOthers ==
  ASSUME SessionsInv, NEW s \in Sessions, NEW t \in Sessions, t # s,
         ProcessStep(t) \/ CallStep(t) \/ PumpStep(t) \/ UserCall(t)
  PROVE  process'[s] = process[s] /\ state'[s] = state[s]
  <1> USE DEF SessionsInv, TypeOK
  <1>1. CASE ProcessStep(t)
    BY <1>1 DEF ProcessStep, HandshakeOk, HandshakeFails, TransportLost, ProgramExits,
       Becomes, sessionVars
  <1>2. CASE CallStep(t)
    <2>1. CASE \/ OpenBegin(t) \/ OpenFails(t)
               \/ \E gone \in BOOLEAN : ReconnectReturns(t, gone)
      BY <2>1 DEF OpenBegin, OpenFails, ReconnectReturns, sessionVars
    <2>2. CASE \E gone \in BOOLEAN : OpenReturns(t, gone)
      <3> HIDE DEF Next1
      <3> QED BY <2>2 DEF OpenReturns
    <2>3. CASE ReconnectBegin(t) \/ ReconnectFails(t) \/ StartPump(t)
      BY <2>3 DEF ReconnectBegin, ReconnectFails, StartPump
    <2>4. CASE ReconnectPublish(t) \/ Undo(t) BY <2>4 DEF ReconnectPublish, Undo
    <2> QED BY <1>2, <2>1, <2>2, <2>3, <2>4 DEF CallStep
  <1>3. CASE PumpStep(t)
    BY <1>3 DEF PumpStep, ReadySeen, ProcessEnds, ChooseAttempt, WaitOver, DialReturns,
       DialFails, Install, Observe, Finish, sessionVars
  <1>4. CASE UserCall(t)
    BY <1>4 DEF UserCall, StopAsk, StopReconnecting, StopAbandons, Close, CloseStops,
       CloseKills, CloseRemoves, sessionVars
  <1> QED BY <1>1, <1>2, <1>3, <1>4

LEMMA ClosedByItself ==
  ASSUME SessionsInv, NEW s \in Sessions, discarded[s],
         ProcessStep(s) \/ CallStep(s) \/ PumpStep(s) \/ UserCall(s)
  PROVE  Closed(s)
  <1> USE DEF Closed
  <1>0. SessionOK(s) /\ TypeOK BY DEF SessionsInv
  <1>1. CASE ProcessStep(s)
    BY <1>1 DEF ProcessStep, HandshakeOk, HandshakeFails, TransportLost, ProgramExits,
       Becomes, sessionVars
  <1>2. CASE CallStep(s)
    <2>1. state[s] # "none" /\ call[s] # "opening"
      BY <1>0 DEF SessionOK, ControlOK
    <2>2. CASE \E gone \in BOOLEAN : OpenReturns(s, gone) BY <2>1, <2>2 DEF OpenReturns
    <2>3. CASE ReconnectPublish(s) BY <2>3 DEF ReconnectPublish, Stopped
    <2>4. CASE Undo(s) \/ StartPump(s) \/ ReconnectFails(s)
      BY <1>0, <2>4 DEF Undo, StartPump, ReconnectFails, TypeOK
    <2>5. CASE OpenBegin(s) \/ OpenFails(s) \/ ReconnectBegin(s)
               \/ \E gone \in BOOLEAN : ReconnectReturns(s, gone)
      BY <2>5 DEF OpenBegin, OpenFails, ReconnectBegin, ReconnectReturns, sessionVars
    <2> QED BY <1>2, <2>2, <2>3, <2>4, <2>5 DEF CallStep
  <1>3. CASE PumpStep(s)
    <2>1. CASE ReadySeen(s) BY <2>1 DEF ReadySeen, Stopped
    <2>2. CASE Install(s) BY <2>2 DEF Install, Stopped
    <2>3. CASE ChooseAttempt(s) \/ Observe(s) \/ Finish(s)
      BY <1>0, <2>3 DEF ChooseAttempt, Observe, Finish, Stopped, TypeOK
    <2>4. CASE WaitOver(s) \/ DialReturns(s) BY <2>4 DEF WaitOver, DialReturns, sessionVars
    <2>5. CASE \/ \E fresh, retry, noNetwork \in BOOLEAN : ProcessEnds(s, fresh, retry, noNetwork)
               \/ \E retry, noNetwork \in BOOLEAN : DialFails(s, retry, noNetwork)
      BY <2>5 DEF ProcessEnds, DialFails
    <2> QED BY <1>3, <2>1, <2>2, <2>3, <2>4, <2>5 DEF PumpStep
  <1>4. CASE UserCall(s)
    BY <1>4 DEF UserCall, StopAsk, StopReconnecting, StopAbandons, Close, CloseStops,
       CloseKills, CloseRemoves, sessionVars
  <1> QED BY <1>1, <1>2, <1>3, <1>4

LEMMA StepClosed ==
  ASSUME SessionsInv, [Next]_vars, NEW s \in Sessions, discarded[s]
  PROVE  /\ process'[s] \in {process[s], None}
         /\ state'[s] = "connected" => state[s] = "connected"
  <1>1. ASSUME NEW t \in Sessions, ProcessStep(t) \/ CallStep(t) \/ PumpStep(t) \/ UserCall(t)
        PROVE  Closed(s)
    <2>1. CASE t = s BY <1>1, <2>1, ClosedByItself
    <2>2. CASE t # s BY <1>1, <2>2, ClosedByOthers DEF Closed
    <2> QED BY <2>1, <2>2
  <1>2. ASSUME ListSessions \/ ShutdownStep \/ UNCHANGED vars
        PROVE  process' = process /\ state' = state
    BY <1>2 DEF ListSessions, ShutdownStep, BeginShutdown, ForceClose, WaitBegins,
       WaitSnapshots, WaitReceives, HangupStops, HangupSends, ForceStops, ForceKills,
       vars, sessionVars
  <1> QED BY <1>1, <1>2 DEF Next, Closed

-----------------------------------------------------------------------------
(* The sessions by themselves *)

\* The inductive invariant: a session has one owner at a time, a session with a pump is
\* live, and what runs is in the owner's hands (registry.go, Open and Reconnect;
\* session.go, the pump; reconnect.go).
THEOREM SessionsInvariant == Spec => []SessionsInv
  <1>1. SessionsInv /\ [Next]_vars => SessionsInv' BY SessionsStep
  <1> QED BY <1>1, InitSessions, PTL DEF Spec

-----------------------------------------------------------------------------
(* The sessions and the route *)

\* The route with what is proved of it.
R == INSTANCE VpnRouteProofs WITH stopping <- stopCall

OwnOK ==
  /\ automatic \in [Dials -> BOOLEAN] /\ routed \in BOOLEAN /\ requests \in Nat

ComposedInv == SessionsInv /\ R!RouteInv /\ OwnOK

\* R sees the definitions of VpnRoute that Vpn sees.
LEMMA SameFinite == \A S : R!IsFiniteSet(S) <=> IsFiniteSet(S)
  BY DEF R!IsFiniteSet, IsFiniteSet
LEMMA SameCardinality == \A S : R!Cardinality(S) = Vpn!Cardinality(S)
  BY DEF R!Cardinality, Vpn!Cardinality

\* The users of the route are as different as VpnRoute needs them to be.
LEMMA RouteIsOK == R!RouteOK
  <1>1. IsFiniteSet(Dials)
    <2>1. IsFiniteSet(Processes)
      BY SessionsAssumption, FS_Interval DEF Processes
    <2> QED BY <2>1, SessionsAssumption, FS_Product DEF Dials
  <1>2. R!Users = Dials \cup (Ups \cup Relays)
    BY DEF R!Users, R!Starters
  <1>3. IsFiniteSet(R!Users)
    BY <1>1, <1>2, RouteAssumption, FS_Union
  <1>4. /\ Dials \cap Ups = {} /\ R!Starters \cap Relays = {}
        /\ R!Users \cap Stoppers = {}
        /\ Free \notin R!Users \cup Stoppers /\ Sweeper \notin R!Users \cup Stoppers
    BY RouteAssumption DEF R!Users, R!Starters
  <1> QED BY <1>3, <1>4, SameFinite, ConnectionsAssumption DEF R!RouteOK

-----------------------------------------------------------------------------
(* A step of the composition is a step of each part, or none *)

LEMMA DialSteps ==
  ASSUME NEW d \in Dials,
         \/ Vpn!Ask(d, automatic[d]) \/ Vpn!AskFails(d) \/ Vpn!Queue(d)
         \/ Vpn!GiveUp(d) \/ Vpn!Overtaken(d) \/ Vpn!Serves(d)
         \/ Vpn!Rebuild(d) \/ Vpn!BeginFails(d) \/ Vpn!Started(d)
         \/ Vpn!StartFails(d) \/ Vpn!Connect(d) \/ Vpn!ConnectFails(d)
         \/ Vpn!CloseConnection(d),
         OwnOK
  PROVE  Vpn!Next
  <1>1. d \in Vpn!Starters /\ d \in Vpn!Users /\ automatic[d] \in BOOLEAN
    BY DEF Vpn!Starters, Vpn!Users, OwnOK
  <1> QED BY <1>1 DEF Vpn!Next, Vpn!DialStep, Vpn!UserStep

LEMMA IsRouteStep ==
  ASSUME CNext, OwnOK
  PROVE  [Vpn!Next]_(Vpn!vpnVars)
  <1> USE DEF Vpn!vpnVars, Vpn!routeVars, Vpn!userVars
  <1>1. ASSUME Aside PROVE UNCHANGED Vpn!vpnVars
    BY <1>1 DEF Aside, routeVars
  <1>2. CASE Request
    <2>1. CASE \E c \in Stoppers, kind \in {"stop", "disconnect"} : Vpn!RequestStop(c, kind)
      BY <2>1 DEF Vpn!Next, Vpn!StopStep
    <2>2. CASE \E d \in Relays : Vpn!Relay(d)
      BY <2>2 DEF Vpn!Next, Vpn!UserStep, Vpn!Users
    <2>3. CASE \E d \in Ups : Vpn!Queue(d)
      BY <2>3 DEF Vpn!Next, Vpn!DialStep, Vpn!Starters
    <2> QED BY <1>1, <1>2, <2>1, <2>2, <2>3 DEF Request
  <1>3. CASE Whim \/ Waits BY <1>1, <1>3 DEF Whim, Waits
  <1>4. CASE CommandLine
    BY <1>4 DEF CommandLine, Vpn!Next, Vpn!DialStep, Vpn!UserStep, Vpn!Starters, Vpn!Users
  <1>5. CASE Supervises BY <1>5 DEF Supervises, Vpn!Next, Vpn!EngineStep
  <1>6. ASSUME NEW s \in Sessions,
               \/ Pumping(s) \/ Calling(s) \/ Stops(s) \/ Closes(s) \/ HangsUp(s) \/ Forces(s)
        PROVE  UNCHANGED Vpn!vpnVars
    <2>1. CASE Reopened(s) BY <2>1 DEF Reopened, routeVars
    <2> QED BY <1>1, <1>6, <2>1
            DEF Pumping, Sequel, Ends, Calling, Stops, Closes, HangsUp, Forces
  <1>7. ASSUME NEW s \in Sessions, NEW p \in Processes,
               HandshakeEnds(s, p) \/ ProcessLives(s, p)
        PROVE  UNCHANGED Vpn!vpnVars
    BY <1>1, <1>7 DEF HandshakeEnds, ProcessLives
  <1>8. ASSUME NEW s \in Sessions, NEW p \in Processes, Dialing(s, p)
        PROVE  Vpn!Next
    <2>1. <<s, p>> \in Dials BY DEF Dials
    <2> QED BY <1>8, <2>1, DialSteps DEF Dialing
  <1>9. ASSUME NEW c \in Stoppers, StopsRoute(c) \/ StopGivesUp(c)
        PROVE  Vpn!Next
    BY <1>9 DEF StopsRoute, StopGivesUp, Vpn!Next, Vpn!StopStep
  <1> QED BY <1>2, <1>3, <1>4, <1>5, <1>6, <1>7, <1>8, <1>9 DEF CNext

LEMMA IsSessionsStep ==
  ASSUME CNext
  PROVE  [Next]_vars
  <1>1. ASSUME Below PROVE UNCHANGED vars BY <1>1 DEF Below
  <1>2. CASE Request
    BY <1>1, <1>2 DEF Request, Next, CallStep, UserCall, ShutdownStep
  <1>3. CASE Whim \/ Waits BY <1>3 DEF Whim, Waits, Next, PumpStep, ShutdownStep
  <1>4. CASE CommandLine \/ Supervises BY <1>1, <1>4 DEF CommandLine, Supervises
  <1>5. ASSUME NEW s \in Sessions, Pumping(s) PROVE Next
    BY <1>5 DEF Pumping, Sequel, Ends, Reopened, Next, PumpStep
  <1>6. ASSUME NEW s \in Sessions, Calling(s) PROVE Next
    BY <1>6 DEF Calling, Next, CallStep
  <1>7. ASSUME NEW s \in Sessions, Stops(s) \/ Closes(s) PROVE Next
    BY <1>7 DEF Stops, Closes, Next, UserCall
  <1>8. ASSUME NEW s \in Sessions, HangsUp(s) \/ Forces(s) PROVE Next
    BY <1>8 DEF HangsUp, Forces, Next, ShutdownStep
  <1>9. ASSUME NEW s \in Sessions, NEW p \in Processes,
               HandshakeEnds(s, p) \/ ProcessLives(s, p)
        PROVE  Next
    BY <1>9 DEF HandshakeEnds, ProcessLives, Next, ProcessStep
  <1>10. ASSUME NEW s \in Sessions, NEW p \in Processes, Dialing(s, p)
         PROVE  UNCHANGED vars
    BY <1>1, <1>10 DEF Dialing
  <1>11. ASSUME NEW c \in Stoppers, StopsRoute(c) \/ StopGivesUp(c)
         PROVE  UNCHANGED vars
    BY <1>1, <1>11 DEF StopsRoute, StopGivesUp
  <1> QED BY <1>2, <1>3, <1>4, <1>5, <1>6, <1>7, <1>8, <1>9, <1>10, <1>11 DEF CNext
LEMMA SameNext ==
  ASSUME [Vpn!Next]_(Vpn!vpnVars)
  PROVE  [R!Next]_(R!vpnVars)
  <1>1. \A d, automated : Vpn!Ask(d, automated) => R!Ask(d, automated)
    BY DEF Vpn!Ask, R!Ask, Vpn!Moves, R!Moves
  <1>2. \A d : Vpn!AskFails(d) => R!AskFails(d)
    BY DEF Vpn!AskFails, R!AskFails, Vpn!Moves, R!Moves, Vpn!routeVars, R!routeVars
  <1>3. \A d : Vpn!Queue(d) => R!Queue(d)
    BY DEF Vpn!Queue, R!Queue, Vpn!Moves, R!Moves, Vpn!routeVars, R!routeVars
  <1>4. \A d : Vpn!GiveUp(d) => R!GiveUp(d)
    BY DEF Vpn!GiveUp, R!GiveUp, Vpn!StartEnds, R!StartEnds, Vpn!release, R!release,
           Vpn!Moves, R!Moves
  <1>5. \A d : Vpn!Overtaken(d) => R!Overtaken(d)
    BY DEF Vpn!Overtaken, R!Overtaken, Vpn!release, R!release, Vpn!Moves, R!Moves
  <1>6. \A d : Vpn!Serves(d) => R!Serves(d)
    BY DEF Vpn!Serves, R!Serves, Vpn!Begins, R!Begins, Vpn!Moves, R!Moves, Vpn!Served,
           R!Served
  <1>7. \A d : Vpn!Rebuild(d) => R!Rebuild(d)
    BY DEF Vpn!Rebuild, R!Rebuild, Vpn!Begins, R!Begins, Vpn!Broken, R!Broken,
           Vpn!Starters, R!Starters, Vpn!Users, R!Users
  <1>8. \A d : Vpn!BeginFails(d) => R!BeginFails(d)
    BY DEF Vpn!BeginFails, R!BeginFails, Vpn!release, R!release, Vpn!Moves, R!Moves
  <1>9. \A d : Vpn!Started(d) => R!Started(d)
    BY DEF Vpn!Started, R!Started, Vpn!Moves, R!Moves, Vpn!Served, R!Served
  <1>10. \A d : Vpn!StartFails(d) => R!StartFails(d)
    BY DEF Vpn!StartFails, R!StartFails, Vpn!StartEnds, R!StartEnds, Vpn!release,
           R!release, Vpn!Moves, R!Moves
  <1>11. \A d : Vpn!Connect(d) => R!Connect(d)
    BY DEF Vpn!Connect, R!Connect, Vpn!Moves, R!Moves, Vpn!routeVars, R!routeVars
  <1>12. \A d : Vpn!ConnectFails(d) => R!ConnectFails(d)
    BY DEF Vpn!ConnectFails, R!ConnectFails, Vpn!release, R!release, Vpn!Moves, R!Moves
  <1>13. \A d : Vpn!CloseConnection(d) => R!CloseConnection(d)
    BY DEF Vpn!CloseConnection, R!CloseConnection, Vpn!release, R!release, Vpn!Moves,
           R!Moves
  <1>14. \A d : Vpn!Relay(d) => R!Relay(d)
    BY DEF Vpn!Relay, R!Relay, Vpn!Moves, R!Moves
  <1>15. \A c, kind : Vpn!RequestStop(c, kind) => R!RequestStop(c, kind)
    BY DEF Vpn!RequestStop, R!RequestStop, Vpn!CancelStart, R!CancelStart, Vpn!Starters,
           R!Starters, Vpn!userVars, R!userVars
  <1>16. \A c : Vpn!StopGivesUp(c) => R!StopGivesUp(c)
    BY DEF Vpn!StopGivesUp, R!StopGivesUp, Vpn!routeVars, R!routeVars, Vpn!userVars,
           R!userVars
  <1>17. \A c : Vpn!StopLocks(c) => R!StopLocks(c)
    BY DEF Vpn!StopLocks, R!StopLocks, Vpn!userVars, R!userVars
  <1>18. \A c : Vpn!StopEnds(c) => R!StopEnds(c)
    BY DEF Vpn!StopEnds, R!StopEnds, Vpn!TakeDown, R!TakeDown, Vpn!Broken, R!Broken,
           Vpn!Users, R!Users, Vpn!Starters, R!Starters
  <1>19. \A c : Vpn!StopFails(c) => R!StopFails(c)
    BY DEF Vpn!StopFails, R!StopFails, Vpn!userVars, R!userVars
  <1>20. Vpn!IdleTimeout => R!IdleTimeout
    BY DEF Vpn!IdleTimeout, R!IdleTimeout, Vpn!userVars, R!userVars
  <1>21. Vpn!SweepLooks => R!SweepLooks
    BY DEF Vpn!SweepLooks, R!SweepLooks, Vpn!idleLongerThan, R!idleLongerThan,
           Vpn!routeVars, R!routeVars, Vpn!userVars, R!userVars
  <1>22. Vpn!SweepLocks => R!SweepLocks
    BY DEF Vpn!SweepLocks, R!SweepLocks, Vpn!idleLongerThan, R!idleLongerThan,
           Vpn!userVars, R!userVars
  <1>23. Vpn!SweepStops => R!SweepStops
    BY DEF Vpn!SweepStops, R!SweepStops, Vpn!TakeDown, R!TakeDown, Vpn!Broken, R!Broken,
           Vpn!Users, R!Users, Vpn!Starters, R!Starters
  <1>24. Vpn!Quit => R!Quit
    BY DEF Vpn!Quit, R!Quit, Vpn!CancelStart, R!CancelStart, Vpn!Starters, R!Starters,
           Vpn!userVars, R!userVars
  <1>25. Vpn!Starters = R!Starters /\ Vpn!Users = R!Users
    BY DEF Vpn!Starters, R!Starters, Vpn!Users, R!Users
  <1>26. \A d \in R!Starters : Vpn!DialStep(d) => R!DialStep(d)
    BY <1>1, <1>2, <1>3, <1>4, <1>5, <1>6, <1>7, <1>8, <1>9, <1>10
    DEF Vpn!DialStep, R!DialStep
  <1>27. \A d \in R!Users : Vpn!UserStep(d) => R!UserStep(d)
    BY <1>11, <1>12, <1>13, <1>14 DEF Vpn!UserStep, R!UserStep
  <1>28. \A c \in Stoppers : Vpn!StopStep(c) => R!StopStep(c)
    BY <1>15, <1>16, <1>17, <1>18, <1>19 DEF Vpn!StopStep, R!StopStep
  <1>29. Vpn!EngineStep => R!EngineStep
    BY <1>20, <1>21, <1>22, <1>23, <1>24 DEF Vpn!EngineStep, R!EngineStep
  <1>30. UNCHANGED Vpn!vpnVars => UNCHANGED R!vpnVars
    BY DEF Vpn!vpnVars, R!vpnVars, Vpn!routeVars, R!routeVars, Vpn!userVars, R!userVars
  <1> QED BY <1>25, <1>26, <1>27, <1>28, <1>29, <1>30 DEF Vpn!Next, R!Next

LEMMA SameInit == Vpn!Init => R!Init
  BY DEF Vpn!Init, R!Init, Vpn!Starters, R!Starters, Vpn!Users, R!Users

-----------------------------------------------------------------------------
(* The composition *)

LEMMA ComposedInit ==
  ASSUME CInit
  PROVE  ComposedInv
  <1>1. SessionsInv BY InitSessions DEF CInit
  <1>2. R!RouteInv BY SameInit, RouteIsOK, R!InitRoute DEF CInit
  <1>3. OwnOK BY ConnectionsAssumption DEF CInit, OwnOK
  <1> QED BY <1>1, <1>2, <1>3 DEF ComposedInv

\* Who asks has a request left; only Reopened marks a process.
LEMMA OwnStep ==
  ASSUME CNext, OwnOK
  PROVE  OwnOK'
  <1> USE DEF OwnOK
  <1>1. ASSUME Going, Aside \/ Below PROVE OwnOK' BY <1>1 DEF Going, Aside, Below
  <1>2. CASE Request BY <1>2 DEF Request, Asked, Aside, Below
  <1>3. ASSUME NEW s \in Sessions, Reopened(s) PROVE OwnOK'
    <2>1. automatic' = [automatic EXCEPT ![<<s, Next1(s)>>] = TRUE]
          /\ UNCHANGED <<routed, requests>>
      BY <1>3 DEF Reopened, Going
    <2> HIDE DEF Next1
    <2> QED BY <2>1
  <1>4. ASSUME NEW s \in Sessions,
               \/ Sequel(s) \/ Ends(s) \/ Calling(s) \/ Stops(s) \/ Closes(s)
               \/ HangsUp(s) \/ Forces(s)
               \/ \E p \in Processes : HandshakeEnds(s, p) \/ ProcessLives(s, p)
                                       \/ Dialing(s, p)
        PROVE  OwnOK'
    BY <1>1, <1>4 DEF Sequel, Ends, Calling, Stops, Closes, HangsUp, Forces, HandshakeEnds,
       ProcessLives, Dialing
  <1>5. CASE Whim \/ Waits \/ CommandLine \/ Supervises
             \/ \E c \in Stoppers : StopsRoute(c) \/ StopGivesUp(c)
    BY <1>1, <1>5 DEF Whim, Waits, CommandLine, Supervises, StopsRoute, StopGivesUp
  <1> QED BY <1>2, <1>3, <1>4, <1>5 DEF CNext, Pumping

LEMMA ComposedStep ==
  ASSUME ComposedInv, [CNext]_allVars
  PROVE  /\ ComposedInv' /\ [Next]_vars /\ [R!Next]_(R!vpnVars) /\ [Vpn!Next]_(Vpn!vpnVars)
  <1>1. CASE CNext
    <2>1. [Next]_vars /\ [Vpn!Next]_(Vpn!vpnVars) /\ OwnOK'
      BY <1>1, IsSessionsStep, IsRouteStep, OwnStep DEF ComposedInv
    <2> QED BY <2>1, SameNext, RouteIsOK, SessionsStep, R!RouteStep DEF ComposedInv
  <1>2. CASE UNCHANGED allVars
    <2>1. UNCHANGED vars /\ OwnOK' BY <1>2 DEF allVars, ComposedInv, OwnOK
    <2>2. UNCHANGED Vpn!vpnVars
      BY <1>2 DEF allVars, routeVars, Vpn!vpnVars, Vpn!routeVars, Vpn!userVars
    <2> QED BY <2>1, <2>2, SameNext, RouteIsOK, SessionsStep, R!RouteStep DEF ComposedInv
  <1> QED BY <1>1, <1>2

\* The conjunction of the two inductive invariants is one of the composition.
THEOREM ComposedInvariant == CSpec => []ComposedInv
  <1>1. ComposedInv /\ [CNext]_allVars => ComposedInv' BY ComposedStep
  <1> QED BY <1>1, ComposedInit, PTL DEF CSpec

\* Whatever the connections of the terminals do, the route goes on as VpnRoute says,
\* and the sessions as TerminalSessions says.
THEOREM RouteRefined == CSpec => Vpn!Spec
  <1>1. CInit => Vpn!Init BY DEF CInit
  <1>2. ComposedInv /\ [CNext]_allVars => [Vpn!Next]_(Vpn!vpnVars) BY ComposedStep
  <1> QED BY <1>1, <1>2, ComposedInvariant, PTL DEF CSpec, Vpn!Spec

THEOREM SessionsRefined == CSpec => Spec
  <1>1. CInit => Init BY DEF CInit
  <1>2. ComposedInv /\ [CNext]_allVars => [Next]_vars BY ComposedStep
  <1> QED BY <1>1, <1>2, ComposedInvariant, PTL DEF CSpec, Spec

\* Sessions, route and their link are well typed.
THEOREM ComposedTypeCorrect == CSpec => []CTypeOK
  <1>1. ComposedInv => CTypeOK
    <2>1. R!TypeOK => Vpn!TypeOK
      BY SameCardinality
      DEF R!TypeOK, Vpn!TypeOK, R!Starters, Vpn!Starters, R!Users, Vpn!Users
    <2> QED BY <2>1 DEF ComposedInv, SessionsInv, R!RouteInv, OwnOK, CTypeOK
  <1> QED BY <1>1, ComposedInvariant, PTL

\* No process runs without a goroutine that will read it to its end or discard it, and
\* the limit on sessions holds, through every race of Open, Reconnect, the automatic
\* reconnection, Close and the shutdown (terminal/registry.go, session.go, reconnect.go).
THEOREM ProcessesAccounted == CSpec => []ProcessesAreAccounted
  <1>1. ComposedInv => ProcessesAreAccounted BY InvAccounted DEF ComposedInv
  <1> QED BY <1>1, ComposedInvariant, PTL

\* A session the user closed never gets a process or becomes connected again
\* (session.go, stoppedLocked).
THEOREM ClosedStays == CSpec => ClosedStaysClosed
  <1>1. ComposedInv /\ [CNext]_allVars =>
          [\A s \in Sessions : discarded[s] =>
             /\ process'[s] \in {process[s], None}
             /\ state'[s] = "connected" => state[s] = "connected"]_vars
    BY ComposedStep, StepClosed DEF ComposedInv
  <1> QED BY <1>1, ComposedInvariant, PTL DEF CSpec, ClosedStaysClosed

\* The borrow count of the route equals the number of its users (vpn/lifecycle.go,
\* borrow and release; sshclient, Dial).
THEOREM RouteAccounted == CSpec => []RouteIsAccounted
  <1>1. R!Borrowers = Vpn!Borrowers BY DEF R!Borrowers, Vpn!Borrowers
  <1>2. ComposedInv => RouteIsAccounted
    BY <1>1, SameCardinality
    DEF ComposedInv, R!RouteInv, R!OpenIsExact, Vpn!OpenIsExact, RouteIsAccounted
  <1> QED BY <1>2, ComposedInvariant, PTL

\* A route remembered as disconnected is down or being stopped (vpn/manager.go,
\* Disconnect, startLocked and stopLocked).
THEOREM DisconnectedDown == CSpec => []DisconnectedIsDown
  <1>1. ComposedInv => DisconnectedIsDown
    BY RouteIsOK, R!InvDisconnected
    DEF ComposedInv, R!DisconnectedIsDown, Vpn!DisconnectedIsDown, DisconnectedIsDown
  <1> QED BY <1>1, ComposedInvariant, PTL

\* A start does not bring the route up after a stop requested while it waited, unless
\* that stop cancelled it (vpn/manager.go, beginStart and requestStop).
THEOREM StopsWin == CSpec => StopWins
  <1>1. ComposedInv /\ [CNext]_allVars =>
          [~running /\ running' => snap[holder] = stops \/ cancelled[holder] # "no"]_
            (Vpn!vpnVars)
    BY ComposedStep, RouteIsOK, R!StepStopWins DEF ComposedInv
  <1> QED BY <1>1, ComposedInvariant, PTL DEF CSpec, StopWins, Vpn!StopWins

\* The supervisor never takes the route from under a Dial (vpn/lifecycle.go, stopIfIdle).
THEOREM DialsSpared == CSpec => SweepSparesDials
  <1>1. ComposedInv /\ [CNext]_allVars =>
          [sweep = "stopping" /\ sweep' = "none" =>
             \A d \in Dials : dial[d] \notin {"building", "connecting", "connected"}]_
            (Vpn!vpnVars)
    BY RouteIsOK, R!StepSweepSparesDials DEF ComposedInv
  <1> QED BY <1>1, ComposedInvariant, PTL DEF CSpec, SweepSparesDials, Vpn!SweepSparesDials
=============================================================================

--------------------------- MODULE VpnRouteProofs ---------------------------
(***************************************************************************)
(* The inductive invariant of VpnRoute, proved for any users and callers   *)
(* of the route.  It has three parts: who holds the transition lock (a     *)
(* start that builds, a stop, or the supervisor, and never two of them),   *)
(* the exact count of the borrows, and what is known while each of the     *)
(* three holds the lock.  DisconnectedIsDown, StopWins and SweepSparesDials *)
(* are not inductive by themselves: each relies on what the holder of the  *)
(* lock established before it.                                             *)
(***************************************************************************)
EXTENDS VpnRoute, FiniteSetTheorems, TLAPS

\* What the proofs need of the constants: identities are told apart, and there are
\* finitely many users.
RouteOK ==
  /\ Dials \cap Ups = {} /\ Starters \cap Relays = {} /\ Users \cap Stoppers = {}
  /\ Free \notin Users \cup Stoppers /\ Sweeper \notin Users \cup Stoppers
  /\ Free # Sweeper
  /\ IsFiniteSet(Users)
  /\ MaxStops \in Nat

Borrowing == {"borrowed", "queued", "building", "connecting", "connected", "broken"}

\* Start alone never borrows, and the relay never starts the route.
UsersOK ==
  /\ \A d \in Ups : dial[d] \in {"idle", "queued", "building", "closed", "failed",
                                 "refused"}
  /\ \A d \in Relays : dial[d] \notin {"borrowed", "queued", "building"}

\* Whoever is at work on the route holds the transition lock.
LockOK ==
  /\ \A d \in Starters : /\ holder = d <=> dial[d] = "building"
                         /\ starter = d <=> dial[d] = "building"
  /\ \A c \in Stoppers : holder = c <=> stopping[c] \in {"stopping", "disconnecting"}
  /\ holder = Sweeper <=> sweep = "stopping"

\* A start that builds has forgotten the disconnection, and no stop it has not been
\* cancelled for was requested since it began to wait.
BuildOK ==
  \A d \in Starters : dial[d] = "building" =>
     /\ ~disconnected
     /\ snap[d] = stops \/ cancelled[d] # "no"

\* A route that is up is remembered as disconnected only while it is disconnected.
StopOK ==
  disconnected /\ running => \E c \in Stoppers : stopping[c] = "disconnecting"

\* No Dial has passed the lock while the supervisor holds it.
SweepOK ==
  sweep = "stopping" => \A d \in Dials : dial[d] \notin {"connecting", "connected"}

RouteInv ==
  /\ TypeOK /\ UsersOK /\ LockOK /\ OpenIsExact /\ BuildOK /\ StopOK /\ SweepOK

-----------------------------------------------------------------------------
(* The borrow count *)

LEMMA FewBorrowers ==
  ASSUME RouteOK
  PROVE  /\ IsFiniteSet(Borrowers)
         /\ Cardinality(Borrowers) \in 0 .. Cardinality(Users)
         /\ Cardinality(Users) \in Nat
  <1>1. Borrowers \subseteq Users BY DEF Borrowers, Users, Starters
  <1>2. IsFiniteSet(Users) BY DEF RouteOK
  <1> QED BY <1>1, <1>2, FS_Subset, FS_CardinalityType

\* A user that moves enters the borrowers, leaves them or changes nothing.
LEMMA BorrowersMove ==
  ASSUME RouteOK, TypeOK, UsersOK, NEW d \in Users, NEW to, Moves(d, to)
  PROVE  Borrowers' = IF d \notin Ups /\ to \in Borrowing THEN Borrowers \cup {d}
                      ELSE Borrowers \ {d}
  BY DEF RouteOK, TypeOK, UsersOK, Moves, Borrowers, Borrowing, Users, Starters

\* Breaking the connections of a container borrows and returns nothing.
LEMMA BorrowersBreak ==
  ASSUME TypeOK, dial' = Broken(dial)
  PROVE  Borrowers' = Borrowers
  BY DEF TypeOK, Broken, Borrowers, Users, Starters

LEMMA BorrowOne ==
  ASSUME RouteOK, TypeOK, UsersOK, OpenIsExact, NEW d \in Users \ Ups, d \notin Borrowers,
         NEW to \in Borrowing, Moves(d, to), open' = open + 1
  PROVE  OpenIsExact' /\ open' \in 0 .. Cardinality(Users)
  <1>1. Borrowers' = Borrowers \cup {d} BY BorrowersMove
  <1>2. Cardinality(Borrowers \cup {d}) = Cardinality(Borrowers) + 1
    BY FewBorrowers, FS_AddElement
  <1>3. OpenIsExact' BY <1>1, <1>2 DEF OpenIsExact
  <1>4. Borrowers \cup {d} \subseteq Users BY DEF Borrowers, Users, Starters
  <1>5. Cardinality(Borrowers \cup {d}) <= Cardinality(Users)
    BY <1>4, FS_Subset DEF RouteOK
  <1> QED BY <1>1, <1>2, <1>3, <1>5, FewBorrowers DEF OpenIsExact

LEMMA ReturnOne ==
  ASSUME RouteOK, TypeOK, UsersOK, OpenIsExact, NEW d \in Users,
         d \in Ups \/ d \in Borrowers, NEW to, to \notin Borrowing, Moves(d, to),
         release(d)
  PROVE  /\ OpenIsExact' /\ open' \in 0 .. Cardinality(Users)
         /\ idle' \in BOOLEAN
  <1>1. Borrowers' = Borrowers \ {d} BY BorrowersMove
  <1>2. CASE d \in Ups
    <2>1. d \notin Borrowers BY <1>2 DEF Borrowers, RouteOK, Starters
    <2> QED BY <1>1, <1>2, <2>1, FewBorrowers DEF OpenIsExact, release, TypeOK
  <1>3. CASE d \notin Ups
    <2>1. Cardinality(Borrowers \ {d}) = Cardinality(Borrowers) - 1
      BY <1>3, FewBorrowers, FS_RemoveElement
    <2>2. open \in Nat /\ open > 0
      BY <1>3, <2>1, FewBorrowers, FS_CardinalityType, FS_RemoveElement, FS_Subset
      DEF OpenIsExact
    <2>3. open' = open - 1 BY <1>3, <2>2 DEF release
    <2>4. OpenIsExact' BY <1>1, <2>1, <2>3 DEF OpenIsExact
    <2>5. idle' \in BOOLEAN BY <1>3 DEF release, TypeOK
    <2>6. open' \in 0 .. Cardinality(Users)
      BY <2>2, <2>3, FewBorrowers DEF OpenIsExact
    <2> QED BY <2>4, <2>5, <2>6
  <1> QED BY <1>2, <1>3

\* A move inside the borrowers, or one of Start alone, leaves the count as it is.
LEMMA KeepCount ==
  ASSUME RouteOK, TypeOK, UsersOK, OpenIsExact, NEW d \in Users, NEW to, Moves(d, to),
         d \in Ups \/ (d \in Borrowers /\ to \in Borrowing)
           \/ (d \notin Borrowers /\ to \notin Borrowing),
         open' = open
  PROVE  OpenIsExact'
  <1>1. d \in Ups => d \notin Borrowers BY DEF Borrowers, RouteOK, Starters
  <1>2. Borrowers' = Borrowers BY <1>1, BorrowersMove
  <1> QED BY <1>2 DEF OpenIsExact
-----------------------------------------------------------------------------
(* Steps *)

LEMMA InitRoute ==
  ASSUME RouteOK, Init
  PROVE  RouteInv
  <1>1. Borrowers = {} BY DEF Init, Borrowers, Users, Starters
  <1>2. OpenIsExact BY <1>1, FS_EmptySet DEF OpenIsExact, Init
  <1>0. 0 \in 0 .. Cardinality(Users) /\ 0 \in 0 .. MaxStops
    BY FewBorrowers DEF RouteOK
  <1>3. TypeOK BY <1>0 DEF Init, TypeOK
  <1>4. UsersOK BY DEF Init, UsersOK, Users, Starters
  <1>5. LockOK
    <2>1. holder = Free /\ starter = Free /\ sweep = "none" BY DEF Init
    <2>2. \A d \in Starters : d # Free /\ dial[d] = "idle" /\ d # Sweeper
      BY DEF Init, RouteOK, Users
    <2>3. \A c \in Stoppers : c # Free /\ stopping[c] = "none" /\ c # Sweeper
      BY DEF Init, RouteOK
    <2>4. Free # Sweeper BY DEF RouteOK
    <2>5. \A d \in Starters : (holder = d <=> dial[d] = "building")
                              /\ (starter = d <=> dial[d] = "building")
      BY <2>1, <2>2
    <2>6. \A c \in Stoppers : holder = c <=> stopping[c] \in {"stopping", "disconnecting"}
      BY <2>1, <2>3
    <2>7. holder = Sweeper <=> sweep = "stopping"
      BY <2>1, <2>4
    <2> QED BY <2>5, <2>6, <2>7 DEF LockOK
  <1>6. BuildOK /\ StopOK /\ SweepOK
    BY DEF Init, BuildOK, StopOK, SweepOK, Users, Starters
  <1> QED BY <1>2, <1>3, <1>4, <1>5, <1>6 DEF RouteInv

LEMMA StepAsk ==
  ASSUME RouteOK, RouteInv, NEW d \in Starters,
         (\E automatic \in BOOLEAN : Ask(d, automatic)) \/ AskFails(d) \/ Queue(d)
  PROVE  RouteInv'
  <1> USE DEF RouteInv
  <1>1. d \in Users BY DEF Users
  <1>2. OpenIsExact' /\ open' \in 0 .. Cardinality(Users)
    <2>1. CASE \E automatic \in BOOLEAN : Ask(d, automatic)
      <3>1. PICK automatic \in BOOLEAN : Ask(d, automatic) BY <2>1
      <3>2. d \in Users \ Ups /\ d \notin Borrowers
        BY <1>1, <3>1 DEF Ask, RouteOK, Borrowers
      <3>3. CASE disconnected /\ automatic
        BY <1>1, <3>1, <3>2, <3>3, KeepCount DEF Ask, TypeOK, Borrowing
      <3>4. CASE ~(disconnected /\ automatic)
        BY <3>1, <3>2, <3>4, BorrowOne DEF Ask, Borrowing
      <3> QED BY <3>3, <3>4
    <2>2. CASE AskFails(d)
      <3>1. d \notin Borrowers BY <2>2 DEF AskFails, Borrowers
      <3> QED BY <1>1, <2>2, <3>1, KeepCount DEF AskFails, routeVars, TypeOK, Borrowing
    <2>3. CASE Queue(d)
      <3>1. d \in Ups \/ d \in Borrowers
        BY <2>3 DEF Queue, Borrowers, Starters
      <3> QED BY <1>1, <2>3, <3>1, KeepCount DEF Queue, routeVars, TypeOK, Borrowing
    <2> QED BY <2>1, <2>2, <2>3
  <1>3. TypeOK' BY <1>1, <1>2 DEF Ask, AskFails, Queue, routeVars, Moves, TypeOK
  <1>4. UsersOK'
    BY <1>1 DEF Ask, AskFails, Queue, routeVars, Moves, TypeOK, UsersOK, RouteOK, Starters, Users
  <1>5. LockOK'
    BY <1>1 DEF Ask, AskFails, Queue, routeVars, Moves, TypeOK, LockOK, RouteOK, Starters, Users
  <1>6. BuildOK'
    BY <1>1 DEF Ask, AskFails, Queue, routeVars, Moves, TypeOK, BuildOK, RouteOK, Starters, Users
  <1>7. StopOK' /\ SweepOK'
    BY <1>1 DEF Ask, AskFails, Queue, routeVars, Moves, TypeOK, StopOK, SweepOK, RouteOK, Starters, Users
  <1> QED BY <1>2, <1>3, <1>4, <1>5, <1>6, <1>7

\* A start that ends without success gives its borrow back.
LEMMA StepGivesUp ==
  ASSUME RouteOK, RouteInv, NEW d \in Starters,
         GiveUp(d) \/ Overtaken(d) \/ BeginFails(d)
  PROVE  RouteInv'
  <1> USE DEF RouteInv
  <1>1. d \in Users BY DEF Users
  <1>2. d \in Ups \/ d \in Borrowers
    BY DEF GiveUp, Overtaken, BeginFails, Borrowers, Starters
  <1>3. PICK to \in {"failed", "refused"} : Moves(d, to) /\ release(d)
    BY DEF GiveUp, Overtaken, BeginFails, StartEnds
  <1>4. OpenIsExact' /\ open' \in 0 .. Cardinality(Users) /\ idle' \in BOOLEAN
    BY <1>1, <1>2, <1>3, ReturnOne DEF Borrowing
  <1>5. /\ UNCHANGED <<holder, running, container, stops, cause, starter,
                        cancelled, quitting, snap, stopping, sweep>>
    BY DEF GiveUp, Overtaken, BeginFails
  <1>50. disconnected' = disconnected \/ disconnected' = FALSE
    BY DEF GiveUp, Overtaken, BeginFails
  <1>51. disconnected' \in BOOLEAN /\ (disconnected' => disconnected)
    <2>1. disconnected \in BOOLEAN BY DEF TypeOK
    <2>2. CASE disconnected' = disconnected BY <2>1, <2>2
    <2>3. CASE disconnected' = FALSE BY <2>3
    <2> QED BY <1>50, <2>2, <2>3
  <1>6. dial[d] = "queued" BY DEF GiveUp, Overtaken, BeginFails
  <1>7. TypeOK'
    <2>1. dial' \in [Users -> {"idle", "borrowed", "queued", "building",
                               "connecting", "connected", "broken", "closed",
                               "failed", "refused"}]
      BY <1>1, <1>3 DEF Moves, TypeOK
    <2> QED BY <1>4, <1>5, <1>51, <2>1 DEF TypeOK
  <1>8. UsersOK' BY <1>1, <1>3, <1>5, <1>6 DEF Moves, TypeOK, UsersOK
  <1>9. LockOK'
    BY <1>1, <1>3, <1>5, <1>6 DEF Moves, TypeOK, LockOK, Users
  <1>10. BuildOK'
    BY <1>1, <1>3, <1>5, <1>51, <1>6 DEF Moves, TypeOK, BuildOK, Users
  <1>11. StopOK' /\ SweepOK'
    BY <1>1, <1>3, <1>5, <1>51, <1>6 DEF Moves, TypeOK, StopOK, SweepOK, Users, Starters
  <1> QED BY <1>4, <1>7, <1>8, <1>9, <1>10, <1>11

LEMMA StepServes ==
  ASSUME RouteOK, RouteInv, NEW d \in Starters, Serves(d)
  PROVE  RouteInv'
  <1> USE DEF RouteInv
  <1>1. d \in Users /\ Moves(d, Served(d)) /\ open' = open
    BY DEF Serves, Users
  <1>2. OpenIsExact'
    <2>1. d \in Ups \/ d \in Borrowers
      BY DEF Serves, Begins, Borrowers, Starters
    <2>2. d \in Ups \/ Served(d) \in Borrowing BY DEF Served, Borrowing
    <2> QED BY <1>1, <2>1, <2>2, KeepCount
  <1>3. TypeOK' BY <1>1 DEF Serves, Begins, Served, Moves, TypeOK
  <1>4. UsersOK'
    BY <1>1 DEF Serves, Begins, Served, Moves, TypeOK, UsersOK, RouteOK, Starters
  <1>5. LockOK' BY <1>1 DEF Serves, Begins, Served, Moves, TypeOK, LockOK, Users
  <1>6. dial[d] = "queued" /\ ~disconnected' BY DEF Serves, Begins
  <1>8. BuildOK' BY <1>1, <1>6 DEF Serves, Served, Moves, TypeOK, BuildOK, Users
  <1>9. StopOK' BY <1>6 DEF StopOK
  <1>7. SweepOK'
    BY <1>1 DEF Serves, Begins, LockOK, SweepOK, RouteOK
  <1> QED BY <1>2, <1>3, <1>4, <1>5, <1>7, <1>8, <1>9

LEMMA StepRebuild ==
  ASSUME RouteOK, RouteInv, NEW d \in Starters, Rebuild(d)
  PROVE  RouteInv'
  <1> USE DEF RouteInv
  <1>1. d \in Users /\ dial[d] = "queued" BY DEF Rebuild, Begins, Users
  <1>2. \A u \in Users : dial'[u] = IF u = d THEN "building"
                                    ELSE IF dial[u] = "connected" THEN "broken"
                                    ELSE dial[u]
    BY <1>1 DEF Rebuild, Broken, TypeOK
  <1>3. OpenIsExact'
    <2>1. Borrowers' = Borrowers
      BY <1>1, <1>2 DEF Borrowers, Users, Starters
    <2> QED BY <2>1 DEF Rebuild, OpenIsExact
  <1>4. TypeOK' BY <1>1 DEF Rebuild, Begins, Broken, TypeOK
  <1>5. UsersOK' BY <1>1, <1>2 DEF UsersOK, RouteOK, Users, Starters
  <1>6. LockOK'
    BY <1>1, <1>2 DEF Rebuild, Begins, LockOK, RouteOK, Users, Starters
  <1>7. BuildOK'
    BY <1>1, <1>2 DEF Rebuild, Begins, BuildOK, LockOK, RouteOK, Users, Starters
  <1>8. StopOK' /\ SweepOK'
    BY <1>1, <1>2 DEF Rebuild, Begins, StopOK, SweepOK, Users, Starters
  <1> QED BY <1>3, <1>4, <1>5, <1>6, <1>7, <1>8

LEMMA StepBuilt ==
  ASSUME RouteOK, RouteInv, NEW d \in Starters, Started(d) \/ StartFails(d)
  PROVE  RouteInv'
  <1> USE DEF RouteInv
  <1>1. d \in Users /\ dial[d] = "building" BY DEF Started, StartFails, Users
  <1>2. d \in Ups \/ d \in Borrowers BY <1>1 DEF Borrowers, Starters
  <1>3. holder = d /\ starter = d /\ ~disconnected BY <1>1 DEF LockOK, BuildOK
  <1>4. holder' = Free /\ starter' = Free /\ ~disconnected'
    BY <1>3 DEF Started, StartFails
  <1>5. PICK to \in {"closed", "connecting", "failed", "refused"} :
          Moves(d, to) /\ (d \in Ups => to # "connecting")
    BY DEF Started, StartFails, StartEnds, Served
  <1>6. OpenIsExact' /\ open' \in 0 .. Cardinality(Users) /\ idle' \in BOOLEAN
    <2>1. CASE Started(d)
      <3>1. Moves(d, Served(d)) /\ open' = open /\ idle' = FALSE BY <2>1 DEF Started
      <3>2. d \in Ups \/ Served(d) \in Borrowing BY DEF Served, Borrowing
      <3> QED BY <1>1, <1>2, <3>1, <3>2, KeepCount DEF TypeOK
    <2>2. CASE StartFails(d)
      <3>1. PICK v \in {"refused", "failed"} : Moves(d, v) /\ release(d)
        BY <2>2 DEF StartFails, StartEnds
      <3> QED BY <1>1, <1>2, <3>1, ReturnOne DEF Borrowing
    <2> QED BY <2>1, <2>2
  <1>7. TypeOK'
    <2>1. dial' \in [Users -> {"idle", "borrowed", "queued", "building",
                               "connecting", "connected", "broken", "closed",
                               "failed", "refused"}]
      BY <1>5 DEF Moves, TypeOK
    <2>2. CASE Started(d) BY <1>4, <1>6, <2>1, <2>2 DEF Started, TypeOK
    <2>3. CASE StartFails(d)
      <3>1. UNCHANGED <<running, container, disconnected, stops, cause, cancelled,
                        quitting, snap, stopping, sweep>>
        BY <2>3 DEF StartFails
      <3> QED BY <1>4, <1>6, <2>1, <3>1 DEF TypeOK
    <2> QED BY <2>2, <2>3
  <1>8. UsersOK'
    BY <1>1, <1>5 DEF Moves, TypeOK, UsersOK
  <1>9. \A u \in Users : u # d => dial'[u] = dial[u]
    BY <1>5 DEF Moves, TypeOK
  <1>10. LockOK'
    <2>1. \A u \in Starters : u # Free /\ dial'[u] # "building"
      BY <1>1, <1>3, <1>5, <1>9 DEF LockOK, RouteOK, Users, Moves, TypeOK
    <2>2. \A c \in Stoppers : c # Free /\ c # d /\ stopping'[c] = stopping[c]
      BY <1>1 DEF Started, StartFails, RouteOK
    <2>3. sweep' = sweep /\ d # Sweeper /\ Free # Sweeper
      BY <1>1 DEF Started, StartFails, RouteOK
    <2> QED BY <1>3, <1>4, <2>1, <2>2, <2>3 DEF LockOK
  <1>11. BuildOK' BY <1>10, <1>4 DEF BuildOK, LockOK, RouteOK, Users
  <1>12. StopOK' BY <1>4 DEF StopOK
  <1>13. SweepOK'
    BY <1>3, <1>1 DEF Started, StartFails, LockOK, SweepOK, RouteOK
  <1> QED BY <1>6, <1>7, <1>8, <1>10, <1>11, <1>12, <1>13

\* What a user of a route that is up does.
LEMMA StepUser ==
  ASSUME RouteOK, RouteInv, NEW d \in Users, UserStep(d)
  PROVE  RouteInv'
  <1> USE DEF RouteInv
  <1>1. /\ UNCHANGED <<holder, running, container, disconnected, stops, cause, starter,
                        cancelled, quitting, snap, stopping, sweep>>
    BY DEF UserStep, Connect, ConnectFails, CloseConnection, Relay, routeVars
  <1>2. PICK to \in {"connecting", "connected", "failed", "closed"} :
          Moves(d, to) /\ (to = "connecting" => Relay(d))
                       /\ (to = "connected" => dial[d] = "connecting")
    BY DEF UserStep, Connect, ConnectFails, CloseConnection, Relay
  <1>3. d \notin Ups
    BY DEF UserStep, Connect, ConnectFails, CloseConnection, Relay, UsersOK, RouteOK,
       Starters
  <1>4. dial[d] # "building" /\ dial[d] # "queued"
    BY DEF UserStep, Connect, ConnectFails, CloseConnection, Relay
  <1>5. OpenIsExact' /\ open' \in 0 .. Cardinality(Users) /\ idle' \in BOOLEAN
    <2>1. CASE Connect(d)
      <3>1. d \in Borrowers /\ "connected" \in Borrowing
        BY <1>3, <2>1 DEF Connect, Borrowers, Borrowing, Users, Starters
      <3> QED BY <2>1, <3>1, KeepCount DEF Connect, routeVars, TypeOK
    <2>2. CASE ConnectFails(d) \/ CloseConnection(d)
      <3>1. d \in Borrowers
        BY <1>3, <2>2 DEF ConnectFails, CloseConnection, Borrowers, Users, Starters
      <3>2. PICK v \in {"failed", "closed"} : Moves(d, v) /\ release(d)
        BY <2>2 DEF ConnectFails, CloseConnection
      <3> QED BY <3>1, <3>2, ReturnOne DEF Borrowing
    <2>3. CASE Relay(d)
      <3>1. d \notin Borrowers BY <2>3 DEF Relay, Borrowers
      <3> QED BY <1>3, <2>3, <3>1, BorrowOne DEF Relay, Borrowing, TypeOK
    <2> QED BY <2>1, <2>2, <2>3 DEF UserStep
  <1>6. TypeOK'
    <2>1. dial' \in [Users -> {"idle", "borrowed", "queued", "building",
                               "connecting", "connected", "broken", "closed",
                               "failed", "refused"}]
      BY <1>2 DEF Moves, TypeOK
    <2> QED BY <1>1, <1>5, <2>1 DEF TypeOK
  <1>7. UsersOK' BY <1>2, <1>3 DEF Moves, TypeOK, UsersOK, Users, Starters
  <1>8. LockOK' BY <1>1, <1>2, <1>4 DEF Moves, TypeOK, LockOK, Users
  <1>9. BuildOK' BY <1>1, <1>2, <1>4 DEF Moves, TypeOK, BuildOK, Users
  <1>10. StopOK' BY <1>1 DEF StopOK
  <1>11. SweepOK'
    <2>1. Relay(d) => d \notin Dials BY DEF Relay, RouteOK, Starters
    <2> QED BY <1>1, <1>2, <2>1 DEF Moves, TypeOK, SweepOK, Users, Starters
  <1> QED BY <1>5, <1>6, <1>7, <1>8, <1>9, <1>10, <1>11

LEMMA StepStop ==
  ASSUME RouteOK, RouteInv, NEW c \in Stoppers,
         (\E kind \in {"stop", "disconnect"} : RequestStop(c, kind)) \/ StopGivesUp(c)
  PROVE  RouteInv'
  <1> USE DEF RouteInv
  <1>1. UNCHANGED <<holder, running, container, open, idle, disconnected, starter,
                    quitting, dial, snap, sweep>>
    BY DEF RequestStop, StopGivesUp, routeVars, userVars
  <1>2. PICK to \in {"stop", "disconnect", "none"} :
          /\ stopping' = [stopping EXCEPT ![c] = to]
          /\ stopping[c] \in {"none", "stop", "disconnect"}
    BY DEF RequestStop, StopGivesUp
  <1>3. Borrowers' = Borrowers BY <1>1 DEF Borrowers
  <1>4. OpenIsExact' BY <1>1, <1>3 DEF OpenIsExact
  <1>5. TypeOK'
    <2>1. stopping' \in [Stoppers -> {"none", "stop", "disconnect", "stopping",
                                      "disconnecting"}]
      BY <1>2 DEF TypeOK
    <2>2. /\ stops' \in 0 .. MaxStops
          /\ cause' \in {"stopped", "disconnected"}
          /\ cancelled' \in [Starters -> {"no", "stopped", "disconnected"}]
      BY DEF RequestStop, StopGivesUp, CancelStart, routeVars, TypeOK, RouteOK
    <2> QED BY <1>1, <2>1, <2>2 DEF TypeOK
  <1>6. UsersOK' BY <1>1 DEF UsersOK
  <1>7. LockOK' BY <1>1, <1>2 DEF LockOK, TypeOK
  <1>8. BuildOK'
    <2>1. CASE \E kind \in {"stop", "disconnect"} : RequestStop(c, kind)
      <3>1. CancelStart(cause') /\ cause' # "no" BY <2>1 DEF RequestStop
      <3>2. \A d \in Starters : dial[d] = "building" => cancelled'[d] # "no"
        BY <3>1 DEF CancelStart, LockOK
      <3> QED BY <1>1, <3>2 DEF BuildOK
    <2>2. CASE StopGivesUp(c)
      <3>1. stops' = stops /\ cancelled' = cancelled
        BY <2>2 DEF StopGivesUp, routeVars
      <3> QED BY <1>1, <3>1 DEF BuildOK
    <2> QED BY <2>1, <2>2
  <1>9. StopOK' BY <1>1, <1>2 DEF StopOK, TypeOK
  <1>10. SweepOK' BY <1>1 DEF SweepOK
  <1> QED BY <1>4, <1>5, <1>6, <1>7, <1>8, <1>9, <1>10

LEMMA StepStopLocked ==
  ASSUME RouteOK, RouteInv, NEW c \in Stoppers,
         StopLocks(c) \/ StopEnds(c) \/ StopFails(c)
  PROVE  RouteInv'
  <1> USE DEF RouteInv
  <1>1. UNCHANGED <<open, idle, stops, cause, starter, cancelled, quitting, snap, sweep>>
    BY DEF StopLocks, StopEnds, StopFails, userVars
  <1>2. dial' = dial \/ (dial' = Broken(dial) /\ running' = FALSE /\ container' = FALSE)
    BY DEF StopLocks, StopEnds, StopFails, userVars, TakeDown
  <1>3. PICK to \in {"none", "stopping", "disconnecting"} :
          stopping' = [stopping EXCEPT ![c] = to]
    BY DEF StopLocks, StopEnds, StopFails
  <1>4. \A u \in Users : dial'[u] = dial[u] \/ (dial[u] = "connected" /\ dial'[u] = "broken")
    BY <1>2 DEF Broken, TypeOK
  <1>5. \A d \in Starters : dial[d] # "building" /\ starter # d
    BY DEF StopLocks, StopEnds, StopFails, LockOK, RouteOK, Users
  <1>6. OpenIsExact'
    <2>1. Borrowers' = Borrowers
      BY <1>2, BorrowersBreak DEF Borrowers
    <2> QED BY <1>1, <2>1 DEF OpenIsExact
  <1>7. TypeOK'
    <2>1. dial' \in [Users -> {"idle", "borrowed", "queued", "building",
                               "connecting", "connected", "broken", "closed",
                               "failed", "refused"}]
      BY <1>2 DEF Broken, TypeOK
    <2>2. stopping' \in [Stoppers -> {"none", "stop", "disconnect", "stopping",
                                      "disconnecting"}]
      BY <1>3 DEF TypeOK
    <2>3. holder' \in Starters \cup Stoppers \cup {Free, Sweeper}
      BY DEF StopLocks, StopEnds, StopFails, TakeDown
    <2>4. running' \in BOOLEAN /\ container' \in BOOLEAN /\ disconnected' \in BOOLEAN
      <3>1. CASE StopLocks(c) BY <3>1 DEF StopLocks, TypeOK
      <3>2. CASE StopEnds(c) BY <3>2 DEF StopEnds, TakeDown, TypeOK
      <3>3. CASE StopFails(c) BY <3>3 DEF StopFails, TypeOK
      <3> QED BY <3>1, <3>2, <3>3
    <2> QED BY <1>1, <2>1, <2>2, <2>3, <2>4 DEF TypeOK
  <1>8. UsersOK' BY <1>4 DEF UsersOK, Users, Starters
  <1>9. LockOK'
    <2>1. \A d \in Starters : dial'[d] # "building" /\ starter' # d
      BY <1>1, <1>4, <1>5 DEF Users
    <2>2. \A b \in Stoppers : b # c => stopping'[b] = stopping[b]
      BY <1>3 DEF TypeOK
    <2>3. CASE StopLocks(c)
      <3>1. holder' = c /\ holder = Free /\ stopping'[c] \in {"stopping", "disconnecting"}
        BY <2>3 DEF StopLocks, TypeOK
      <3> QED BY <1>1, <2>1, <2>2, <3>1 DEF LockOK, RouteOK, Users
    <2>4. CASE StopEnds(c) \/ StopFails(c)
      <3>1. holder' = Free /\ stopping'[c] = "none"
            /\ stopping[c] \in {"stopping", "disconnecting"}
        BY <2>4 DEF StopEnds, StopFails, TakeDown, TypeOK
      <3>2. holder = c BY <3>1 DEF LockOK
      <3> QED BY <1>1, <2>1, <2>2, <3>1, <3>2 DEF LockOK, RouteOK, Users
    <2> QED BY <2>3, <2>4
  <1>10. BuildOK' BY <1>4, <1>5 DEF BuildOK, Users
  <1>11. StopOK'
    <2>1. CASE StopLocks(c)
      <3>1. \A b \in Stoppers : stopping[b] # "disconnecting"
        BY <2>1 DEF StopLocks, LockOK, RouteOK
      <3>2. ~(disconnected /\ running) BY <3>1 DEF StopOK
      <3>5. running' = running BY <2>1 DEF StopLocks
      <3>6. stopping[c] # "disconnect" => disconnected' = (disconnected \/ FALSE)
        BY <2>1 DEF StopLocks
      <3>3. CASE stopping[c] = "disconnect"
        <4>1. stopping'[c] = "disconnecting" BY <2>1, <3>3 DEF StopLocks, TypeOK
        <4> QED BY <4>1 DEF StopOK
      <3>4. CASE stopping[c] # "disconnect"
        BY <3>2, <3>4, <3>5, <3>6, Zenon DEF StopOK
      <3> QED BY <3>3, <3>4
    <2>2. CASE StopEnds(c) BY <2>2 DEF StopEnds, TakeDown, StopOK
    <2>3. CASE StopFails(c)
      <3>1. \A b \in Stoppers : stopping[b] = "disconnecting" => b = c
        BY <2>3 DEF StopFails, LockOK
      <3>2. running' = running /\ (disconnected' <=> (disconnected /\ stopping[c] # "disconnecting"))
        BY <2>3 DEF StopFails
      <3> QED BY <3>1, <3>2 DEF StopOK
    <2> QED BY <2>1, <2>2, <2>3
  <1>12. SweepOK' BY <1>1, <1>4 DEF SweepOK, Users, Starters
  <1> QED BY <1>6, <1>7, <1>8, <1>9, <1>10, <1>11, <1>12

LEMMA StepEngine ==
  ASSUME RouteOK, RouteInv, EngineStep
  PROVE  RouteInv'
  <1> USE DEF RouteInv
  <1>1. CASE IdleTimeout \/ SweepLooks
    <2>1. UNCHANGED <<holder, running, container, open, disconnected, stops, cause,
                      starter, cancelled, quitting, dial, snap, stopping>>
      BY <1>1 DEF IdleTimeout, SweepLooks, routeVars, userVars
    <2>2. (idle' = idle \/ idle' = TRUE)
          /\ (sweep' = sweep \/ (sweep = "none" /\ sweep' = "queued"))
      BY <1>1 DEF IdleTimeout, SweepLooks, routeVars
    <2>3. TypeOK'
      <3>1. idle' \in BOOLEAN /\ sweep' \in {"none", "queued", "stopping"} BY <2>2 DEF TypeOK
      <3>2. TypeOK OBVIOUS
      <3> HIDE DEF RouteInv
      <3> QED BY <2>1, <3>1, <3>2 DEF TypeOK
    <2>4. OpenIsExact' BY <2>1 DEF OpenIsExact, Borrowers
    <2>5. UsersOK' BY <2>1, <2>2 DEF UsersOK
    <2>8. LockOK' BY <2>1, <2>2 DEF LockOK
    <2>6. BuildOK' /\ StopOK' BY <2>1, <2>2 DEF BuildOK, StopOK
    <2>7. SweepOK' BY <2>1, <2>2 DEF SweepOK
    <2> QED BY <2>3, <2>4, <2>5, <2>6, <2>7, <2>8
  <1>2. CASE SweepLocks
    <2>1. UNCHANGED <<running, container, open, idle, disconnected, stops, cause,
                      starter, cancelled, quitting, dial, snap, stopping>>
      BY <1>2 DEF SweepLocks, userVars
    <2>2. \/ open = 0 /\ holder = Free /\ holder' = Sweeper /\ sweep' = "stopping"
          \/ holder = Free /\ holder' = Free /\ sweep = "queued" /\ sweep' = "none"
      BY <1>2 DEF SweepLocks, idleLongerThan
    <2>3. TypeOK' BY <2>1, <2>2 DEF TypeOK
    <2>4. OpenIsExact' BY <2>1 DEF OpenIsExact, Borrowers
    <2>5. LockOK' BY <2>1, <2>2 DEF LockOK, RouteOK, Users
    <2>6. SweepOK'
      <3>1. CASE open = 0
        <4>1. Borrowers = {} BY <3>1, FewBorrowers, FS_EmptySet DEF OpenIsExact
        <4> QED BY <2>1, <4>1 DEF Borrowers, SweepOK
      <3>2. CASE open # 0 BY <2>2, <3>2 DEF SweepOK
      <3> QED BY <3>1, <3>2
    <2> QED BY <2>1, <2>3, <2>4, <2>5, <2>6 DEF UsersOK, BuildOK, StopOK
  <1>3. CASE SweepStops
    <2>1. UNCHANGED <<open, idle, disconnected, stops, cause, starter, cancelled,
                      quitting, snap, stopping>>
          /\ running' = FALSE /\ container' = FALSE /\ holder' = Free
          /\ sweep' = "none" /\ sweep = "stopping" /\ dial' = Broken(dial)
      BY <1>3 DEF SweepStops, TakeDown
    <2>2. holder = Sweeper BY <2>1 DEF LockOK
    <2>3. \A u \in Users :
            dial'[u] = dial[u] \/ (dial[u] = "connected" /\ dial'[u] = "broken")
      BY <2>1 DEF Broken, TypeOK
    <2>4. OpenIsExact' BY <2>1, BorrowersBreak DEF OpenIsExact
    <2>5. TypeOK'
      <3>1. dial' \in [Users -> {"idle", "borrowed", "queued", "building",
                                 "connecting", "connected", "broken", "closed",
                                 "failed", "refused"}]
        BY <2>1 DEF Broken, TypeOK
      <3> QED BY <2>1, <3>1 DEF TypeOK
    <2>6. UsersOK' BY <2>3 DEF UsersOK, Users, Starters
    <2>7. LockOK' BY <2>1, <2>2, <2>3 DEF LockOK, RouteOK, Users
    <2>8. BuildOK' BY <2>1, <2>3 DEF BuildOK, Users
    <2>9. StopOK' /\ SweepOK' BY <2>1 DEF StopOK, SweepOK
    <2> QED BY <2>4, <2>5, <2>6, <2>7, <2>8, <2>9
  <1>4. CASE Quit
    <2>1. UNCHANGED <<holder, running, container, open, idle, disconnected, stops, cause,
                      starter, dial, snap, stopping, sweep>>
          /\ quitting' = TRUE /\ CancelStart("stopped")
      BY <1>4 DEF Quit, userVars
    <2>2. cancelled' \in [Starters -> {"no", "stopped", "disconnected"}]
          /\ \A d \in Starters : cancelled[d] # "no" => cancelled'[d] # "no"
      BY <2>1 DEF CancelStart, TypeOK
    <2>3. TypeOK' BY <2>1, <2>2 DEF TypeOK
    <2>4. OpenIsExact' BY <2>1 DEF OpenIsExact, Borrowers
    <2>5. BuildOK' BY <2>1, <2>2 DEF BuildOK
    <2> QED BY <2>1, <2>3, <2>4, <2>5 DEF UsersOK, LockOK, StopOK, SweepOK
  <1> QED BY <1>1, <1>2, <1>3, <1>4 DEF EngineStep

LEMMA StutterRoute ==
  ASSUME RouteInv, UNCHANGED vpnVars
  PROVE  RouteInv'
  BY DEF vpnVars, routeVars, userVars, RouteInv, TypeOK, UsersOK, LockOK, OpenIsExact,
         Borrowers, BuildOK, StopOK, SweepOK

LEMMA RouteStep ==
  ASSUME RouteOK, RouteInv, [Next]_vpnVars
  PROVE  RouteInv'
  <1>1. ASSUME NEW d \in Starters, DialStep(d) PROVE RouteInv'
    BY <1>1, StepAsk, StepGivesUp, StepServes, StepRebuild, StepBuilt DEF DialStep
  <1>2. ASSUME NEW c \in Stoppers, StopStep(c) PROVE RouteInv'
    BY <1>2, StepStop, StepStopLocked DEF StopStep
  <1> QED BY <1>1, <1>2, StepUser, StepEngine, StutterRoute DEF Next

-----------------------------------------------------------------------------
(* What follows *)

LEMMA InvDisconnected ==
  ASSUME RouteOK, RouteInv
  PROVE  DisconnectedIsDown
  BY DEF RouteInv, StopOK, LockOK, DisconnectedIsDown

\* Only a start that has built the route brings it up.
LEMMA UpByStart ==
  ASSUME RouteOK, RouteInv, [Next]_vpnVars, ~running, running'
  PROVE  \E d \in Starters : Started(d)
  <1>1. ASSUME NEW d \in Starters, DialStep(d) PROVE running' = running \/ ~running' \/ Started(d)
    BY <1>1 DEF DialStep, Ask, AskFails, Queue, GiveUp, Overtaken, Serves, Rebuild,
       BeginFails, StartFails, routeVars
  <1>2. ASSUME NEW d \in Users, UserStep(d) PROVE running' = running
    BY <1>2 DEF UserStep, Connect, ConnectFails, CloseConnection, Relay, routeVars
  <1>3. ASSUME NEW c \in Stoppers, StopStep(c) PROVE running' = running \/ ~running'
    BY <1>3 DEF StopStep, RequestStop, StopGivesUp, StopLocks, StopEnds, StopFails,
       TakeDown, routeVars
  <1>4. ASSUME EngineStep PROVE running' = running \/ ~running'
    BY <1>4 DEF EngineStep, IdleTimeout, SweepLooks, SweepLocks, SweepStops, Quit,
       TakeDown, routeVars
  <1>5. ASSUME UNCHANGED vpnVars PROVE running' = running
    BY <1>5 DEF vpnVars, routeVars
  <1> QED BY <1>1, <1>2, <1>3, <1>4, <1>5 DEF Next

LEMMA StepStopWins ==
  ASSUME RouteOK, RouteInv, [Next]_vpnVars, ~running, running'
  PROVE  snap[holder] = stops \/ cancelled[holder] # "no"
  <1>1. PICK d \in Starters : Started(d) BY UpByStart
  <1>2. dial[d] = "building" BY <1>1 DEF Started
  <1>3. holder = d BY <1>2 DEF RouteInv, LockOK
  <1> QED BY <1>2, <1>3 DEF RouteInv, BuildOK

LEMMA StepSweepSparesDials ==
  ASSUME RouteOK, RouteInv, sweep = "stopping", NEW d \in Dials
  PROVE  dial[d] \notin {"building", "connecting", "connected"}
  BY DEF RouteInv, LockOK, SweepOK, RouteOK, Starters, Users

-----------------------------------------------------------------------------
(* The route by itself *)

\* The inductive invariant: whoever works on the route holds its lock, the borrows are
\* counted, and what a start, a stop and the supervisor established stays true while
\* they hold the lock (manager.go, beginStart, stopLocked; lifecycle.go, stopIfIdle).
THEOREM RouteInvariant ==
  ASSUME RouteOK
  PROVE  Spec => []RouteInv
  <1>1. Init => RouteInv BY InitRoute
  <1>2. RouteInv /\ [Next]_vpnVars => RouteInv' BY RouteStep
  <1> QED BY <1>1, <1>2, PTL DEF Spec
=============================================================================

---------------------------- MODULE BrowserEntrance ----------------------------
(***************************************************************************)
(* How a browser enters: the registrations of browsers                     *)
(* (internal/browserauth), the sessions they lead to (internal/session),   *)
(* the handlers over both (httpserver/handlers.go), and the page that      *)
(* keeps the token (web/src/session).                                      *)
(*                                                                         *)
(* A registration is known by its token, which every recovery replaces.    *)
(* The token just replaced still leads to the current one for a minute,    *)
(* for the other tabs of the same browser; later it is taken for a copy.   *)
(* A step is one critical section of the store or of the sessions, or one  *)
(* answer that arrives.  Tokens are numbered in the order they are issued  *)
(* and stand for their hashes as well; the file lists the registrations    *)
(* here in the order of their last use.  CSRF and action tokens, the       *)
(* limits on requests and failures of the random source are left out.      *)
(***************************************************************************)
EXTENDS Integers, Sequences, FiniteSets, SequencesExt

CONSTANTS
    Tabs,               \* pairs of a browser profile and a number
    MaxRegistrations,   \* registrations kept
    MaxRetiredTokens,   \* retired tokens a registration remembers
    MaxTokens,          \* bound: tokens issued
    MaxSessions         \* bound: sessions issued

Profiles == {t[1] : t \in Tabs}

ASSUME EntranceAssumption ==
    /\ MaxRegistrations \in Nat \ {0} /\ MaxRetiredTokens \in Nat \ {0}
    /\ MaxTokens \in Nat \ {0} /\ MaxSessions \in Nat

VARIABLES
    \* the store, under its mutex
    doc,        \* the file of registrations, the longest unused first
    grace,      \* s.rotations that have not run out
    names,      \* s.identifiers, by current token
    named,      \* s.identifiers.issued
    \* the session manager, under its mutex
    sessions,
    link,       \* the bootstrap token has not been used
    \* the browsers
    stored,     \* the token in localStorage
    cookie,     \* the session cookie
    tab,        \* what each tab shows, or where its request is
    \* history
    family,     \* the first token of each token's registration
    born,       \* sessions issued
    answers,    \* answers made by the store
    adopted,    \* the latest answer each browser has stored the token of
    lost,       \* the latest answer with a token that never reached the browser
    excused,    \* registrations whose token was copied or lost by accident
    untied,     \* registrations that may have left a session behind: they went while a
                \* recovery was between its steps, to make room, or by a removal that was
                \* written but reported as failed; or such a write gave them a new token
    left        \* bounds

storeVars == <<doc, grace, names, named>>
sessionVars == <<sessions, link, born>>
browserVars == <<stored, cookie>>
ghostVars == <<answers, adopted, lost, excused, untied>>
vars == <<storeVars, sessionVars, browserVars, tab, family, ghostVars, left>>

NoSession == [alive |-> FALSE, name |-> 0, family |-> 0]
Closed == [at |-> "closed", token |-> 0, session |-> 0, name |-> 0, fresh |-> FALSE,
           n |-> 0]
Resting == \A t \in Tabs : tab[t].at \in {"closed", "open"}

Spend(what) == left[what] > 0 /\ left' = [left EXCEPT ![what] = @ - 1]

Goes(t, request) == tab' = [tab EXCEPT ![t] = request]
Turns(t, at) == tab' = [tab EXCEPT ![t].at = at]

(***************************************************************************)
(* The registrations                                                       *)
(***************************************************************************)

Currents(d) == {d[i].current : i \in DOMAIN d}

\* indexOf, of the current token or of the retired ones; 0 when there is none.
CurrentAt(token) ==
    IF token \in Currents(doc) THEN CHOOSE i \in DOMAIN doc : doc[i].current = token ELSE 0
RetiredAt(token) ==
    IF \E i \in DOMAIN doc : token \in ToSet(doc[i].retired)
    THEN CHOOSE i \in DOMAIN doc : token \in ToSet(doc[i].retired) ELSE 0

\* retire: the oldest generations beyond the limit are dropped.
Retire(retired, token) ==
    LET all == Append(retired, token)
    IN  IF Len(all) > MaxRetiredTokens THEN Tail(all) ELSE all

\* A registration that has just been used.
Used(d, i, r) == Append(RemoveAt(d, i), r)
Rotated(i, token) ==
    Used(doc, i, [current |-> token, retired |-> Retire(doc[i].retired, doc[i].current)])

\* pruneRotations: nothing in memory outlives its registration.
Prune(d, g, ns) ==
    /\ grace' = {e \in g : e.token \in Currents(d)}
    /\ names' = [k \in DOMAIN ns |-> IF k \in Currents(d) THEN ns[k] ELSE 0]

\* of: a registration is named when it is first asked for.
NameOf(token) == IF names[token] # 0 THEN names[token] ELSE named + 1
NamedAfter(token) == IF names[token] # 0 THEN named ELSE named + 1

\* Mutant: only the token just replaced is told of the new one.
RotateOnlyPrevious(old, token) == grace \cup {[old |-> old, token |-> token]}

\* rotateCachedTokens: every tab in its grace is told of the newest token.
RotateCachedTokens(old, token) ==
    {IF e.token = old THEN [e EXCEPT !.token = token] ELSE e : e \in grace}
        \cup {[old |-> old, token |-> token]}

\* Mutant: a replaced token makes the registration a new one to the sessions.
RotateNameless(old, token) == [names EXCEPT ![old] = 0, ![token] = named + 1]

\* registrationIdentifiers.rotate.
RotateName(old, token) == [names EXCEPT ![old] = 0, ![token] = NameOf(old)]

Issued == Len(family)
CanIssue == Issued < MaxTokens
Next1 == Issued + 1

\* The file is written; or it is not; or it is, and the failure is reported all the same.
Saves(d) == doc' = d /\ UNCHANGED left
SavesNot(d) == doc' \in {doc, d} /\ Spend("faults")

\* Whether a recovery is between its two steps while the registration goes.
Crosses(f) ==
    IF \E t \in Tabs : tab[t].at = "joining" /\ family[tab[t].token] = f THEN {f} ELSE {}

\* The registrations that leave the file in a step.
Gone == {family[k] : k \in Currents(doc) \ Currents(doc')}

(***************************************************************************)
(* Recovering                                                              *)
(***************************************************************************)

\* A page without a session of its own, new or reloaded, presents the stored token.
Presents(t) ==
    Goes(t, [Closed EXCEPT !.at = "recovering", !.token = stored[t[1]],
                           !.session = cookie[t[1]]])

InSession(t) ==
    /\ tab[t].at = "open" /\ tab[t].session = cookie[t[1]]
    /\ sessions[tab[t].session].alive

Load(t) ==
    /\ tab[t].at \in {"closed", "open"} /\ ~InSession(t)
    /\ stored[t[1]] # 0 /\ Spend("loads")
    /\ Presents(t)
    /\ UNCHANGED <<storeVars, sessionVars, browserVars, family, ghostVars>>

Accepted(t, token, name) ==
    /\ answers' = answers + 1
    /\ tab' = [tab EXCEPT ![t] = [@ EXCEPT !.at = "joining", !.token = token,
                                           !.name = name, !.n = answers + 1]]

\* Store.Recover, with the current token: it is replaced.
Recover(t) ==
    LET old == tab[t].token
        i == CurrentAt(old)
    IN  /\ tab[t].at = "recovering" /\ i # 0 /\ CanIssue
        /\ \/ /\ Saves(Rotated(i, Next1))
              /\ family' = Append(family, family[old])
              /\ Prune(doc', RotateCachedTokens(old, Next1), RotateName(old, Next1))
              /\ named' = NamedAfter(old)
              /\ Accepted(t, Next1, NameOf(old))
              /\ UNCHANGED <<excused, untied>>
           \/ /\ SavesNot(Rotated(i, Next1))
              /\ family' = IF doc' = doc THEN family ELSE Append(family, family[old])
              /\ excused' = IF doc' = doc THEN excused ELSE excused \cup {family[old]}
              /\ untied' = IF doc' = doc THEN untied ELSE untied \cup {family[old]}
              /\ Prune(doc', grace, names)
              /\ Goes(t, Closed)
              /\ UNCHANGED <<named, answers>>
        /\ UNCHANGED <<sessionVars, browserVars, adopted, lost>>

Recent(token) == {e \in grace : e.old = token}

\* Store.Recover, within the grace of a token: the current one is handed out again.
RecoverInGrace(t) ==
    /\ tab[t].at = "recovering" /\ CurrentAt(tab[t].token) = 0
    /\ \E e \in Recent(tab[t].token) :
          /\ Accepted(t, e.token, NameOf(e.token))
          /\ names' = [names EXCEPT ![e.token] = NameOf(e.token)]
          /\ named' = NamedAfter(e.token)
    /\ UNCHANGED <<doc, grace, sessionVars, browserVars, family, adopted, lost, excused,
                   untied, left>>

\* Store.Recover, with a retired token whose grace is over: the registration goes.
TakenForCopy(t) ==
    LET token == tab[t].token
        i == RetiredAt(token)
    IN  /\ tab[t].at = "recovering" /\ CurrentAt(token) = 0 /\ Recent(token) = {} /\ i # 0
        /\ \/ /\ Saves(RemoveAt(doc, i))
              /\ tab' = [tab EXCEPT ![t] = [@ EXCEPT !.at = "revoking",
                                                     !.token = doc[i].current,
                                                     !.name = NameOf(doc[i].current)]]
              /\ named' = NamedAfter(doc[i].current)
              /\ untied' = untied \cup Crosses(family[token])
           \/ /\ SavesNot(RemoveAt(doc, i)) /\ Goes(t, Closed)
              /\ untied' = untied \cup Gone
              /\ UNCHANGED named
        /\ Prune(doc', grace, names)
        /\ UNCHANGED <<sessionVars, browserVars, family, answers, adopted, lost, excused>>

Refuse(t) ==
    /\ tab[t].at = "recovering" /\ CurrentAt(tab[t].token) = 0
    /\ Recent(tab[t].token) = {} /\ RetiredAt(tab[t].token) = 0
    /\ Turns(t, "refused")
    /\ UNCHANGED <<storeVars, sessionVars, browserVars, family, ghostVars, left>>

(***************************************************************************)
(* Sessions                                                                *)
(***************************************************************************)

\* joinOrIssueLocked: the session of the cookie, while there is one, or a new one.
Joins(t) == tab[t].session # 0 /\ sessions[tab[t].session].alive
SessionFor(t) == IF Joins(t) THEN tab[t].session ELSE born + 1
Enters(t, at, session) ==
    /\ SessionFor(t) <= MaxSessions
    /\ sessions' = [sessions EXCEPT ![SessionFor(t)] = session]
    /\ born' = IF Joins(t) THEN born ELSE born + 1
    /\ tab' = [tab EXCEPT ![t].at = at, ![t].session = SessionFor(t), ![t].fresh = ~Joins(t)]

\* JoinOrIssue: the session is tied to the registration it was recovered with.
JoinOrIssue(t) ==
    /\ tab[t].at = "joining"
    /\ Enters(t, "entered", [alive |-> TRUE, name |-> tab[t].name,
                             family |-> family[tab[t].token]])
    /\ UNCHANGED <<storeVars, link, browserVars, family, ghostVars, left>>

\* RevokeRegistration.
Revoked(name) ==
    [s \in DOMAIN sessions |->
        IF sessions[s].alive /\ name # 0 /\ sessions[s].name = name THEN NoSession
        ELSE sessions[s]]

RevokeRegistration(t) ==
    /\ tab[t].at = "revoking"
    /\ sessions' = Revoked(tab[t].name)
    /\ Turns(t, "refused")
    /\ UNCHANGED <<storeVars, link, born, browserVars, family, answers, adopted, lost,
                   excused, untied, left>>

(***************************************************************************)
(* Entering through a link                                                 *)
(***************************************************************************)

\* `sshc open`.
Reissue ==
    /\ Spend("opens") /\ link' = TRUE
    /\ UNCHANGED <<storeVars, sessions, born, browserVars, tab, family, ghostVars>>

OpenLink(t) ==
    /\ tab[t].at \in {"closed", "open"} /\ Spend("loads")
    /\ Goes(t, [Closed EXCEPT !.at = "linked", !.token = stored[t[1]],
                              !.session = cookie[t[1]]])
    /\ UNCHANGED <<storeVars, sessionVars, browserVars, family, ghostVars>>

\* BootstrapForSession, and then the handler registers the browser.
Bootstrap(t) ==
    /\ tab[t].at = "linked" /\ link
    /\ link' = FALSE
    /\ Enters(t, "registering",
              IF Joins(t) THEN sessions[tab[t].session] ELSE [NoSession EXCEPT !.alive = TRUE])
    /\ UNCHANGED <<storeVars, browserVars, family, ghostVars, left>>

\* A link that was used before: the page falls back on its registration.
LinkUsed(t) ==
    /\ tab[t].at = "linked" /\ ~link
    /\ IF stored[t[1]] # 0 THEN Presents(t) ELSE Goes(t, Closed)
    /\ UNCHANGED <<storeVars, sessionVars, browserVars, family, ghostVars, left>>

\* Mutant: room is made only when there is one registration too many.
WithRoomLate(d) == IF Len(d) > MaxRegistrations THEN Tail(d) ELSE d

\* At the limit the longest unused registration makes room.
WithRoom(d) == IF Len(d) >= MaxRegistrations THEN Tail(d) ELSE d

\* Store.Register: a registration in use is kept, for any other token there is a new one.
Register(t) ==
    LET i == CurrentAt(tab[t].token)
        token == IF i # 0 THEN 0 ELSE Next1
        d == IF i # 0 THEN Used(doc, i, doc[i])
             ELSE Append(WithRoom(doc), [current |-> token, retired |-> << >>])
    IN  /\ tab[t].at = "registering" /\ (i = 0 => CanIssue)
        /\ \/ /\ Saves(d)
              /\ answers' = answers + 1
              /\ tab' = [tab EXCEPT ![t] = [@ EXCEPT !.at = "entered", !.token = token,
                                                     !.n = answers + 1]]
              /\ UNCHANGED sessions
           \/ /\ SavesNot(d)
              /\ Goes(t, Closed)
              /\ sessions' = IF tab[t].fresh THEN [sessions EXCEPT ![tab[t].session] = NoSession]
                             ELSE sessions
              /\ UNCHANGED answers
        /\ family' = IF token # 0 /\ token \in Currents(doc') THEN Append(family, token)
                     ELSE family
        /\ untied' = untied \cup Gone
        /\ Prune(doc', grace, names)
        /\ UNCHANGED <<named, link, born, browserVars, adopted, lost, excused>>

(***************************************************************************)
(* Signing out                                                             *)
(***************************************************************************)

SignOut(t) ==
    /\ InSession(t) /\ Spend("signOuts")
    /\ tab' = [tab EXCEPT ![t].at = "signing", ![t].token = stored[t[1]]]
    /\ UNCHANGED <<storeVars, sessionVars, browserVars, family, ghostVars>>

\* Where Forget finds a token: current, retired, or no longer remembered as retired but
\* still in its grace.
FoundAt(token) ==
    IF CurrentAt(token) # 0 THEN CurrentAt(token)
    ELSE IF RetiredAt(token) # 0 THEN RetiredAt(token)
    ELSE IF Recent(token) # {} THEN CurrentAt((CHOOSE e \in Recent(token) : TRUE).token)
    ELSE 0

\* Store.Forget: the registration goes by any of its tokens.
Forget(t) ==
    LET token == tab[t].token
        i == FoundAt(token)
        Leaving(name, current) ==
            tab' = [tab EXCEPT ![t] = [@ EXCEPT !.at = "leaving", !.name = name,
                                                !.token = current]]
    IN  /\ tab[t].at = "signing"
        /\ \/ /\ i = 0 /\ Leaving(0, 0)
              /\ UNCHANGED <<doc, named, untied, left>>
           \/ /\ i # 0 /\ Saves(RemoveAt(doc, i))
              /\ Leaving(NameOf(doc[i].current), doc[i].current)
              /\ named' = NamedAfter(doc[i].current)
              /\ untied' = untied \cup Crosses(family[token])
           \/ /\ i # 0 /\ SavesNot(RemoveAt(doc, i))
              /\ Turns(t, "open")
              /\ untied' = untied \cup Gone
              /\ UNCHANGED named
        /\ Prune(doc', grace, names)
        /\ UNCHANGED <<sessionVars, browserVars, family, answers, adopted, lost, excused>>

\* RevokeRegistration, and Revoke of the session that signs out.
Leave(t) ==
    /\ tab[t].at = "leaving"
    /\ sessions' = [Revoked(tab[t].name) EXCEPT ![tab[t].session] = NoSession]
    /\ Turns(t, "left")
    /\ UNCHANGED <<storeVars, link, born, browserVars, family, answers, adopted, lost,
                   excused, untied, left>>

(***************************************************************************)
(* The answers, which arrive in any order or not at all                    *)
(***************************************************************************)

\* adoptSession: the token is stored as it comes.
Adopt(t) ==
    LET p == t[1]
        late == tab[t].token # 0 /\ tab[t].n < adopted[p] /\ tab[t].token # stored[p]
    IN  /\ tab[t].at = "entered"
        /\ stored' = IF tab[t].token = 0 THEN stored ELSE [stored EXCEPT ![p] = tab[t].token]
        /\ cookie' = IF tab[t].fresh THEN [cookie EXCEPT ![p] = tab[t].session] ELSE cookie
        /\ adopted' = IF tab[t].token = 0 \/ late THEN adopted
                      ELSE [adopted EXCEPT ![p] = IF @ < tab[t].n THEN tab[t].n ELSE @]
        /\ excused' = IF late THEN excused \cup {family[tab[t].token]} ELSE excused
        /\ Goes(t, [Closed EXCEPT !.at = "open", !.session = tab[t].session])
        /\ UNCHANGED <<storeVars, sessionVars, family, answers, lost, untied, left>>

\* A refused recovery, and a sign-out: the page drops the token it finds stored.
Dropped(t) ==
    /\ tab[t].at \in {"refused", "left"}
    /\ stored' = [stored EXCEPT ![t[1]] = 0]
    /\ cookie' = IF tab[t].at = "left" THEN [cookie EXCEPT ![t[1]] = 0] ELSE cookie
    /\ Goes(t, Closed)
    /\ UNCHANGED <<storeVars, sessionVars, family, ghostVars, left>>

LostBy(t) == IF tab[t].at \in {"joining", "entered"} /\ tab[t].token # 0 THEN tab[t].n ELSE 0

Lose(t) ==
    /\ tab[t].at \in {"entered", "refused", "left"} /\ Spend("losses")
    /\ lost' = [lost EXCEPT ![t[1]] = IF @ < LostBy(t) THEN LostBy(t) ELSE @]
    /\ Goes(t, Closed)
    /\ UNCHANGED <<storeVars, sessionVars, browserVars, family, answers, adopted, excused,
                   untied>>

(***************************************************************************)
(* Time, the engine, and copies                                            *)
(***************************************************************************)

\* The browsers that hold a replaced token, because the answer with the new one was lost.
Owed(old, gone) ==
    {family[stored[p]] : p \in {q \in Profiles : stored[q] \in old /\ gone[q] > adopted[q]}}

\* The token that replaced this one: the next of its registration.
Successor(k) == Min({j \in k + 1 .. Issued : family[j] = family[k]})

\* A minute has passed since the token was replaced that has been replaced the longest;
\* no request takes that long.
GraceEnds ==
    /\ Resting
    /\ \E e \in grace :
          /\ \A f \in grace : Successor(e.old) <= Successor(f.old)
          /\ grace' = grace \ {e}
          /\ excused' = excused \cup Owed({e.old}, lost)
    /\ UNCHANGED <<doc, names, named, sessionVars, browserVars, tab, family, answers,
                   adopted, lost, untied, left>>

\* A session has lain idle for half a day, or is a week old.
SessionExpires ==
    /\ Resting /\ grace = {} /\ Spend("expiries")
    /\ \E s \in DOMAIN sessions :
          sessions[s].alive /\ sessions' = [sessions EXCEPT ![s] = NoSession]
    /\ UNCHANGED <<storeVars, link, born, browserVars, tab, family, ghostVars>>

\* A registration has not been used for a month: its sessions have long expired.
RegistrationExpires ==
    /\ Resting /\ grace = {} /\ Spend("expiries") /\ doc # << >>
    /\ \A s \in DOMAIN sessions : sessions[s].alive => sessions[s].family # family[Head(doc).current]
    /\ doc' = Tail(doc)
    /\ Prune(doc', grace, names)
    /\ UNCHANGED <<named, sessionVars, browserVars, tab, family, ghostVars>>

\* The engine ends and starts again, on its port or, moved, on another one.
Restart(moved) ==
    LET gone == [p \in Profiles |->
                    Max({lost[p]} \cup {LostBy(t) : t \in {u \in Tabs : u[1] = p}})]
    IN  /\ Spend("restarts")
        /\ doc' = IF moved THEN << >> ELSE doc
        /\ grace' = {} /\ named' = 0 /\ names' = [k \in DOMAIN names |-> 0]
        /\ sessions' = [s \in DOMAIN sessions |-> NoSession]
        /\ link' = TRUE
        /\ tab' = [t \in Tabs |-> IF tab[t].at = "open" THEN tab[t] ELSE Closed]
        /\ stored' = IF moved THEN [p \in Profiles |-> 0] ELSE stored
        /\ lost' = gone
        /\ excused' = excused \cup Owed(1 .. MaxTokens, gone)
        /\ UNCHANGED <<cookie, family, born, answers, adopted, untied>>

\* A browser profile is copied, or one is restored from a backup of another.
Copy ==
    /\ Spend("copies")
    /\ \E p, q \in Profiles :
          /\ stored[p] # 0 /\ stored[q] = 0 /\ \A t \in Tabs : t[1] = q => tab[t] = Closed
          /\ stored' = [stored EXCEPT ![q] = stored[p]]
          /\ excused' = excused \cup {family[stored[p]]}
    /\ UNCHANGED <<storeVars, sessionVars, cookie, tab, family, answers, adopted, lost,
                   untied>>

(***************************************************************************)
(* The whole                                                               *)
(***************************************************************************)

Page(t) == Load(t) \/ OpenLink(t) \/ SignOut(t)

Engine(t) ==
    \/ Recover(t) \/ RecoverInGrace(t) \/ TakenForCopy(t) \/ Refuse(t)
    \/ JoinOrIssue(t) \/ RevokeRegistration(t)
    \/ Bootstrap(t) \/ LinkUsed(t) \/ Register(t)
    \/ Forget(t) \/ Leave(t)

Arrives(t) == Adopt(t) \/ Dropped(t) \/ Lose(t)

Next ==
    \/ \E t \in Tabs : Page(t) \/ Engine(t) \/ Arrives(t)
    \/ Reissue \/ GraceEnds \/ SessionExpires \/ RegistrationExpires \/ Copy
    \/ \E moved \in BOOLEAN : Restart(moved)

TypeOK ==
    /\ Len(doc) <= MaxRegistrations
    /\ \A i \in DOMAIN doc :
          /\ doc[i].current \in 1 .. Issued /\ ToSet(doc[i].retired) \subseteq 1 .. Issued
          /\ Len(doc[i].retired) <= MaxRetiredTokens
    /\ grace \subseteq [old : 1 .. Issued, token : 1 .. Issued]
    /\ names \in [1 .. MaxTokens -> 0 .. named] /\ named \in Nat
    /\ sessions \in [1 .. MaxSessions -> [alive : BOOLEAN, name : Nat, family : 0 .. Issued]]
    /\ link \in BOOLEAN
    /\ stored \in [Profiles -> 0 .. Issued] /\ cookie \in [Profiles -> 0 .. born]
    /\ tab \in [Tabs -> [at : {"closed", "open", "recovering", "joining", "revoking",
                               "refused", "entered", "linked", "registering", "signing",
                               "leaving", "left"},
                         token : 0 .. Issued, session : 0 .. born, name : Nat,
                         fresh : BOOLEAN, n : 0 .. answers]]
    /\ family \in Seq(1 .. MaxTokens) /\ Issued <= MaxTokens
    /\ born \in 0 .. MaxSessions /\ answers \in Nat
    /\ adopted \in [Profiles -> 0 .. answers] /\ lost \in [Profiles -> 0 .. answers]
    /\ excused \cup untied \subseteq 1 .. Issued

\* One browser is registered; its pages are closed.
EntranceInit(first, bounds) ==
    /\ doc = <<[current |-> 1, retired |-> << >>]>>
    /\ grace = {} /\ names = [k \in 1 .. MaxTokens |-> 0] /\ named = 0
    /\ sessions = [s \in 1 .. MaxSessions |-> NoSession] /\ link = FALSE /\ born = 0
    /\ stored = [p \in Profiles |-> IF p = first THEN 1 ELSE 0]
    /\ cookie = [p \in Profiles |-> 0]
    /\ tab = [t \in Tabs |-> Closed]
    /\ family = <<1>> /\ answers = 0
    /\ adopted = [p \in Profiles |-> 0] /\ lost = [p \in Profiles |-> 0]
    /\ excused = {} /\ untied = {}
    /\ left = bounds

\* What every scenario is an instance of.
EntranceSpec(first, bounds) == EntranceInit(first, bounds) /\ [][Next]_vars

(***************************************************************************)
(* What entering promises                                                  *)
(***************************************************************************)

\* A registration is never taken for copied when nobody copied its token: not with
\* several tabs that recover at once, in any order, through chains of replacements,
\* links that registered the browser anew, failed writes and restarts (store.go,
\* Recover; rotations.go).  Excused are an answer that is lost and not asked for again
\* in time, one that arrives after a later one, and a write reported as failed that
\* took effect.
OnlyCopiesAreTaken ==
    [][\A t \in Tabs :
          tab[t].at = "recovering" /\ tab'[t].at = "revoking" =>
              family[tab[t].token] \in excused]_vars

\* A request that has taken a registration out of the file and is about to end the
\* sessions entered from it.
Ending(t) == tab[t].at \in {"revoking", "leaving"} /\ tab[t].token # 0

\* A session entered from a registration is there only as long as the registration, but
\* for the request that ends both: when a sign-out or a detected copy has been answered,
\* no session entered by whichever of its tokens is left, and none is entered from it any
\* more (entrance.go; design.md, on browser registrations).  The registrations that may
\* leave sessions behind are those in untied; for them the code does not keep this.
SessionsEndWithIt ==
    \A s \in DOMAIN sessions :
        sessions[s].alive /\ sessions[s].family \notin untied \cup {0} =>
            \/ \E k \in Currents(doc) : family[k] = sessions[s].family
            \/ \E t \in Tabs : Ending(t) /\ family[tab[t].token] = sessions[s].family
=============================================================================

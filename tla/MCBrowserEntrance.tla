--------------------------- MODULE MCBrowserEntrance ---------------------------
(***************************************************************************)
(* BrowserEntrance for TLC: which tabs there are, and what happens in each *)
(* scenario.                                                               *)
(***************************************************************************)
EXTENDS BrowserEntrance

CONSTANTS mine, other

MCTabs == {<<mine, 1>>, <<mine, 2>>, <<other, 1>>}

Bounds(loads, opens, signOuts, losses, expiries, restarts, faults, copies) ==
    [loads |-> loads, opens |-> opens, signOuts |-> signOuts, losses |-> losses,
     expiries |-> expiries, restarts |-> restarts, faults |-> faults, copies |-> copies]

Init ==
    \* Tabs that recover at once, with a lost answer.
    \/ EntranceInit(mine, Bounds(5, 0, 0, 1, 0, 0, 0, 0))
    \* Signing out, next to a restart or a failed write.
    \/ EntranceInit(mine, Bounds(4, 0, 2, 0, 0, 1, 1, 0))
    \* A profile that was copied.
    \/ EntranceInit(mine, Bounds(4, 0, 1, 0, 1, 0, 0, 1))
    \* Links, and more registrations than there is room for.
    \/ EntranceInit(mine, Bounds(4, 3, 0, 0, 1, 0, 0, 0))

Spec == Init /\ [][Next]_vars
=============================================================================

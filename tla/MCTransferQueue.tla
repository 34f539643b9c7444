-------------------------- MODULE MCTransferQueue --------------------------
(***************************************************************************)
(* TransferQueue for TLC: which jobs are asked for together, and how many  *)
(* the ledger retains.                                                     *)
(***************************************************************************)
EXTENDS TransferQueue

CONSTANTS copy, move, upload, other

Auto == [slots |-> 1, halted |-> FALSE, auto |-> TRUE, tries |-> 1]
Manual == [Auto EXCEPT !.auto = FALSE]
Halted == [Auto EXCEPT !.halted = TRUE]
MCSettings == {Auto, Manual, Halted}

Bounded(asked, room, r, t, e, options) ==
    [jobs |-> asked, room |-> room, requests |-> r, trouble |-> t, restarts |-> e,
     settings |-> options, queued |-> {}, failed |-> {}]

\* One slot.  A job alone, with failed saves and restarts; two jobs that want the slot;
\* a queue that is full, where admission has to evict a job, alone or with another one
\* that finishes and is cleared meanwhile.
MCScenarios ==
    {Bounded({move}, 1, 3, 1, 1, {Auto, Halted}),
     Bounded({copy}, 1, 3, 1, 0, {Auto, Manual}),
     Bounded({copy}, 1, 2, 1, 1, {Auto}),
     Bounded({upload}, 1, 5, 1, 1, {Auto}),
     Bounded({copy, move}, 2, 2, 0, 0, {Auto}),
     Bounded({upload, move}, 2, 3, 0, 0, {Auto}),
     Bounded({upload, copy}, 1, 3, 0, 0, {Auto}),
     [Bounded({other}, 2, 2, 1, 0, {Auto}) EXCEPT !.queued = {move}, !.failed = {upload}]}
=============================================================================

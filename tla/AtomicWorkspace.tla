-------------------------- MODULE AtomicWorkspace --------------------------
(***************************************************************************)
(* What the journalled transactions of internal/storage promise about the  *)
(* contents of a workspace, whatever crashes and I/O errors do: a change   *)
(* of several files takes place completely or not at all, and a file that  *)
(* somebody else edits while a change is interrupted keeps that edit.      *)
(*                                                                         *)
(* value is the content the files have if the change in progress is given  *)
(* up, target the content they have if it is carried out.  edits counts     *)
(* the writes of other programs: no other step may pass for one of them.   *)
(***************************************************************************)
EXTENDS Naturals

CONSTANTS File,     \* the files of the workspace
          Content   \* what a file can hold, absence included

VARIABLES value, target, open, edits

vars == <<value, target, open, edits>>

TypeOK == /\ value \in [File -> Content]
          /\ target \in [File -> Content]
          /\ open \in BOOLEAN
          /\ edits \in Nat

Init == /\ value \in [File -> Content]
        /\ target = value
        /\ open = FALSE
        /\ edits = 0

(* A change is planned against the current contents. *)
Begin == /\ ~open
         /\ open' = TRUE
         /\ target' \in [File -> Content]
         /\ UNCHANGED <<value, edits>>

(* The change ends: every file has its new content, or every file its old. *)
Settle == /\ open
          /\ open' = FALSE
          /\ value' \in {value, target}
          /\ target' = value'
          /\ UNCHANGED edits

(* Another program writes a file.  The edit survives either outcome. *)
Edit(f) == /\ edits' = edits + 1
           /\ UNCHANGED open
           /\ target'[f] = value'[f]
           /\ value'[f] \in Content
           /\ value' = [value EXCEPT ![f] = value'[f]]
           /\ target' = [target EXCEPT ![f] = value'[f]]

Next == Begin \/ Settle \/ \E f \in File : Edit(f)

Spec == Init /\ [][Next]_vars
=============================================================================

---------------------------- MODULE MCRemoteSync ----------------------------
(* Two machines and a bucket for TLC. *)
EXTENDS RemoteSync, TLC

CONSTANTS m1, m2

Symmetric == Permutations(Machine) \cup Permutations(File)

BothWays == {[m \in Machine |-> "both"]}

\* Peers, a sender with a receiver, and a peer with a machine that only receives.
Setups == BothWays \cup {(m1 :> d) @@ (m2 :> "pull") : d \in {"push", "both"}}
=============================================================================

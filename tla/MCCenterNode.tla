----------------------------- MODULE MCCenterNode -----------------------------
(* Small instances of CenterNode for TLC. *)
EXTENDS CenterNode, TLC

(* Agents that can be parsed, or hold the master key, differ from those    *)
(* that do not; tasks are interchangeable (safety runs only).              *)
Symmetry == Permutations(Tasks)

=============================================================================

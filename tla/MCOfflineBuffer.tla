--------------------------- MODULE MCOfflineBuffer ---------------------------
(* Small instances of OfflineBuffer for TLC. *)
EXTENDS OfflineBuffer, TLC

(* Records and flush coroutines are interchangeable (safety runs only). *)
Symmetry == Permutations(Results) \cup Permutations(Flush)

=============================================================================

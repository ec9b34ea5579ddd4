--------------------------- MODULE MCTaskRequests ---------------------------
(* Instances of TaskRequests for TLC. *)
EXTENDS TaskRequests, TLC

CONSTANTS a1, a2

(* A parallel group of two, and a step after it. *)
MCGroup == <<1, 1, 2>>

MCPrefix == a1 :> "a1" @@ a2 :> "a2"

=============================================================================

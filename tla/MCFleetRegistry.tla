--------------------------- MODULE MCFleetRegistry ---------------------------
(* Instances of FleetRegistry for TLC. *)
EXTENDS FleetRegistry, TLC

CONSTANTS a1, a2, m1

(* Both agents on one machine. *)
MCHome == a1 :> m1 @@ a2 :> m1

=============================================================================

------------------------------ MODULE MCDaemons ------------------------------
(* The instance of Daemons that TLC checks. *)
EXTENDS Daemons

CONSTANTS c1, c2, c3, p1, p2

=============================================================================

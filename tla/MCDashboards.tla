---------------------------- MODULE MCDashboards ----------------------------
(* The instance of Dashboards that TLC checks. *)
EXTENDS Dashboards

CONSTANTS c1, c2, s1

=============================================================================

---------------------------- MODULE MCCommandLine ----------------------------
(* The instance of CommandLine that TLC checks: what five processes may be. *)
EXTENDS CommandLine, TLC

CONSTANTS p1, p2, p3, p4, p5

MCPlan(k1, k23, k4, k5) == p1 :> k1 @@ p2 :> k23 @@ p3 :> k23 @@ p4 :> k4 @@ p5 :> k5

MCPlans == {MCPlan("center", "agent", "broadcast", "query"),
            MCPlan("center", "agent", "center", "query"),
            MCPlan("center", "broadcast", "pipeline", "agent")}

MCSymmetry == Permutations({p2, p3})

=============================================================================

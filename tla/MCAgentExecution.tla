--------------------------- MODULE MCAgentExecution ---------------------------
(* Small instances of AgentExecution for TLC. *)
EXTENDS AgentExecution

CONSTANTS t1, t2, s1, s2, m1, m2

(* A task that names a model, one that names none, and set_model commands *)
(* for two models.                                                        *)
MCWants == [c \in Commands |->
               CASE c = t1 -> m1 [] c = t2 -> None [] c = s1 -> m2
                 [] OTHER -> m1]

=============================================================================

---------------------------- MODULE ResultChannel ----------------------------
(***************************************************************************)
(* What the result path of an agent promises to the center, with no word   *)
(* of how.  A produced result is held by the agent until it is handed      *)
(* over; a hand-over whose acknowledgement does not arrive may be          *)
(* repeated; a result may be lost, and a lost result never comes back.     *)
(*                                                                         *)
(* OfflineBuffer, the model of UserAgent._report_task_completion,          *)
(* _buffer_locally and _flush_offline_buffer, implements it.               *)
(***************************************************************************)
EXTENDS Naturals

CONSTANT Results    \* the task records an agent produces

VARIABLES
    holding,        \* results the agent has, in memory or on disk
    got,            \* how often the center has processed each result
    lost            \* results the agent no longer has and may not have sent

channelVars == <<holding, got, lost>>

ChannelInit ==
    /\ holding = {}
    /\ got = [r \in Results |-> 0]
    /\ lost = {}

(* A task ends, and its record, never seen before, is held. *)
Produce(r) ==
    /\ r \notin holding \cup lost
    /\ got[r] = 0
    /\ holding' = holding \cup {r}
    /\ UNCHANGED <<got, lost>>

(* The center processes r and the agent learns it: r is never sent again.  *)
(* Other results may be lost in the same step.                             *)
HandOver(r, dropped) ==
    /\ r \in holding
    /\ r \notin dropped
    /\ holding' = holding \ (dropped \cup {r})
    /\ got' = [got EXCEPT ![r] = @ + 1]
    /\ lost' = lost \cup dropped

(* The center processes r and the agent does not learn it: r stays held. *)
HandOverUnacknowledged(r, dropped) ==
    /\ r \in holding
    /\ r \notin dropped
    /\ holding' = holding \ dropped
    /\ got' = [got EXCEPT ![r] = @ + 1]
    /\ lost' = lost \cup dropped

Lose(dropped) ==
    /\ holding' = holding \ dropped
    /\ lost' = lost \cup dropped
    /\ UNCHANGED got

ChannelNext ==
    \/ \E r \in Results : Produce(r)
    \/ \E r \in Results, dropped \in SUBSET holding :
          HandOver(r, dropped) \/ HandOverUnacknowledged(r, dropped)
    \/ \E dropped \in SUBSET holding : Lose(dropped)

ChannelSpec == ChannelInit /\ [][ChannelNext]_channelVars

=============================================================================

---------------------------- MODULE TaskDelivery ----------------------------
(***************************************************************************)
(* What the center promises about tasks, with no word of registrations,    *)
(* heartbeats, writes or rows.                                             *)
(*                                                                         *)
(* A task is submitted once, for one agent or for nobody, and is offered   *)
(* to that agent, which takes what it is offered by asking for it; what it *)
(* does not take then is not offered again.  Offers are withdrawn one      *)
(* agent at a time, or with all that waits.  A crash of the center keeps   *)
(* nothing but tasks: any of them may wait again, those that were retained *)
(* for an agent that was away are offered to it again, and the others are  *)
(* for nobody from then on.                                                *)
(*                                                                         *)
(* CenterNode implements it with its store, whose writes are executed in   *)
(* any order or not at all.                                                *)
(***************************************************************************)
EXTENDS Naturals

CONSTANTS
    Agents,         \* those that take tasks
    Tasks,          \* task ids
    None            \* nobody

VARIABLES
    submitted,      \* the tasks there have been
    owner,          \* who each of them is for, or nobody
    retained,       \* those submitted for an agent that was away
    waiting,        \* the tasks the center waits for
    offered,        \* what each agent will be given when it asks
    taken,          \* what each agent has been given and has not settled
    takes,          \* how often each task has been taken
    recorded,       \* the tasks with a recorded result
    crashes         \* crashes so far

deliveryVars == <<submitted, owner, retained, waiting, offered, taken, takes,
                  recorded, crashes>>

DeliveryInit ==
    /\ submitted = {}
    /\ owner = [t \in Tasks |-> None]
    /\ retained = {}
    /\ waiting = {}
    /\ offered = [a \in Agents |-> {}]
    /\ taken = [a \in Agents |-> {}]
    /\ takes = [t \in Tasks |-> 0]
    /\ recorded = {}
    /\ crashes = 0

(* New tasks, each offered to the agent it is for. *)
Submit(ids, target, away) ==
    /\ ids \cap submitted = {}
    /\ \A t \in away : target[t] # None
    /\ submitted' = submitted \cup ids
    /\ owner' = [t \in Tasks |-> IF t \in ids THEN target[t] ELSE owner[t]]
    /\ retained' = retained \cup away
    /\ waiting' = waiting \cup ids
    /\ offered' = [a \in Agents |-> offered[a] \cup {t \in ids : target[t] = a}]
    /\ UNCHANGED <<taken, takes, recorded, crashes>>

(* An agent asks: what does not reach it is gone as well. *)
Take(a, got) ==
    /\ got \subseteq offered[a]
    /\ offered' = [offered EXCEPT ![a] = {}]
    /\ taken' = [taken EXCEPT ![a] = @ \cup got]
    /\ takes' = [t \in Tasks |-> takes[t] + IF t \in got THEN 1 ELSE 0]
    /\ UNCHANGED <<submitted, owner, retained, waiting, recorded, crashes>>

(* A result is recorded, whoever the task was for and whether or not it    *)
(* is waited for; the agent may not learn it and report it again.          *)
Report(a, t) ==
    /\ t \in taken[a]
    /\ taken' \in {taken, [taken EXCEPT ![a] = @ \ {t}]}
    /\ recorded' = recorded \cup {t}
    /\ waiting' = waiting \ {t}
    /\ UNCHANGED <<submitted, owner, retained, offered, takes, crashes>>

(* The agent's process ends with some of what it has. *)
Lose(a, dropped) ==
    /\ taken' = [taken EXCEPT ![a] = @ \ dropped]
    /\ UNCHANGED <<submitted, owner, retained, waiting, offered, takes,
                   recorded, crashes>>

(* The agent is forgotten, or banned and its tasks with it. *)
Dismiss(a) ==
    /\ offered' = [offered EXCEPT ![a] = {}]
    /\ waiting' \in {waiting, {t \in waiting : owner[t] # a}}
    /\ UNCHANGED <<submitted, owner, retained, taken, takes, recorded, crashes>>

Clear ==
    /\ waiting' = {}
    /\ offered' = [a \in Agents |-> offered[a] \ waiting]
    /\ UNCHANGED <<submitted, owner, retained, taken, takes, recorded, crashes>>

(* The tasks that come back are any, whatever had become of them. *)
Crash(back) ==
    /\ back \subseteq submitted
    /\ crashes' = crashes + 1
    /\ waiting' = back
    /\ owner' = [t \in Tasks |-> IF t \in back \ retained THEN None ELSE owner[t]]
    /\ offered' = [a \in Agents |-> {t \in back \cap retained : owner[t] = a}]
    /\ recorded' \in SUBSET recorded
    /\ UNCHANGED <<submitted, retained, taken, takes>>

DeliveryNext ==
    \/ \E ids \in SUBSET Tasks :
          \E target \in [ids -> Agents \cup {None}], away \in SUBSET ids :
              Submit(ids, target, away)
    \/ \E a \in Agents : \E got \in SUBSET offered[a] : Take(a, got)
    \/ \E a \in Agents : \E t \in taken[a] : Report(a, t)
    \/ \E a \in Agents : \E dropped \in SUBSET taken[a] : Lose(a, dropped)
    \/ \E a \in Agents : Dismiss(a)
    \/ Clear
    \/ \E back \in SUBSET submitted : Crash(back)

DeliverySpec == DeliveryInit /\ [][DeliveryNext]_deliveryVars

-----------------------------------------------------------------------------
(* What it comes to. *)

DeliveryTypeOK ==
    /\ submitted \subseteq Tasks
    /\ owner \in [Tasks -> Agents \cup {None}]
    /\ retained \subseteq submitted
    /\ waiting \subseteq submitted
    /\ offered \in [Agents -> SUBSET submitted]
    /\ taken \in [Agents -> SUBSET submitted]
    /\ takes \in [Tasks -> Nat]
    /\ recorded \subseteq submitted
    /\ crashes \in Nat

(* No two agents are offered or have the same task.                        *)
Exclusive ==
    \A a, b \in Agents :
        a # b => (offered[a] \cup taken[a]) \cap (offered[b] \cup taken[b]) = {}

(* A task is taken once, and once more per crash if it was retained.       *)
TakenOnce ==
    \A t \in Tasks : takes[t] <= 1 + IF t \in retained THEN crashes ELSE 0

(* What makes these inductive: an offer is the owner's, is not used up but *)
(* by a crash, and what was never submitted was never taken.               *)
OffersAreOwned == \A a \in Agents : \A t \in offered[a] : owner[t] = a

TakenFromOwner == \A a \in Agents : \A t \in taken[a] : owner[t] \in {a, None}

OffersAreLeft ==
    \A a \in Agents : \A t \in offered[a] :
        takes[t] <= IF t \in retained THEN crashes ELSE 0

NothingTakenUnsubmitted == \A t \in Tasks \ submitted : takes[t] = 0

DeliveryInv ==
    /\ DeliveryTypeOK
    /\ OffersAreOwned
    /\ TakenFromOwner
    /\ Exclusive
    /\ OffersAreLeft
    /\ NothingTakenUnsubmitted
    /\ TakenOnce

=============================================================================

------------------------------ MODULE CenterNode ------------------------------
(***************************************************************************)
(* Dispatch of tasks by the center node (systems/center_node.py) to the    *)
(* agents that poll it, over the store of CenterStore.                     *)
(*                                                                         *)
(* Handlers run on one event loop and reach their first await only after   *)
(* their last change to the state modelled here, except that _revoke_agent *)
(* and _clear_tasks then await their writes: each is one action, and the   *)
(* writes it starts are executed later.  Commands are picked up by polling *)
(* and are removed as they are read.                                       *)
(*                                                                         *)
(* Abstractions.  Time is the age of an agent's last heartbeat as the      *)
(* center computes it, in the classes its thresholds distinguish.  The     *)
(* best-scored online agent of _assign_task is any online agent.  Agents   *)
(* support every task type.  Only run_task commands are modelled.  What an *)
(* agent does with a finished result is ResultChannel's: outbox is what it *)
(* holds.                                                                  *)
(***************************************************************************)
EXTENDS CenterStore

CONSTANTS
    MasterKeyed,    \* agents that present the master key (start-agent)
    MaxNodes,       \* MAX_NODES
    MaxFaults,      \* lost messages and stops of agents in a run (bound)
    MaxRestarts,    \* crashes of the center in a run (bound)
    MaxClears,      \* clear-tasks calls in a run (bound)
    MaxPipelines    \* pipelines in a run (bound)

ASSUME CenterAssumption ==
    /\ MasterKeyed \subseteq Agents
    /\ MaxNodes \in Nat \ {0}
    /\ {MaxFaults, MaxRestarts, MaxClears, MaxPipelines} \subseteq Nat

VARIABLES
    status,         \* AgentInfo.status, None for an id not in self.agents
    revokedAt,      \* agents whose AgentInfo has revoked_at set
    age,            \* class of now - last_heartbeat, Fresh for such an id
    queue,          \* ids in self.task_queue
    pending,        \* ids of the run_task commands in _pending_commands
    results,        \* ids in _task_results
    history,        \* ids in task_history
    pipelineAgents, \* alive_agents of the running pipeline, {} if none
    up,             \* agents whose process is running
    running,        \* tasks an agent has received and not finished
    outbox,         \* finished tasks whose result an agent holds
    delivered,      \* history: run_task commands received, per task
    banned,         \* history: agents revoked and not forgotten since
    faults, restarts, clears, pipelines

registryVars == <<status, revokedAt, age, banned>>
queueVars    == <<queue, pending, results, history>>
agentVars    == <<up, running, outbox, delivered>>
boundVars    == <<faults, restarts, clears, pipelines>>
vars == <<storeVars, registryVars, queueVars, pipelineAgents, agentVars,
          boundVars>>

Status == {"online", "offline", "revoked"}

(* None is neither a status nor a row. *)
ASSUME StatusAssumption == None \notin Status \cup {"active"}

(* Up to 90 s; up to 2 min, a ghost; up to 10 min; more. *)
Fresh == 0
Ghost == 1
Missed == 2
Expired == 3

Known(a) == status[a] # None
Online == {a \in Agents : status[a] = "online"}
Offline == {a \in Agents : status[a] = "offline"}
Alive == {a \in Online : age[a] = Fresh}
FreshIds == {t \in Tasks : task[t] = None}

(* Faulty: only the status is looked at, which a heartbeat sets. *)
IdentityByStatus(a) == Known(a) /\ status[a] # "revoked"

(* _validate_agent_identity, for an agent that has its own secret: the     *)
(* secret's hash is there exactly when the agent has not been revoked.     *)
IdentityValid(a) == Known(a) /\ status[a] # "revoked" /\ a \notin revokedAt

(* The heartbeat and polling handlers skip the validation for admin keys. *)
Accepted(a) == a \in MasterKeyed \/ IdentityValid(a)

Fault == faults < MaxFaults /\ faults' = faults + 1

StartWrites(kinds) == writes' = writes \cup kinds

Init ==
    /\ StoreInit
    /\ status = [a \in Agents |-> None]
    /\ revokedAt = {}
    /\ age = [a \in Agents |-> Fresh]
    /\ queue = {}
    /\ pending = [a \in Agents |-> {}]
    /\ results = {}
    /\ history = {}
    /\ pipelineAgents = {}
    /\ up = {}
    /\ running = [a \in Agents |-> {}]
    /\ outbox = [a \in Agents |-> {}]
    /\ delivered = [t \in Tasks |-> 0]
    /\ banned = {}
    /\ faults = 0 /\ restarts = 0 /\ clears = 0 /\ pipelines = 0

-----------------------------------------------------------------------------
(* Agents: registration, heartbeats, ageing *)

(* An agent process starts: only an accepted registration lets it go on.   *)
(* The cap counts online agents and does not apply to a known id.          *)
RegisterAgent(a) ==
    /\ a \notin up
    /\ \/ Known(a) /\ IdentityValid(a)
       \/ ~Known(a) /\ Cardinality(Online) < MaxNodes
    /\ status' = [status EXCEPT ![a] = "online"]
    /\ age' = [age EXCEPT ![a] = Fresh]
    /\ up' = up \cup {a}
    /\ StartWrites({AgentWrite("upsert", a)})
    /\ UNCHANGED <<task, rows, agentRows, historyRows, revokedAt, banned,
                   queueVars, pipelineAgents, running, outbox, delivered,
                   boundVars>>

HeartbeatHandled(a, announced) ==
    /\ Accepted(a)
    /\ Known(a)
    /\ status' = [status EXCEPT ![a] = announced]
    /\ age' = [age EXCEPT ![a] = Fresh]
    /\ UNCHANGED <<revokedAt, banned>>

Heartbeat(a) ==
    /\ a \in up
    /\ HeartbeatHandled(a, "online")
    /\ UNCHANGED <<storeVars, queueVars, pipelineAgents, agentVars, boundVars>>

(* stop(): the goodbye heartbeat is tried once and may fail.  Tasks still  *)
(* running die with the process; results that were not in the buffer file  *)
(* are lost.                                                               *)
StopAgent(a, keeps) ==
    /\ a \in up
    /\ up' = up \ {a}
    /\ running' = [running EXCEPT ![a] = {}]
    /\ keeps \subseteq outbox[a]
    /\ outbox' = [outbox EXCEPT ![a] = keeps]
    /\ Fault
    /\ \/ HeartbeatHandled(a, "offline")
       \/ UNCHANGED registryVars
    /\ UNCHANGED <<storeVars, queueVars, pipelineAgents, delivered, restarts,
                   clears, pipelines>>

(* A heartbeat grows old in the center's eyes, which it can only do when   *)
(* its timestamp parses: parse_iso_timestamp returns now otherwise.  An    *)
(* agent that is up misses a heartbeat only by a fault.                    *)
HeartbeatAges(a) ==
    /\ a \in Parsable
    /\ Known(a)
    /\ age[a] < Expired
    /\ age' = [age EXCEPT ![a] = @ + 1]
    /\ IF a \in up THEN Fault ELSE UNCHANGED faults
    /\ UNCHANGED <<storeVars, status, revokedAt, banned, queueVars,
                   pipelineAgents, agentVars, restarts, clears, pipelines>>

(* Faulty: the wrong timeout, and it has to be exceeded. *)
MarkOfflineTooLate(a) ==
    /\ status[a] = "online"
    /\ age[a] > Expired
    /\ status' = [status EXCEPT ![a] = "offline"]
    /\ UNCHANGED <<storeVars, revokedAt, age, banned, queueVars,
                   pipelineAgents, agentVars, boundVars>>

(* _cleanup_loop *)
MarkOffline(a) ==
    /\ status[a] = "online"
    /\ age[a] >= Missed
    /\ status' = [status EXCEPT ![a] = "offline"]
    /\ UNCHANGED <<storeVars, revokedAt, age, banned, queueVars,
                   pipelineAgents, agentVars, boundVars>>

(* The agent and its commands go; its tasks stay queued, its row in place. *)
PurgeAgent(a) ==
    /\ status[a] = "offline"
    /\ age[a] = Expired
    /\ status' = [status EXCEPT ![a] = None]
    /\ revokedAt' = revokedAt \ {a}
    /\ banned' = banned \ {a}
    /\ age' = [age EXCEPT ![a] = Fresh]
    /\ pending' = [pending EXCEPT ![a] = {}]
    /\ UNCHANGED <<storeVars, queue, results, history, pipelineAgents,
                   agentVars, boundVars>>

(* Faulty: the commands waiting for the agent are kept. *)
RevokeAgentKeepingCommands(a) ==
    /\ Known(a)
    /\ status' = [status EXCEPT ![a] = "revoked"]
    /\ revokedAt' = revokedAt \cup {a}
    /\ banned' = banned \cup {a}
    /\ queue' = {t \in queue : task[t].agent # a}
    /\ StartWrites({AgentWrite("revoke", a)})
    /\ UNCHANGED <<task, rows, agentRows, historyRows, age, pending, results,
                   history, pipelineAgents, agentVars, boundVars>>

RevokeAgent(a) ==
    /\ Known(a)
    /\ status' = [status EXCEPT ![a] = "revoked"]
    /\ revokedAt' = revokedAt \cup {a}
    /\ banned' = banned \cup {a}
    /\ pending' = [pending EXCEPT ![a] = {}]
    /\ queue' = {t \in queue : task[t].agent # a}
    /\ StartWrites({AgentWrite("revoke", a)})
    /\ UNCHANGED <<task, rows, agentRows, historyRows, age, results, history,
                   pipelineAgents, agentVars, boundVars>>

-----------------------------------------------------------------------------
(* Tasks: submission, broadcast, pipelines *)

(* One dict per target, queued and, for an agent, put among its commands. *)
Enqueue(dicts) ==
    /\ task' = [t \in Tasks |->
                  IF t \in DOMAIN dicts THEN dicts[t] ELSE task[t]]
    /\ queue' = queue \cup DOMAIN dicts
    /\ pending' = [a \in Agents |->
                      pending[a] \cup {t \in DOMAIN dicts : dicts[t].agent = a}]
    /\ UNCHANGED <<rows, agentRows, historyRows, results, history>>

Saves(ids) == {TaskWrite("save", t) : t \in ids}

(* _submit_task and _assign_task: with no agent online the task is queued  *)
(* for nobody.                                                             *)
SubmitTask(t) ==
    /\ t \in FreshIds
    /\ IF Online = {}
       THEN /\ Enqueue([id \in {t} |-> [status |-> "queued", agent |-> None]])
            /\ StartWrites(Saves({t}))
       ELSE /\ \E a \in Online :
                  Enqueue([id \in {t} |-> [status |-> "assigned", agent |-> a]])
            /\ StartWrites(Saves({t}) \cup {TaskWrite("update", t)})
    /\ UNCHANGED <<registryVars, pipelineAgents, agentVars, boundVars>>

(* _broadcast_task: one task for every alive and every offline agent. *)
BroadcastTask ==
    /\ Alive \cup Offline # {}
    /\ \E ids \in SUBSET FreshIds :
          /\ Cardinality(ids) = Cardinality(Alive \cup Offline)
          /\ \E target \in [ids -> Alive \cup Offline] :
                /\ \A t, u \in ids : t # u => target[t] # target[u]
                /\ Enqueue([t \in ids |->
                      [status |-> IF target[t] \in Alive THEN "assigned"
                                                         ELSE "queued",
                       agent |-> target[t]]])
          /\ StartWrites(Saves(ids))
    /\ UNCHANGED <<registryVars, pipelineAgents, agentVars, boundVars>>

(* _run_pipeline picks the agents of all its steps once, at its start. *)
StartPipeline ==
    /\ pipelines < MaxPipelines
    /\ pipelineAgents = {}
    /\ Alive # {}
    /\ pipelineAgents' = Alive
    /\ pipelines' = pipelines + 1
    /\ UNCHANGED <<storeVars, registryVars, queueVars, agentVars, faults,
                   restarts, clears>>

(* _dispatch_pipeline_step *)
DispatchPipelineStep(t) ==
    /\ t \in FreshIds
    /\ \E a \in pipelineAgents :
          Enqueue([id \in {t} |-> [status |-> "assigned", agent |-> a]])
    /\ StartWrites(Saves({t}))
    /\ UNCHANGED <<registryVars, pipelineAgents, agentVars, boundVars>>

EndPipeline ==
    /\ pipelineAgents # {}
    /\ pipelineAgents' = {}
    /\ UNCHANGED <<storeVars, registryVars, queueVars, agentVars, boundVars>>

(* Faulty: commands already waiting for agents are left. *)
ClearTasksKeepingCommands ==
    /\ clears < MaxClears
    /\ clears' = clears + 1
    /\ queue' = {}
    /\ results' = results \ queue
    /\ StartWrites({ClearWrite})
    /\ UNCHANGED <<task, rows, agentRows, historyRows, registryVars, pending,
                   history, pipelineAgents, agentVars, faults, restarts,
                   pipelines>>

(* _clear_tasks: what was queued is forgotten wherever the center has it.  *)
ClearTasks ==
    /\ clears < MaxClears
    /\ clears' = clears + 1
    /\ queue' = {}
    /\ results' = results \ queue
    /\ pending' = [a \in Agents |-> pending[a] \ queue]
    /\ StartWrites({ClearWrite})
    /\ UNCHANGED <<task, rows, agentRows, historyRows, registryVars, history,
                   pipelineAgents, agentVars, faults, restarts, pipelines>>

-----------------------------------------------------------------------------
(* Commands and results *)

(* _get_pending_commands pops the list whether or not the answer arrives. *)
PopCommands(a) ==
    /\ a \in up
    /\ Accepted(a)
    /\ pending[a] # {}
    /\ pending' = [pending EXCEPT ![a] = {}]
    /\ UNCHANGED <<storeVars, registryVars, queue, results, history,
                   pipelineAgents, up, outbox, restarts, clears, pipelines>>

ReceiveCommands(a, got) ==
    /\ running' = [running EXCEPT ![a] = @ \cup got]
    /\ delivered' = [t \in Tasks |->
                        delivered[t] + IF t \in got THEN 1 ELSE 0]

PollCommands(a) ==
    /\ PopCommands(a)
    /\ ReceiveCommands(a, pending[a])
    /\ UNCHANGED faults

(* The answer is lost, or the agent fails on one of the commands and drops *)
(* the rest of the batch.                                                  *)
PollCutShort(a, got) ==
    /\ got # pending[a]
    /\ PopCommands(a)
    /\ ReceiveCommands(a, got)
    /\ Fault

FinishTask(a, t) ==
    /\ t \in running[a]
    /\ running' = [running EXCEPT ![a] = @ \ {t}]
    /\ outbox' = [outbox EXCEPT ![a] = @ \cup {t}]
    /\ UNCHANGED <<storeVars, registryVars, queueVars, pipelineAgents, up,
                   delivered, boundVars>>

(* Faulty: the completed task stays queued. *)
CompletionOnlyRecorded(a, t) ==
    /\ a \in up
    /\ t \in outbox[a]
    /\ IdentityValid(a)
    /\ history' = history \cup {t}
    /\ results' = results \cup {t}
    /\ StartWrites({TaskWrite("history", t)})
    /\ UNCHANGED <<task, rows, agentRows, historyRows, registryVars, queue,
                   pending, pipelineAgents, up, running, delivered, restarts,
                   clears, pipelines>>

(* _task_completion: recorded whatever the center knows of the task. *)
CompletionHandled(a, t) ==
    /\ a \in up
    /\ t \in outbox[a]
    /\ IdentityValid(a)
    /\ history' = history \cup {t}
    /\ results' = results \cup {t}
    /\ queue' = queue \ {t}
    /\ StartWrites({TaskWrite("history", t), TaskWrite("remove", t)})
    /\ UNCHANGED <<task, rows, agentRows, historyRows, registryVars, pending,
                   pipelineAgents, up, running, delivered, restarts, clears,
                   pipelines>>

TaskCompletion(a, t) ==
    /\ CompletionHandled(a, t)
    /\ outbox' = [outbox EXCEPT ![a] = @ \ {t}]
    /\ UNCHANGED faults

CompletionAnswerLost(a, t) ==
    /\ CompletionHandled(a, t)
    /\ Fault
    /\ UNCHANGED outbox

-----------------------------------------------------------------------------
(* The center stops or crashes and starts again (_load_state_from_db). *)

(* Faulty: every queued task, whoever it is for. *)
CommandsForAnyone(a) == {t \in LoadedTasks : task'[t].status = "queued"}

(* The commands rebuilt for an agent, once task' is known. *)
RebuiltCommands(a) ==
    {t \in LoadedTasks : task'[t].status = "queued" /\ task'[t].agent = a}

Restart ==
    /\ restarts < MaxRestarts
    /\ restarts' = restarts + 1
    /\ LoadState
    /\ status' = [a \in Agents |->
                    IF a \in LoadedAgents THEN "offline" ELSE None]
    /\ revokedAt' = {a \in LoadedAgents : agentRows[a] = "revoked"}
    /\ banned' = {a \in banned \cap LoadedAgents : agentRows[a] = "revoked"}
    /\ age' = [a \in Agents |-> IF a \in LoadedAgents THEN age[a] ELSE Fresh]
    /\ queue' = LoadedTasks
    /\ pending' = [a \in Agents |-> RebuiltCommands(a)]
    /\ results' = {}
    /\ history' = historyRows
    /\ pipelineAgents' = {}
    /\ UNCHANGED <<agentVars, faults, clears, pipelines>>

ExecuteStoreWrite ==
    /\ ExecuteWrite
    /\ UNCHANGED <<registryVars, queueVars, pipelineAgents, agentVars,
                   boundVars>>

-----------------------------------------------------------------------------

Next ==
    \/ \E a \in Agents :
          \/ RegisterAgent(a) \/ Heartbeat(a) \/ HeartbeatAges(a)
          \/ MarkOffline(a) \/ PurgeAgent(a) \/ RevokeAgent(a)
          \/ PollCommands(a)
    \/ \E a \in Agents : \E got \in SUBSET pending[a] : PollCutShort(a, got)
    \/ \E a \in Agents : \E keeps \in SUBSET outbox[a] : StopAgent(a, keeps)
    \/ \E a \in Agents, t \in Tasks :
          \/ FinishTask(a, t) \/ TaskCompletion(a, t)
          \/ CompletionAnswerLost(a, t)
    \/ \E t \in Tasks : SubmitTask(t) \/ DispatchPipelineStep(t)
    \/ BroadcastTask \/ StartPipeline \/ EndPipeline \/ ClearTasks
    \/ Restart
    \/ ExecuteStoreWrite

Spec == Init /\ [][Next]_vars

(* What is started is executed, agents poll, heartbeat, finish what they   *)
(* run and report it, and the cleanup loop comes round.  Nobody is bound   *)
(* to start an agent, to submit, to revoke or to clear.                    *)
Fairness ==
    /\ WF_vars(ExecuteStoreWrite)
    /\ \A a \in Agents :
          /\ WF_vars(Heartbeat(a))
          /\ WF_vars(HeartbeatAges(a) /\ a \notin up)
          /\ WF_vars(MarkOffline(a))
          /\ WF_vars(PollCommands(a))
          /\ \A t \in Tasks : WF_vars(FinishTask(a, t))
          /\ \A t \in Tasks : WF_vars(TaskCompletion(a, t))

FairSpec == Spec /\ Fairness

-----------------------------------------------------------------------------
(* Properties *)

TypeOK ==
    /\ task \in [Tasks -> TaskDict \cup {None}]
    /\ rows \in [Tasks -> TaskDict \cup {None}]
    /\ agentRows \in [Agents -> {"active", "revoked", None}]
    /\ historyRows \subseteq Tasks
    /\ writes \subseteq Writes
    /\ status \in [Agents -> Status \cup {None}]
    /\ revokedAt \subseteq Agents /\ banned \subseteq Agents
    /\ age \in [Agents -> Fresh..Expired]
    /\ queue \subseteq Tasks
    /\ pending \in [Agents -> SUBSET Tasks]
    /\ results \subseteq Tasks
    /\ history \subseteq Tasks
    /\ pipelineAgents \subseteq Agents
    /\ up \subseteq Agents
    /\ running \in [Agents -> SUBSET Tasks]
    /\ outbox \in [Agents -> SUBSET Tasks]
    /\ delivered \in [Tasks -> Nat]
    /\ faults \in 0..MaxFaults /\ restarts \in 0..MaxRestarts
    /\ clears \in 0..MaxClears /\ pipelines \in 0..MaxPipelines

(* A task queued for the time its agent is offline: the only tasks whose   *)
(* commands a restart rebuilds.                                            *)
QueuedForAgent(t) ==
    task[t] # None /\ task[t].status = "queued" /\ task[t].agent # None

(* Every command waiting for an agent is about a task addressed to that    *)
(* agent, and the task is still in the queue: nothing that has completed,  *)
(* been cleared or been revoked can still be picked up.  Only a command    *)
(* rebuilt by a restart may outlive its task, which the agent completes    *)
(* meanwhile.                                                              *)
CommandsAreQueued ==
    \A a \in Agents : \A t \in pending[a] :
        /\ task[t] # None /\ task[t].agent = a
        /\ t \in queue \/ (restarts > 0 /\ QueuedForAgent(t))

(* An agent receives the command to run a task at most once; a task that   *)
(* was queued for it while it was offline, once more per restart of the    *)
(* center.                                                                 *)
DeliveredOnce ==
    \A t \in Tasks :
        delivered[t] <= 1 + IF QueuedForAgent(t) THEN restarts ELSE 0

Work(a) == pending[a] \cup running[a] \cup outbox[a]

(* No two agents are ever given, run or report the same task, not even     *)
(* when the center forgets its assignments in a restart.                   *)
NoDoubleDispatch ==
    \A a, b \in Agents : a # b => Work(a) \cap Work(b) = {}

(* In whatever order the writes about a task are executed, the row they    *)
(* leave is the task, or would be restored as the task.                    *)
RowIsCurrent ==
    \A t \in Tasks : rows[t] # None => task[t] \in {rows[t], Restored(rows[t])}

(* What makes the four properties above inductive.  Work is on a task      *)
(* addressed to the agent, or to nobody once a restart has reset it.  A    *)
(* command that waits has not been received, but for commands a restart    *)
(* rebuilt.  An id that was never used was never sent.                     *)
WorkIsAddressed ==
    \A a \in Agents : \A t \in Work(a) :
        task[t] # None /\ task[t].agent \in {a, None}

PendingNotStarted ==
    \A a \in Agents : \A t \in pending[a] :
        /\ delivered[t] <= IF QueuedForAgent(t) THEN restarts ELSE 0
        /\ t \in running[a] \cup outbox[a] => restarts > 0 /\ QueuedForAgent(t)

FreshNotDelivered == \A t \in FreshIds : delivered[t] = 0

DispatchInv ==
    /\ TypeOK
    /\ RowIsCurrent
    /\ WorkIsAddressed
    /\ NoDoubleDispatch
    /\ CommandsAreQueued
    /\ PendingNotStarted
    /\ FreshNotDelivered
    /\ DeliveredOnce

Submitted == Tasks \ FreshIds
Owner == [t \in Tasks |-> IF task[t] = None THEN None ELSE task[t].agent]
Retained == {t \in Tasks : QueuedForAgent(t)}
Taken == [a \in Agents |-> running[a] \cup outbox[a]]

(* The center is a TaskDelivery: what it loses, repeats and brings back    *)
(* when it crashes, with writes not yet executed or executed out of their  *)
(* order, is what that module allows and no more.                          *)
Delivery == INSTANCE TaskDelivery WITH
    submitted <- Submitted, owner <- Owner, retained <- Retained,
    waiting <- queue, offered <- pending, taken <- Taken, takes <- delivered,
    recorded <- history, crashes <- restarts

ImplementsDelivery == Delivery!DeliverySpec

(* An agent marked as revoked has nothing to pick up and nothing queued.   *)
(* (Without pipelines, which address agents chosen earlier.)               *)
RevokedHasNoWork ==
    \A a \in Agents : status[a] = "revoked" =>
        pending[a] = {} /\ \A t \in queue : task[t].agent # a

(* README.md:251, "prevents future reconnects with its old identity": an   *)
(* agent process whose id has been revoked does not register again, not    *)
(* even after a heartbeat under the master key (start-agent presents it)   *)
(* has set its status back to online.  This holds only for as long as the  *)
(* center remembers: until the agent is purged, or until a restart that    *)
(* does not find the revocation in its row.  A row is not found when its   *)
(* timestamp does not parse; it does not tell when the write of the        *)
(* revocation was not executed, or that of a registration was after it.    *)
RevokedStaysOut == [][up' \cap banned \subseteq up]_vars

(* db.py:5, "Agent registrations ... survive center node restarts": an     *)
(* agent known before a restart, its writes executed, is known after it    *)
(* when SQLite can parse its timestamps, and only then.  No agent of this  *)
(* repository sends such timestamps (user_agent.py:276, 352, 406): they    *)
(* are all forgotten.                                                      *)
RestartKeepsParsable ==
    [][restarts' > restarts /\ writes = {} =>
          \A a \in Agents : Known(a) => (Known(a)' <=> a \in Parsable)]_vars

(* Nothing more goes wrong. *)
Quiet == faults = MaxFaults /\ restarts = MaxRestarts

(* A task waiting for an agent that is up, and is known to the center,     *)
(* leaves the queue: it is completed, cleared, or its agent revoked.       *)
(* Otherwise the center has forgotten the agent: one whose heartbeats did  *)
(* not arrive for ten minutes is purged before the next one does, and its  *)
(* commands go while the task stays queued (contrary to README.md:162).    *)
DispatchedTaskCompletes ==
    \A a \in Agents, t \in Tasks :
        (t \in pending[a] /\ Quiet /\ a \in up /\ IdentityValid(a))
            ~> (t \notin queue \/ ~Known(a))

(* center_node.py:666, "ghost -- status==online but heartbeat is stale     *)
(* (process probably crashed)": an agent whose process is gone does not    *)
(* stay online for ever.                                                   *)
DeadAgentGoesOffline ==
    \A a \in Agents :
        (status[a] = "online" /\ a \notin up)
            ~> (status[a] # "online" \/ a \in up)

=============================================================================

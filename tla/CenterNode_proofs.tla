-------------------------- MODULE CenterNode_proofs --------------------------
(***************************************************************************)
(* Proofs about CenterNode, for any sets of agents and tasks and any       *)
(* bounds.                                                                 *)
(***************************************************************************)
EXTENDS CenterNode, TLAPS

(* The writes the handlers start are writes of the store. *)
LEMMA WritesTyped ==
    /\ \A t \in Tasks, kind \in {"save", "update", "remove", "history"} :
          TaskWrite(kind, t) \in Writes
    /\ \A a \in Agents, kind \in {"upsert", "revoke", "removeFor"} :
          AgentWrite(kind, a) \in Writes
    /\ ClearWrite \in Writes
    /\ \A ids \in SUBSET Tasks : Saves(ids) \subseteq Writes
<1>1. \A t \in Tasks, kind \in {"save", "update", "remove", "history"} :
          TaskWrite(kind, t) \in Writes
  BY DEF TaskWrite, Writes, TaskWrites
<1>2. \A a \in Agents, kind \in {"upsert", "revoke", "removeFor"} :
          AgentWrite(kind, a) \in Writes
  BY DEF AgentWrite, Writes, AgentWrites
<1>3. ClearWrite \in Writes
  BY DEF Writes
<1>4. QED
  BY <1>1, <1>2, <1>3 DEF Saves

(* One step of a thread of the store. *)
LEMMA StoreTyped ==
    ASSUME TypeOK, ExecuteWrite
    PROVE  /\ task' = task
           /\ rows' \in [Tasks -> TaskDict \cup {None}]
           /\ agentRows' \in [Agents -> {"active", "revoked", None}]
           /\ historyRows' \subseteq Tasks
           /\ writes' \subseteq Writes
<1> USE DEF TypeOK
<1>1. ASSUME NEW t \in Tasks, SaveTaskQueue(t)
      PROVE  /\ UNCHANGED <<task, agentRows, historyRows>>
             /\ rows' \in [Tasks -> TaskDict \cup {None}]
             /\ writes' \subseteq Writes
  BY <1>1 DEF SaveTaskQueue
<1>2. ASSUME NEW t \in Tasks, UpdateTaskQueue(t)
      PROVE  /\ UNCHANGED <<task, agentRows, historyRows>>
             /\ rows' \in [Tasks -> TaskDict \cup {None}]
             /\ writes' \subseteq Writes
  BY <1>2 DEF UpdateTaskQueue
<1>3. ASSUME NEW t \in Tasks, RemoveFromQueue(t)
      PROVE  /\ UNCHANGED <<task, agentRows, historyRows>>
             /\ rows' \in [Tasks -> TaskDict \cup {None}]
             /\ writes' \subseteq Writes
  BY <1>3 DEF RemoveFromQueue
<1>4. ASSUME NEW t \in Tasks, SaveTaskHistory(t)
      PROVE  /\ UNCHANGED <<task, agentRows, rows>>
             /\ historyRows' \subseteq Tasks
             /\ writes' \subseteq Writes
  BY <1>4 DEF SaveTaskHistory
<1>5. ASSUME NEW a \in Agents, UpsertAgent(a)
      PROVE  /\ UNCHANGED <<task, rows, historyRows>>
             /\ agentRows' \in [Agents -> {"active", "revoked", None}]
             /\ writes' \subseteq Writes
  BY <1>5 DEF UpsertAgent
<1>6. ASSUME NEW a \in Agents, UpsertRevokedAgent(a)
      PROVE  /\ UNCHANGED <<task, rows, historyRows>>
             /\ agentRows' \in [Agents -> {"active", "revoked", None}]
             /\ writes' \subseteq Writes
  BY <1>6, WritesTyped DEF UpsertRevokedAgent
<1>7. ASSUME NEW a \in Agents, RemoveTasksForAgent(a)
      PROVE  /\ UNCHANGED <<task, agentRows, historyRows>>
             /\ rows' \in [Tasks -> TaskDict \cup {None}]
             /\ writes' \subseteq Writes
  BY <1>7 DEF RemoveTasksForAgent
<1>8. CASE ClearTaskQueue
  BY <1>8 DEF ClearTaskQueue
<1>9. QED
  BY <1>1, <1>2, <1>3, <1>4, <1>5, <1>6, <1>7, <1>8 DEF ExecuteWrite

(* The dicts a handler makes for ids that were never used. *)
LEMMA EnqueueTyped ==
    ASSUME TypeOK, NEW ids \in SUBSET FreshIds, NEW dicts \in [ids -> TaskDict],
           Enqueue(dicts)
    PROVE  /\ task' \in [Tasks -> TaskDict \cup {None}]
           /\ queue' \subseteq Tasks
           /\ pending' \in [Agents -> SUBSET Tasks]
           /\ UNCHANGED <<rows, agentRows, historyRows, results, history>>
<1>1. DOMAIN dicts = ids /\ ids \subseteq Tasks
  BY DEF FreshIds
<1>2. QED
  BY <1>1 DEF Enqueue, TypeOK

(* Every handler that makes tasks enqueues dicts for ids never used. *)
LEMMA SubmitEnqueues ==
    ASSUME NEW t \in Tasks, SubmitTask(t)
    PROVE  /\ \E dicts \in [{t} -> TaskDict] : Enqueue(dicts)
           /\ t \in FreshIds
           /\ \E kinds \in SUBSET Writes : StartWrites(kinds)
           /\ UNCHANGED <<registryVars, pipelineAgents, agentVars, boundVars>>
<1>1. t \in FreshIds
       /\ UNCHANGED <<registryVars, pipelineAgents, agentVars, boundVars>>
  BY DEF SubmitTask
<1>2. Saves({t}) \in SUBSET Writes
       /\ Saves({t}) \cup {TaskWrite("update", t)} \in SUBSET Writes
  BY WritesTyped
<1>3. CASE Online = {}
  <2> DEFINE dicts == [id \in {t} |-> [status |-> "queued", agent |-> None]]
  <2>1. Enqueue(dicts) /\ StartWrites(Saves({t}))
    BY <1>3 DEF SubmitTask
  <2>2. dicts \in [{t} -> TaskDict]
    BY DEF TaskDict
  <2>3. QED
    BY <1>1, <1>2, <2>1, <2>2
<1>4. CASE Online # {}
  <2>1. PICK a \in Online :
            Enqueue([id \in {t} |-> [status |-> "assigned", agent |-> a]])
    BY <1>4 DEF SubmitTask
  <2>2. [id \in {t} |-> [status |-> "assigned", agent |-> a]]
            \in [{t} -> TaskDict]
    BY DEF TaskDict, Online
  <2>3. StartWrites(Saves({t}) \cup {TaskWrite("update", t)})
    BY <1>4 DEF SubmitTask
  <2>4. QED
    BY <1>1, <1>2, <2>1, <2>2, <2>3
<1>5. QED
  BY <1>3, <1>4

LEMMA BroadcastEnqueues ==
    ASSUME BroadcastTask
    PROVE  /\ \E ids \in SUBSET FreshIds :
                 /\ \E dicts \in [ids -> TaskDict] : Enqueue(dicts)
                 /\ StartWrites(Saves(ids))
           /\ UNCHANGED <<registryVars, pipelineAgents, agentVars, boundVars>>
<1>1. PICK ids \in SUBSET FreshIds :
          /\ \E target \in [ids -> Alive \cup Offline] :
                Enqueue([t \in ids |->
                      [status |-> IF target[t] \in Alive THEN "assigned"
                                                         ELSE "queued",
                       agent |-> target[t]]])
          /\ StartWrites(Saves(ids))
  BY DEF BroadcastTask
<1>2. PICK target \in [ids -> Alive \cup Offline] :
          Enqueue([t \in ids |->
                      [status |-> IF target[t] \in Alive THEN "assigned"
                                                         ELSE "queued",
                       agent |-> target[t]]])
  BY <1>1
<1>3. [t \in ids |-> [status |-> IF target[t] \in Alive THEN "assigned"
                                                        ELSE "queued",
                      agent |-> target[t]]] \in [ids -> TaskDict]
  BY DEF TaskDict, Alive, Online, Offline
<1>4. QED
  BY <1>1, <1>2, <1>3 DEF BroadcastTask

LEMMA PipelineEnqueues ==
    ASSUME TypeOK, NEW t \in Tasks, DispatchPipelineStep(t)
    PROVE  /\ \E dicts \in [{t} -> TaskDict] : Enqueue(dicts)
           /\ t \in FreshIds
           /\ StartWrites(Saves({t}))
           /\ UNCHANGED <<registryVars, pipelineAgents, agentVars, boundVars>>
<1>1. PICK a \in pipelineAgents :
          Enqueue([id \in {t} |-> [status |-> "assigned", agent |-> a]])
  BY DEF DispatchPipelineStep
<1>2. [id \in {t} |-> [status |-> "assigned", agent |-> a]]
          \in [{t} -> TaskDict]
  BY DEF TaskDict, TypeOK
<1>3. QED
  BY <1>1, <1>2 DEF DispatchPipelineStep

(* The handlers that make tasks. *)
Submission ==
    \/ \E t \in Tasks : SubmitTask(t) \/ DispatchPipelineStep(t)
    \/ BroadcastTask

LEMMA SubmissionEnqueues ==
    ASSUME TypeOK, Submission
    PROVE  /\ \E ids \in SUBSET FreshIds :
                 \E dicts \in [ids -> TaskDict] : Enqueue(dicts)
           /\ \E kinds \in SUBSET Writes : StartWrites(kinds)
           /\ UNCHANGED <<registryVars, pipelineAgents, agentVars, boundVars>>
<1>1. \A ids \in SUBSET FreshIds : Saves(ids) \in SUBSET Writes
  BY WritesTyped DEF FreshIds
<1>2. CASE BroadcastTask
  BY <1>1, <1>2, BroadcastEnqueues
<1>3. ASSUME NEW t \in Tasks, SubmitTask(t) \/ DispatchPipelineStep(t)
      PROVE  /\ \E dicts \in [{t} -> TaskDict] : Enqueue(dicts)
             /\ {t} \in SUBSET FreshIds
             /\ \E kinds \in SUBSET Writes : StartWrites(kinds)
             /\ UNCHANGED <<registryVars, pipelineAgents, agentVars, boundVars>>
  BY <1>1, <1>3, SubmitEnqueues, PipelineEnqueues
<1>4. QED
  BY <1>2, <1>3 DEF Submission

LEMMA ReceiveTyped ==
    ASSUME TypeOK, NEW a \in Agents, NEW got \in SUBSET pending[a],
           ReceiveCommands(a, got)
    PROVE  /\ running' \in [Agents -> SUBSET Tasks]
           /\ delivered' \in [Tasks -> Nat]
<1>1. \A n \in Nat, t \in Tasks : n + (IF t \in got THEN 1 ELSE 0) \in Nat
  OBVIOUS
<1>2. QED
  BY <1>1 DEF ReceiveCommands, TypeOK

-----------------------------------------------------------------------------

(* The type invariant of the center, its store and the agents it serves. *)
THEOREM TypeCorrect == Spec => []TypeOK
<1>1. Init => TypeOK
  BY CenterAssumption DEF Init, StoreInit, TypeOK, Fresh, Expired
<1>2. TypeOK /\ [Next]_vars => TypeOK'
  <2> SUFFICES ASSUME TypeOK, [Next]_vars PROVE TypeOK'
    OBVIOUS
  <2> USE CenterAssumption DEF TypeOK, registryVars, queueVars, agentVars,
                               boundVars
  <2>1. ASSUME NEW a \in Agents, RegisterAgent(a) PROVE TypeOK'
    BY <2>1, WritesTyped DEF RegisterAgent, StartWrites, Status, Fresh, Expired
  <2>2. ASSUME NEW a \in Agents, Heartbeat(a) PROVE TypeOK'
    BY <2>2 DEF Heartbeat, HeartbeatHandled, storeVars, Status, Fresh, Expired
  <2>3. ASSUME NEW a \in Agents, HeartbeatAges(a) PROVE TypeOK'
    <3>1. faults' \in 0..MaxFaults
      BY <2>3 DEF HeartbeatAges, Fault
    <3>2. QED
      BY <2>3, <3>1 DEF HeartbeatAges, storeVars, Fresh, Expired
  <2>4. ASSUME NEW a \in Agents, MarkOffline(a) PROVE TypeOK'
    BY <2>4 DEF MarkOffline, storeVars, Status
  <2>5. ASSUME NEW a \in Agents, PurgeAgent(a) PROVE TypeOK'
    BY <2>5 DEF PurgeAgent, storeVars, Status, Fresh, Expired
  <2>6. ASSUME NEW a \in Agents, RevokeAgent(a) PROVE TypeOK'
    BY <2>6, WritesTyped DEF RevokeAgent, StartWrites, Status
  <2>7. ASSUME NEW a \in Agents, PollCommands(a) PROVE TypeOK'
    <3>1. /\ running' \in [Agents -> SUBSET Tasks]
          /\ delivered' \in [Tasks -> Nat]
      BY <2>7, ReceiveTyped DEF PollCommands
    <3>2. QED
      BY <2>7, <3>1 DEF PollCommands, PopCommands, storeVars
  <2>8. ASSUME NEW a \in Agents, NEW got \in SUBSET pending[a],
               PollCutShort(a, got)
        PROVE  TypeOK'
    <3>1. /\ running' \in [Agents -> SUBSET Tasks]
          /\ delivered' \in [Tasks -> Nat]
      BY <2>8, ReceiveTyped DEF PollCutShort
    <3>2. faults' \in 0..MaxFaults
      BY <2>8 DEF PollCutShort, Fault
    <3>3. QED
      BY <2>8, <3>1, <3>2 DEF PollCutShort, PopCommands, storeVars
  <2>9. ASSUME NEW a \in Agents, NEW keeps \in SUBSET outbox[a],
               StopAgent(a, keeps)
        PROVE  TypeOK'
    <3>1. faults' \in 0..MaxFaults
      BY <2>9 DEF StopAgent, Fault
    <3>2. /\ status' \in [Agents -> Status \cup {None}]
          /\ age' \in [Agents -> Fresh..Expired]
          /\ UNCHANGED <<revokedAt, banned>>
      BY <2>9 DEF StopAgent, HeartbeatHandled, Status, Fresh, Expired
    <3>3. QED
      BY <2>9, <3>1, <3>2 DEF StopAgent, storeVars
  <2>10. ASSUME NEW a \in Agents, NEW t \in Tasks, FinishTask(a, t)
         PROVE  TypeOK'
    BY <2>10 DEF FinishTask, storeVars
  <2>11. ASSUME NEW a \in Agents, NEW t \in Tasks,
                TaskCompletion(a, t) \/ CompletionAnswerLost(a, t)
         PROVE  TypeOK'
    <3>1. CompletionHandled(a, t) /\ faults' \in 0..MaxFaults
          /\ outbox' \in [Agents -> SUBSET Tasks]
      BY <2>11 DEF TaskCompletion, CompletionAnswerLost, Fault
    <3>2. QED
      BY <3>1, WritesTyped DEF CompletionHandled, StartWrites
  <2>12. CASE Submission
    <3>1. /\ task' \in [Tasks -> TaskDict \cup {None}]
          /\ queue' \subseteq Tasks
          /\ pending' \in [Agents -> SUBSET Tasks]
          /\ UNCHANGED <<rows, agentRows, historyRows, results, history>>
      BY <2>12, SubmissionEnqueues, EnqueueTyped
    <3>2. writes' \subseteq Writes
      BY <2>12, SubmissionEnqueues DEF StartWrites
    <3>3. UNCHANGED <<registryVars, pipelineAgents, agentVars, boundVars>>
      BY <2>12, SubmissionEnqueues
    <3>4. QED
      BY <3>1, <3>2, <3>3
  <2>13. CASE StartPipeline
    BY <2>13 DEF StartPipeline, storeVars, Alive, Online
  <2>14. CASE EndPipeline
    BY <2>14 DEF EndPipeline, storeVars
  <2>15. CASE ClearTasks
    BY <2>15, WritesTyped DEF ClearTasks, StartWrites
  <2>16. CASE Restart
    <3>1. task' \in [Tasks -> TaskDict \cup {None}] /\ writes' = {}
          /\ UNCHANGED <<rows, agentRows, historyRows>>
      BY <2>16 DEF Restart, LoadState, Restored, TaskDict
    <3>2. /\ queue' \subseteq Tasks /\ pending' \in [Agents -> SUBSET Tasks]
          /\ history' \subseteq Tasks
      BY <2>16 DEF Restart, LoadedTasks, RebuiltCommands
    <3>3. /\ status' \in [Agents -> Status \cup {None}]
          /\ revokedAt' \subseteq Agents
          /\ age' \in [Agents -> Fresh..Expired]
      BY <2>16, StoreAssumption
         DEF Restart, LoadedAgents, Status, Fresh, Expired
    <3>4. QED
      BY <2>16, <3>1, <3>2, <3>3 DEF Restart
  <2>17. CASE ExecuteStoreWrite
    BY <2>17, StoreTyped DEF ExecuteStoreWrite
  <2>18. CASE UNCHANGED vars
    BY <2>18 DEF vars, storeVars
  <2>19. QED
    BY <2>1, <2>2, <2>3, <2>4, <2>5, <2>6, <2>7, <2>8, <2>9, <2>10, <2>11,
       <2>12, <2>13, <2>14, <2>15, <2>16, <2>17, <2>18 DEF Next, Submission
<1>3. QED
  BY <1>1, <1>2, PTL DEF Spec

-----------------------------------------------------------------------------
(* The dispatch of tasks. *)

DispatchParts ==
    /\ RowIsCurrent
    /\ WorkIsAddressed
    /\ NoDoubleDispatch
    /\ CommandsAreQueued
    /\ PendingNotStarted
    /\ FreshNotDelivered
    /\ DeliveredOnce

(* A step that leaves the dicts and the rows, and only takes commands, work *)
(* and queue entries away, each command with its queue entry.               *)
LEMMA ShrinkingStep ==
    ASSUME DispatchInv, TypeOK',
           UNCHANGED <<task, rows, delivered, restarts>>,
           \A a \in Agents : pending'[a] \subseteq pending[a],
           \A a \in Agents : running'[a] \subseteq running[a],
           \A a \in Agents : outbox'[a] \subseteq outbox[a],
           \A a \in Agents : \A t \in pending'[a] :
               t \in queue =>
                   t \in queue' \/ (restarts > 0 /\ QueuedForAgent(t))
    PROVE  DispatchParts'
<1> USE DEF DispatchInv
<1>1. \A t \in Tasks : QueuedForAgent(t)' = QueuedForAgent(t)
  BY DEF QueuedForAgent
<1>2. \A a \in Agents : Work(a)' \subseteq Work(a)
  BY DEF Work
<1>3. RowIsCurrent' /\ FreshNotDelivered'
  BY DEF RowIsCurrent, FreshNotDelivered, FreshIds, Restored
<1>4. WorkIsAddressed' /\ NoDoubleDispatch'
  BY <1>2 DEF WorkIsAddressed, NoDoubleDispatch
<1>5. CommandsAreQueued'
  BY <1>1 DEF CommandsAreQueued, TypeOK
<1>6. PendingNotStarted' /\ DeliveredOnce'
  BY <1>1 DEF PendingNotStarted, DeliveredOnce, TypeOK
<1>7. QED
  BY <1>3, <1>4, <1>5, <1>6 DEF DispatchParts

(* The store's threads change rows only: to the dict as it is, or to none. *)
LEMMA StoreWritesCurrentRows ==
    ASSUME TypeOK, RowIsCurrent, ExecuteWrite
    PROVE  RowIsCurrent'
<1> USE DEF TypeOK, RowIsCurrent
<1>1. ASSUME NEW t \in Tasks,
             \/ SaveTaskQueue(t) \/ UpdateTaskQueue(t)
             \/ RemoveFromQueue(t) \/ SaveTaskHistory(t)
      PROVE  /\ task' = task
             /\ \A u \in Tasks : rows'[u] \in {rows[u], task[u], None}
  BY <1>1 DEF SaveTaskQueue, UpdateTaskQueue, RemoveFromQueue, SaveTaskHistory
<1>2. ASSUME NEW a \in Agents,
             UpsertAgent(a) \/ UpsertRevokedAgent(a) \/ RemoveTasksForAgent(a)
      PROVE  /\ task' = task
             /\ \A u \in Tasks : rows'[u] \in {rows[u], task[u], None}
  BY <1>2 DEF UpsertAgent, UpsertRevokedAgent, RemoveTasksForAgent
<1>3. CASE ClearTaskQueue
  BY <1>3 DEF ClearTaskQueue
<1>4. task' = task /\ \A u \in Tasks : rows'[u] \in {rows[u], task[u], None}
  BY <1>1, <1>2, <1>3 DEF ExecuteWrite, ClearTaskQueue
<1>5. QED
  BY <1>4 DEF Restored

(* New tasks are nobody's work yet, and each goes to one agent. *)
LEMMA EnqueueDispatches ==
    ASSUME DispatchInv, TypeOK',
           NEW ids \in SUBSET FreshIds, NEW dicts \in [ids -> TaskDict],
           Enqueue(dicts),
           UNCHANGED <<running, outbox, delivered, restarts>>
    PROVE  DispatchParts'
<1> USE DEF DispatchInv
<1>1. /\ DOMAIN dicts = ids /\ ids \subseteq Tasks /\ rows' = rows
      /\ \A t \in ids : task[t] = None /\ delivered[t] = 0
      /\ \A t \in ids : \A a \in Agents : t \notin Work(a)
      /\ \A t \in ids : rows[t] = None
  <2>1. \A t \in ids : task[t] = None /\ t \in Tasks
    BY DEF FreshIds
  <2>2. \A t \in ids : rows[t] = None
    <3>1. \A t \in ids : rows[t] # None =>
              rows[t] \in TaskDict /\ Restored(rows[t]) \in TaskDict
      BY <2>1 DEF Restored, TypeOK, TaskDict
    <3>2. QED
      BY <2>1, <3>1, NoneAssumption DEF RowIsCurrent
  <2>3. QED
    BY <2>1, <2>2 DEF Enqueue, FreshNotDelivered, WorkIsAddressed, FreshIds
<1>2. \A t \in Tasks \ ids : task'[t] = task[t]
  BY <1>1 DEF Enqueue
<1>3. \A t \in ids : task'[t] = dicts[t] /\ task'[t] # None /\ t \in queue'
  <2>1. \A t \in ids : task'[t] = dicts[t] /\ t \in queue'
    BY <1>1 DEF Enqueue
  <2>2. \A t \in ids : dicts[t] \in TaskDict
    OBVIOUS
  <2>3. QED
    BY <2>1, <2>2, NoneAssumption
<1>4. \A a \in Agents :
          /\ \A t \in pending'[a] \ pending[a] : t \in ids /\ task'[t].agent = a
          /\ pending'[a] \cap ids = pending'[a] \ pending[a]
  BY <1>1, <1>3 DEF Enqueue, Work
<1>5. \A t \in Tasks \ ids : QueuedForAgent(t)' = QueuedForAgent(t)
  BY <1>2 DEF QueuedForAgent
<1>6. RowIsCurrent'
  BY <1>1, <1>2 DEF RowIsCurrent, Restored
<1>7. WorkIsAddressed'
  BY <1>1, <1>2, <1>3, <1>4 DEF WorkIsAddressed, Work, TypeOK
<1>8. NoDoubleDispatch'
  BY <1>1, <1>4 DEF NoDoubleDispatch, Work, TypeOK
<1>9. CommandsAreQueued'
  <2> SUFFICES ASSUME NEW a \in Agents, NEW t \in pending'[a]
               PROVE  /\ task'[t] # None /\ task'[t].agent = a
                      /\ \/ t \in queue'
                         \/ restarts' > 0 /\ QueuedForAgent(t)'
    BY DEF CommandsAreQueued
  <2>1. CASE t \in ids
    BY <1>3, <1>4, <2>1
  <2>2. CASE t \notin ids
    <3>1. t \in pending[a] /\ t \in Tasks \ ids
      BY <1>4, <2>2 DEF TypeOK
    <3>2. queue \subseteq queue'
      BY DEF Enqueue
    <3>3. QED
      BY <1>2, <1>5, <3>1, <3>2 DEF CommandsAreQueued
  <2>3. QED
    BY <2>1, <2>2
<1>10. PendingNotStarted'
  BY <1>1, <1>4, <1>5 DEF PendingNotStarted, Work, TypeOK
<1>11. FreshNotDelivered'
  BY <1>2, <1>3 DEF FreshNotDelivered, FreshIds
<1>12. DeliveredOnce'
  BY <1>1, <1>5 DEF DeliveredOnce, TypeOK
<1>13. QED
  BY <1>6, <1>7, <1>8, <1>9, <1>10, <1>11, <1>12 DEF DispatchParts

(* A restart rebuilds only the commands of tasks that were queued for an   *)
(* agent, and no agent but that one has ever had them.                     *)
LEMMA RestartDispatches ==
    ASSUME DispatchInv, TypeOK', Restart
    PROVE  DispatchParts'
<1> USE DEF DispatchInv
<1>1. /\ rows' = rows /\ restarts' = restarts + 1 /\ queue' = LoadedTasks
      /\ UNCHANGED <<running, outbox, delivered>>
      /\ \A t \in Tasks :
             task'[t] = IF rows[t] = None THEN task[t] ELSE Restored(rows[t])
      /\ \A a \in Agents : pending'[a] = RebuiltCommands(a)
  BY DEF Restart, LoadState, agentVars
<1>2. \A t \in Tasks : task[t] = None <=> task'[t] = None
  <2>1. \A t \in Tasks : rows[t] # None =>
            rows[t] \in TaskDict /\ Restored(rows[t]) \in TaskDict
    BY DEF Restored, TypeOK, TaskDict
  <2>2. QED
    BY <1>1, <2>1, NoneAssumption DEF RowIsCurrent
<1>3. \A t \in Tasks : task[t] # None =>
          /\ task'[t].agent \in {task[t].agent, None}
          /\ task'[t].agent # None => task'[t] = task[t]
          /\ QueuedForAgent(t)' = QueuedForAgent(t)
  <2> TAKE t \in Tasks
  <2> HAVE task[t] # None
  <2>1. task[t] \in TaskDict /\ rows[t] \in TaskDict \cup {None}
    BY DEF TypeOK
  <2>2. CASE rows[t] = None
    BY <1>1, <2>2 DEF QueuedForAgent
  <2>3. CASE rows[t] # None /\ rows[t].status = "assigned"
    BY <1>1, <2>1, <2>3 DEF QueuedForAgent, RowIsCurrent, Restored
  <2>4. CASE rows[t] # None /\ rows[t].status # "assigned"
    BY <1>1, <2>1, <2>4 DEF QueuedForAgent, RowIsCurrent, Restored
  <2>5. QED
    BY <2>2, <2>3, <2>4
<1>4. \A a \in Agents : \A t \in pending'[a] :
          /\ t \in Tasks /\ t \in queue' /\ task[t] # None /\ task'[t] # None
          /\ task[t].agent = a /\ task'[t].agent = a
          /\ QueuedForAgent(t) /\ QueuedForAgent(t)'
  <2> TAKE a \in Agents
  <2> TAKE t \in pending'[a]
  <2>1. t \in Tasks /\ rows[t] # None /\ t \in queue'
        /\ task'[t].status = "queued" /\ task'[t].agent = a
    BY <1>1 DEF RebuiltCommands, LoadedTasks
  <2>2. task'[t] # None /\ task[t] # None
    <3>1. rows[t] \in TaskDict /\ Restored(rows[t]) \in TaskDict
      BY <2>1 DEF Restored, TypeOK, TaskDict
    <3>2. QED
      BY <1>1, <1>2, <2>1, <3>1, NoneAssumption
  <2>3. a # None
    BY StoreAssumption
  <2>4. QED
    BY <1>3, <2>1, <2>2, <2>3 DEF QueuedForAgent
<1>5. RowIsCurrent'
  BY <1>1 DEF RowIsCurrent
<1>6. WorkIsAddressed'
  BY <1>1, <1>2, <1>3, <1>4 DEF WorkIsAddressed, Work, TypeOK
<1>7. NoDoubleDispatch'
  <2>1. ASSUME NEW a \in Agents, NEW b \in Agents, a # b,
               NEW t, t \in Work(a)', t \in Work(b)'
        PROVE  FALSE
    <3>1. ~(t \in pending'[a] /\ t \in pending'[b])
      BY <1>4, <2>1
    <3>2. ~(t \in running[a] \cup outbox[a] /\ t \in running[b] \cup outbox[b])
      BY <2>1 DEF NoDoubleDispatch, Work
    <3>3. ASSUME NEW x \in Agents, NEW y \in Agents, x # y,
                 t \in pending'[x], t \in running[y] \cup outbox[y]
          PROVE  FALSE
      <4>1. task[t].agent = x /\ x # None
        BY <1>4, <3>3, StoreAssumption
      <4>2. task[t].agent \in {y, None}
        BY <3>3 DEF WorkIsAddressed, Work
      <4>3. QED
        BY <3>3, <4>1, <4>2
    <3>4. QED
      BY <1>1, <2>1, <3>1, <3>2, <3>3 DEF Work
  <2>2. QED
    BY <2>1 DEF NoDoubleDispatch
<1>8. CommandsAreQueued'
  BY <1>4 DEF CommandsAreQueued
<1>9. \A t \in Tasks : QueuedForAgent(t)' = QueuedForAgent(t)
  BY <1>2, <1>3 DEF QueuedForAgent
<1>10. restarts \in Nat /\ restarts' \in Nat /\ restarts' > 0
  BY <1>1, CenterAssumption DEF TypeOK
<1>11. PendingNotStarted'
  BY <1>1, <1>4, <1>10 DEF PendingNotStarted, DeliveredOnce, TypeOK
<1>12. FreshNotDelivered'
  BY <1>1, <1>2 DEF FreshNotDelivered, FreshIds
<1>13. DeliveredOnce'
  BY <1>1, <1>9, <1>10 DEF DeliveredOnce, TypeOK
<1>14. QED
  BY <1>5, <1>6, <1>7, <1>8, <1>11, <1>12, <1>13 DEF DispatchParts

(* _get_pending_commands: what waited is gone, and what of it was received *)
(* now runs.                                                               *)
LEMMA PollDispatches ==
    ASSUME DispatchInv, TypeOK', NEW a \in Agents,
           NEW got \in SUBSET pending[a],
           PopCommands(a), ReceiveCommands(a, got)
    PROVE  DispatchParts'
<1> USE DEF DispatchInv
<1>1. /\ UNCHANGED <<task, rows, queue, outbox, restarts>>
      /\ pending' = [pending EXCEPT ![a] = {}]
      /\ running' = [running EXCEPT ![a] = @ \cup got]
  BY DEF PopCommands, ReceiveCommands, storeVars
<1>2. \A t \in Tasks : QueuedForAgent(t)' = QueuedForAgent(t)
  BY <1>1 DEF QueuedForAgent
<1>3. \A b \in Agents : Work(b)' \subseteq Work(b)
  BY <1>1 DEF Work, TypeOK
<1>4. \A b \in Agents : pending'[b] = IF b = a THEN {} ELSE pending[b]
  BY <1>1 DEF TypeOK
<1>5. /\ \A t \in got : delivered'[t] = delivered[t] + 1
      /\ \A t \in Tasks \ got : delivered'[t] = delivered[t]
  BY DEF ReceiveCommands, TypeOK
<1>6. \A b \in Agents \ {a} : pending[b] \cap pending[a] = {}
  BY DEF NoDoubleDispatch, Work
<1>7. RowIsCurrent'
  BY <1>1 DEF RowIsCurrent, Restored
<1>8. WorkIsAddressed' /\ NoDoubleDispatch'
  BY <1>1, <1>3 DEF WorkIsAddressed, NoDoubleDispatch
<1>9. CommandsAreQueued'
  BY <1>1, <1>2, <1>4 DEF CommandsAreQueued, TypeOK
<1>10. PendingNotStarted'
  <2> SUFFICES ASSUME NEW b \in Agents, NEW t \in pending'[b]
               PROVE  /\ delivered'[t] <= IF QueuedForAgent(t)' THEN restarts'
                                                               ELSE 0
                      /\ t \in running'[b] \cup outbox'[b] =>
                            restarts' > 0 /\ QueuedForAgent(t)'
    BY DEF PendingNotStarted
  <2>1. b # a /\ t \in pending[b] /\ t \in Tasks
    BY <1>4 DEF TypeOK
  <2>2. delivered'[t] = delivered[t] /\ running'[b] = running[b]
    BY <1>1, <1>5, <1>6, <2>1 DEF TypeOK
  <2>3. QED
    BY <1>1, <1>2, <2>1, <2>2 DEF PendingNotStarted
<1>11. FreshNotDelivered'
  BY <1>1, <1>5 DEF FreshNotDelivered, FreshIds, WorkIsAddressed, Work
<1>12. DeliveredOnce'
  <2> SUFFICES ASSUME NEW t \in Tasks
               PROVE  delivered'[t] <= 1 + IF QueuedForAgent(t)' THEN restarts'
                                                               ELSE 0
    BY DEF DeliveredOnce
  <2>1. CASE t \in got
    BY <1>1, <1>2, <1>5, <2>1, CenterAssumption DEF PendingNotStarted, TypeOK
  <2>2. CASE t \notin got
    BY <1>1, <1>2, <1>5, <2>2 DEF DeliveredOnce
  <2>3. QED
    BY <2>1, <2>2
<1>13. QED
  BY <1>7, <1>8, <1>9, <1>10, <1>11, <1>12 DEF DispatchParts

(* A task that ends is still its agent's. *)
LEMMA FinishDispatches ==
    ASSUME DispatchInv, TypeOK', NEW a \in Agents, NEW t \in Tasks,
           FinishTask(a, t)
    PROVE  DispatchParts'
<1> USE DEF DispatchInv
<1>1. /\ UNCHANGED <<task, rows, queue, pending, delivered, restarts>>
      /\ \A b \in Agents :
             running'[b] \cup outbox'[b] = running[b] \cup outbox[b]
  BY DEF FinishTask, storeVars, queueVars, boundVars, TypeOK
<1>2. \A u \in Tasks : QueuedForAgent(u)' = QueuedForAgent(u)
  BY <1>1 DEF QueuedForAgent
<1>3. \A b \in Agents : Work(b)' = Work(b)
  BY <1>1 DEF Work
<1>4. RowIsCurrent' /\ FreshNotDelivered'
  BY <1>1 DEF RowIsCurrent, Restored, FreshNotDelivered, FreshIds
<1>5. WorkIsAddressed' /\ NoDoubleDispatch'
  BY <1>1, <1>3 DEF WorkIsAddressed, NoDoubleDispatch
<1>6. CommandsAreQueued' /\ DeliveredOnce'
  BY <1>1, <1>2 DEF CommandsAreQueued, DeliveredOnce, TypeOK
<1>7. PendingNotStarted'
  BY <1>1, <1>2 DEF PendingNotStarted, TypeOK
<1>8. QED
  BY <1>4, <1>5, <1>6, <1>7 DEF DispatchParts

(* _task_completion: of a task that has run, only a command that a restart *)
(* rebuilt can still wait.                                                 *)
LEMMA CompletionDispatches ==
    ASSUME DispatchInv, TypeOK', NEW a \in Agents, NEW t \in Tasks,
           TaskCompletion(a, t) \/ CompletionAnswerLost(a, t)
    PROVE  DispatchParts'
<1> USE DEF DispatchInv
<1>1. /\ UNCHANGED <<task, rows, pending, running, delivered, restarts>>
      /\ queue' = queue \ {t} /\ t \in outbox[a]
      /\ \A b \in Agents : outbox'[b] \subseteq outbox[b]
  BY DEF TaskCompletion, CompletionAnswerLost, CompletionHandled, TypeOK
<1>2. \A b \in Agents : t \in pending[b] => restarts > 0 /\ QueuedForAgent(t)
  BY <1>1 DEF NoDoubleDispatch, PendingNotStarted, Work
<1>3. QED
  BY <1>1, <1>2, ShrinkingStep

-----------------------------------------------------------------------------

(* The inductive invariant of the dispatch of tasks. *)
THEOREM DispatchIsSound == Spec => []DispatchInv
<1>1. Init => DispatchParts
  BY DEF Init, StoreInit, DispatchParts, RowIsCurrent, WorkIsAddressed, Work,
         NoDoubleDispatch, CommandsAreQueued, PendingNotStarted,
         FreshNotDelivered, FreshIds, DeliveredOnce, QueuedForAgent
<1>2. DispatchInv /\ TypeOK' /\ [Next]_vars => DispatchParts'
  <2> SUFFICES ASSUME DispatchInv, TypeOK', [Next]_vars PROVE DispatchParts'
    OBVIOUS
  <2>1. ASSUME NEW a \in Agents,
               \/ RegisterAgent(a) \/ Heartbeat(a) \/ HeartbeatAges(a)
               \/ MarkOffline(a)
        PROVE  DispatchParts'
    <3>1. UNCHANGED <<task, rows, pending, queue, running, outbox, delivered,
                      restarts>>
      BY <2>1 DEF RegisterAgent, Heartbeat, HeartbeatAges, MarkOffline,
                  storeVars, queueVars, agentVars, boundVars
    <3>2. QED
      BY <3>1, ShrinkingStep
  <2>2. CASE StartPipeline \/ EndPipeline \/ UNCHANGED vars
    <3>1. UNCHANGED <<task, rows, pending, queue, running, outbox, delivered,
                      restarts>>
      BY <2>2 DEF StartPipeline, EndPipeline, vars, storeVars, queueVars,
                  agentVars, boundVars
    <3>2. QED
      BY <3>1, ShrinkingStep
  <2>3. ASSUME NEW a \in Agents, PurgeAgent(a) PROVE DispatchParts'
    <3>1. /\ UNCHANGED <<task, rows, queue, running, outbox, delivered,
                         restarts>>
          /\ \A b \in Agents : pending'[b] \subseteq pending[b]
      BY <2>3 DEF PurgeAgent, storeVars, agentVars, boundVars, DispatchInv,
                  TypeOK
    <3>2. QED
      BY <3>1, ShrinkingStep
  <2>4. ASSUME NEW a \in Agents, NEW keeps \in SUBSET outbox[a],
               StopAgent(a, keeps)
        PROVE  DispatchParts'
    <3>1. /\ UNCHANGED <<task, rows, queue, pending, delivered, restarts>>
          /\ \A b \in Agents : running'[b] \subseteq running[b]
          /\ \A b \in Agents : outbox'[b] \subseteq outbox[b]
      BY <2>4 DEF StopAgent, storeVars, queueVars, DispatchInv, TypeOK
    <3>2. QED
      BY <3>1, ShrinkingStep
  <2>5. ASSUME NEW a \in Agents, RevokeAgent(a) PROVE DispatchParts'
    <3>1. /\ UNCHANGED <<task, rows, running, outbox, delivered, restarts>>
          /\ pending' = [pending EXCEPT ![a] = {}]
          /\ queue' = {t \in queue : task[t].agent # a}
      BY <2>5 DEF RevokeAgent, agentVars, boundVars
    <3>2. \A b \in Agents : pending'[b] = IF b = a THEN {} ELSE pending[b]
      BY <3>1 DEF DispatchInv, TypeOK
    <3>3. \A b \in Agents : \A t \in pending'[b] : t \in queue => t \in queue'
      BY <3>1, <3>2 DEF DispatchInv, CommandsAreQueued
    <3>4. QED
      BY <3>1, <3>2, <3>3, ShrinkingStep
  <2>6. CASE ClearTasks
    <3>1. /\ UNCHANGED <<task, rows, running, outbox, delivered, restarts>>
          /\ \A a \in Agents : pending'[a] = pending[a] \ queue
      BY <2>6 DEF ClearTasks, agentVars
    <3>2. QED
      BY <3>1, ShrinkingStep
  <2>7. CASE Submission
    <3>1. PICK ids \in SUBSET FreshIds :
              \E dicts \in [ids -> TaskDict] : Enqueue(dicts)
      BY <2>7, SubmissionEnqueues DEF DispatchInv
    <3>2. PICK dicts \in [ids -> TaskDict] : Enqueue(dicts)
      BY <3>1
    <3>3. UNCHANGED <<running, outbox, delivered, restarts>>
      BY <2>7, SubmissionEnqueues DEF DispatchInv, agentVars, boundVars
    <3>4. QED
      BY <3>1, <3>2, <3>3, EnqueueDispatches
  <2>8. CASE ExecuteStoreWrite
    <3>1. RowIsCurrent'
      BY <2>8, StoreWritesCurrentRows DEF DispatchInv, ExecuteStoreWrite
    <3>2. UNCHANGED <<task, pending, queue, running, outbox, delivered,
                      restarts>>
      BY <2>8, StoreTyped DEF ExecuteStoreWrite, DispatchInv, queueVars,
                              agentVars, boundVars
    <3>3. QED
      BY <3>1, <3>2
         DEF DispatchInv, DispatchParts, WorkIsAddressed, Work,
             NoDoubleDispatch, CommandsAreQueued, PendingNotStarted,
             FreshNotDelivered, FreshIds, DeliveredOnce, QueuedForAgent
  <2>9. ASSUME NEW a \in Agents, PollCommands(a) PROVE DispatchParts'
    BY <2>9, PollDispatches DEF PollCommands
  <2>10. ASSUME NEW a \in Agents, NEW got \in SUBSET pending[a],
                PollCutShort(a, got)
         PROVE  DispatchParts'
    BY <2>10, PollDispatches DEF PollCutShort
  <2>11. QED
    BY <2>1, <2>2, <2>3, <2>4, <2>5, <2>6, <2>7, <2>8, <2>9, <2>10,
       FinishDispatches, CompletionDispatches, RestartDispatches
       DEF Next, Submission
<1>3. DispatchInv <=> TypeOK /\ DispatchParts
  BY DEF DispatchInv, DispatchParts
<1>4. QED
  BY <1>1, <1>2, <1>3, TypeCorrect, PTL DEF Spec

(* No two agents are ever given, run or report the same task: neither      *)
(* _submit_task, _broadcast_task, _dispatch_pipeline_step nor              *)
(* _load_state_from_db dispatches one a second time to another agent.      *)
THEOREM NeverDispatchedTwice == Spec => []NoDoubleDispatch
  BY DispatchIsSound, PTL DEF DispatchInv

(* Polling delivers a command at most once, and once more per restart of   *)
(* the center when the task was queued for an agent that was offline.      *)
THEOREM DeliveriesAreBounded == Spec => []DeliveredOnce
  BY DispatchIsSound, PTL DEF DispatchInv

(* A command that completes, is cleared or is revoked cannot be picked up  *)
(* any more, but for commands a restart rebuilt.                           *)
THEOREM WaitingCommandsAreQueued == Spec => []CommandsAreQueued
  BY DispatchIsSound, PTL DEF DispatchInv

(* The fire-and-forget writes, in any order, never leave a row that is not *)
(* its task.                                                               *)
THEOREM RowsFollowTasks == Spec => []RowIsCurrent
  BY DispatchIsSound, PTL DEF DispatchInv

-----------------------------------------------------------------------------
(* Revocation, and agents in the store *)

(* A handler that makes tasks addresses them to agents that are online,    *)
(* alive or offline, or to nobody; a pipeline, to those it has chosen.     *)
LEMMA SubmissionAddresses ==
    ASSUME TypeOK, pipelineAgents = {}, Submission
    PROVE  \E ids \in SUBSET FreshIds :
             \E dicts \in [ids -> TaskDict] :
                /\ Enqueue(dicts)
                /\ \A t \in ids : dicts[t].agent \in Online \cup Offline \cup {None}
<1>1. ASSUME NEW t \in Tasks, SubmitTask(t)
      PROVE  \E ids \in SUBSET FreshIds :
               \E dicts \in [ids -> TaskDict] :
                  /\ Enqueue(dicts)
                  /\ \A u \in ids : dicts[u].agent \in Online \cup Offline \cup {None}
  <2> {t} \in SUBSET FreshIds
    BY <1>1 DEF SubmitTask
  <2>1. CASE Online = {}
    <3> DEFINE dicts == [id \in {t} |-> [status |-> "queued", agent |-> None]]
    <3>1. Enqueue(dicts)
      BY <1>1, <2>1 DEF SubmitTask
    <3>2. dicts \in [{t} -> TaskDict] /\ \A u \in {t} : dicts[u].agent = None
      BY DEF TaskDict
    <3> HIDE DEF dicts
    <3> QED
      BY <3>1, <3>2
  <2>2. CASE Online # {}
    <3>1. PICK a \in Online :
              Enqueue([id \in {t} |-> [status |-> "assigned", agent |-> a]])
      BY <1>1, <2>2 DEF SubmitTask
    <3> DEFINE dicts == [id \in {t} |-> [status |-> "assigned", agent |-> a]]
    <3>2. dicts \in [{t} -> TaskDict] /\ \A u \in {t} : dicts[u].agent = a
      BY DEF TaskDict, Online
    <3>3. Enqueue(dicts)
      BY <3>1
    <3> HIDE DEF dicts
    <3> QED
      BY <3>2, <3>3
  <2> QED
    BY <2>1, <2>2
<1>2. ASSUME BroadcastTask
      PROVE  \E ids \in SUBSET FreshIds :
               \E dicts \in [ids -> TaskDict] :
                  /\ Enqueue(dicts)
                  /\ \A u \in ids : dicts[u].agent \in Online \cup Offline \cup {None}
  <2>a. PICK ids \in SUBSET FreshIds :
            \E target \in [ids -> Alive \cup Offline] :
              Enqueue([t \in ids |->
                      [status |-> IF target[t] \in Alive THEN "assigned"
                                                         ELSE "queued",
                       agent |-> target[t]]])
    BY <1>2 DEF BroadcastTask
  <2>1. PICK target \in [ids -> Alive \cup Offline] :
            Enqueue([t \in ids |->
                      [status |-> IF target[t] \in Alive THEN "assigned"
                                                         ELSE "queued",
                       agent |-> target[t]]])
    BY <2>a
  <2> DEFINE dicts == [t \in ids |->
                         [status |-> IF target[t] \in Alive THEN "assigned"
                                                            ELSE "queued",
                          agent |-> target[t]]]
  <2>2. \A t \in ids : target[t] \in Online \cup Offline /\ target[t] \in Agents
    BY DEF Alive, Online, Offline
  <2>3. dicts \in [ids -> TaskDict] /\ \A u \in ids : dicts[u].agent = target[u]
    BY <2>2 DEF TaskDict
  <2>4. Enqueue(dicts)
    BY <2>1
  <2> HIDE DEF dicts
  <2> QED
    BY <2>2, <2>3, <2>4
<1>3. ASSUME NEW t \in Tasks, DispatchPipelineStep(t) PROVE FALSE
  BY <1>3 DEF DispatchPipelineStep
<1>4. QED
  BY <1>1, <1>2, <1>3 DEF Submission

(* Revocation takes an agent's commands and queued tasks, and without      *)
(* pipelines nothing is addressed to a revoked agent afterwards.           *)
RevokedInv == TypeOK /\ pipelineAgents = {} /\ RevokedHasNoWork

LEMMA RevokedStep ==
    ASSUME MaxPipelines = 0, RevokedInv, [Next]_vars
    PROVE  pipelineAgents' = {} /\ RevokedHasNoWork'
<1> USE DEF RevokedInv, TypeOK, RevokedHasNoWork
<1>1. ASSUME UNCHANGED <<task, pipelineAgents>>,
             queue' \subseteq queue,
             \A a \in Agents : pending'[a] \subseteq pending[a],
             \A a \in Agents : status'[a] = "revoked" => status[a] = "revoked"
      PROVE  pipelineAgents' = {} /\ RevokedHasNoWork'
  BY <1>1
<1>2. ASSUME NEW a \in Agents,
             \/ RegisterAgent(a) \/ Heartbeat(a) \/ HeartbeatAges(a)
             \/ MarkOffline(a) \/ PurgeAgent(a) \/ PollCommands(a)
             \/ \E got \in SUBSET pending[a] : PollCutShort(a, got)
             \/ \E keeps \in SUBSET outbox[a] : StopAgent(a, keeps)
             \/ \E t \in Tasks : \/ FinishTask(a, t) \/ TaskCompletion(a, t)
                                 \/ CompletionAnswerLost(a, t)
      PROVE  pipelineAgents' = {} /\ RevokedHasNoWork'
  <2>1. UNCHANGED <<task, pipelineAgents>> /\ queue' \subseteq queue
    BY <1>2 DEF RegisterAgent, Heartbeat, HeartbeatAges, MarkOffline, PurgeAgent,
                PollCommands, PollCutShort, PopCommands, StopAgent, FinishTask,
                TaskCompletion, CompletionAnswerLost, CompletionHandled,
                storeVars, queueVars
  <2>2. \A b \in Agents : pending'[b] \subseteq pending[b]
    BY <1>2 DEF RegisterAgent, Heartbeat, HeartbeatAges, MarkOffline, PurgeAgent,
                PollCommands, PollCutShort, PopCommands, StopAgent, FinishTask,
                TaskCompletion, CompletionAnswerLost, CompletionHandled,
                storeVars, queueVars
  <2>3. \A b \in Agents : status'[b] = "revoked" => status[b] = "revoked"
    <3>1. \/ UNCHANGED status
          \/ \E value \in {"online", "offline", None} :
                status' = [status EXCEPT ![a] = value]
      BY <1>2
         DEF RegisterAgent, Heartbeat, HeartbeatHandled, HeartbeatAges,
             MarkOffline, PurgeAgent, PollCommands, PollCutShort, PopCommands,
             StopAgent, FinishTask, TaskCompletion, CompletionAnswerLost,
             CompletionHandled, registryVars
    <3> QED
      BY <3>1, StatusAssumption DEF Status
  <2> QED
    BY <1>1, <2>1, <2>2, <2>3
<1>3. ASSUME NEW a \in Agents, RevokeAgent(a)
      PROVE  pipelineAgents' = {} /\ RevokedHasNoWork'
  BY <1>3 DEF RevokeAgent
<1>4. CASE Submission
  <2>1. PICK ids \in SUBSET FreshIds :
            \E dicts \in [ids -> TaskDict] :
               /\ Enqueue(dicts)
               /\ \A t \in ids : dicts[t].agent \in Online \cup Offline \cup {None}
    BY <1>4, SubmissionAddresses
  <2>2. PICK dicts \in [ids -> TaskDict] :
            /\ Enqueue(dicts)
            /\ \A t \in ids : dicts[t].agent \in Online \cup Offline \cup {None}
    BY <2>1
  <2>3. UNCHANGED <<status, pipelineAgents>>
    BY <1>4, SubmissionEnqueues DEF registryVars
  <2>4. DOMAIN dicts = ids /\ ids \subseteq Tasks
    BY DEF FreshIds
  <2>5. \A a \in Agents : status[a] = "revoked" =>
           \A t \in ids : dicts[t].agent # a
    BY <2>2, StoreAssumption DEF Online, Offline
  <2>6. \A t \in ids : task'[t] = dicts[t]
    BY <2>2, <2>4 DEF Enqueue
  <2>7. \A t \in queue \ ids : task'[t] = task[t]
    BY <2>2, <2>4 DEF Enqueue
  <2>8. /\ queue' = queue \cup ids
        /\ \A a \in Agents :
              pending'[a] = pending[a] \cup {t \in ids : dicts[t].agent = a}
    BY <2>2, <2>4 DEF Enqueue
  <2> QED
    BY <2>3, <2>5, <2>6, <2>7, <2>8
<1>5. CASE StartPipeline
  BY <1>5, CenterAssumption DEF StartPipeline
<1>6. CASE EndPipeline
  BY <1>6 DEF EndPipeline
<1>7. CASE ClearTasks
  BY <1>7 DEF ClearTasks, registryVars
<1>8. CASE Restart
  BY <1>8, StatusAssumption DEF Restart, Status
<1>9. CASE ExecuteStoreWrite \/ UNCHANGED vars
  <2>1. UNCHANGED <<task, queue, pending, status, pipelineAgents>>
    BY <1>9, StoreTyped
       DEF ExecuteStoreWrite, vars, storeVars, queueVars, registryVars
  <2> QED
    BY <2>1
<1>10. QED
  BY <1>2, <1>3, <1>4, <1>5, <1>6, <1>7, <1>8, <1>9 DEF Next, Submission

(* What a revoked agent was to do is dropped, and nothing is addressed to  *)
(* it again, if no pipeline holds agents it chose earlier.                 *)
THEOREM RevocationDropsWork ==
    ASSUME MaxPipelines = 0
    PROVE  Spec => []RevokedHasNoWork
<1>1. Init /\ TypeOK => RevokedInv
  BY DEF Init, RevokedInv, RevokedHasNoWork
<1>2. RevokedInv /\ TypeOK' /\ [Next]_vars => RevokedInv'
  BY RevokedStep DEF RevokedInv
<1>3. RevokedInv => RevokedHasNoWork
  BY DEF RevokedInv
<1> QED
  BY <1>1, <1>2, <1>3, TypeCorrect, PTL DEF Spec

(* An agent that was revoked, and not forgotten since, is known and has    *)
(* its mark.                                                               *)
RevokedStay == \A a \in banned : a \in revokedAt /\ Known(a)

LEMMA RevokedStayStep ==
    ASSUME TypeOK, RevokedStay, [Next]_vars
    PROVE  RevokedStay' /\ up' \cap banned \subseteq up
<1> USE DEF TypeOK, RevokedStay, Known
<1>1. ASSUME UNCHANGED <<banned, up>>,
             \A a \in banned : a \in revokedAt' /\ status'[a] # None
      PROVE  RevokedStay' /\ up' \cap banned \subseteq up
  BY <1>1
<1>2. \A a \in banned : ~IdentityValid(a) /\ Known(a)
  BY DEF IdentityValid
<1>3. ASSUME NEW a \in Agents, RegisterAgent(a)
      PROVE  RevokedStay' /\ up' \cap banned \subseteq up
  <2>1. a \notin banned
    BY <1>2, <1>3 DEF RegisterAgent
  <2> QED
    BY <1>3, <2>1 DEF RegisterAgent
<1>4. ASSUME NEW a \in Agents, Heartbeat(a)
      PROVE  RevokedStay' /\ up' \cap banned \subseteq up
  BY <1>1, <1>4, StatusAssumption
     DEF Heartbeat, HeartbeatHandled, agentVars, Status
<1>5. ASSUME NEW a \in Agents, NEW keeps \in SUBSET outbox[a],
             StopAgent(a, keeps)
      PROVE  RevokedStay' /\ up' \cap banned \subseteq up
  BY <1>5, StatusAssumption
     DEF StopAgent, HeartbeatHandled, registryVars, Status
<1>6. ASSUME NEW a \in Agents, MarkOffline(a) \/ PurgeAgent(a)
      PROVE  RevokedStay' /\ up' \cap banned \subseteq up
  BY <1>6, StatusAssumption DEF MarkOffline, PurgeAgent, agentVars, Status
<1>7. ASSUME NEW a \in Agents, RevokeAgent(a)
      PROVE  RevokedStay' /\ up' \cap banned \subseteq up
  BY <1>7, StatusAssumption DEF RevokeAgent, agentVars, Status
<1>8. ASSUME NEW a \in Agents,
             \/ HeartbeatAges(a) \/ PollCommands(a)
             \/ \E got \in SUBSET pending[a] : PollCutShort(a, got)
             \/ \E t \in Tasks : \/ FinishTask(a, t) \/ TaskCompletion(a, t)
                                 \/ CompletionAnswerLost(a, t)
      PROVE  RevokedStay' /\ up' \cap banned \subseteq up
  <2>1. UNCHANGED <<banned, revokedAt, status, up>>
    BY <1>8 DEF HeartbeatAges, PollCommands, PollCutShort, PopCommands,
                FinishTask, TaskCompletion, CompletionAnswerLost,
                CompletionHandled, registryVars, agentVars
  <2> QED
    BY <1>1, <2>1
<1>9. CASE Restart
  BY <1>9, StatusAssumption DEF Restart, LoadedAgents, agentVars, Status
<1>10. CASE \/ Submission \/ StartPipeline \/ EndPipeline \/ ClearTasks
            \/ ExecuteStoreWrite \/ UNCHANGED vars
  <2>1. UNCHANGED <<banned, revokedAt, status, up>>
    BY <1>10, SubmissionEnqueues
       DEF StartPipeline, EndPipeline, ClearTasks, ExecuteStoreWrite, vars,
           registryVars, agentVars
  <2> QED
    BY <1>1, <2>1
<1>11. QED
  BY <1>3, <1>4, <1>5, <1>6, <1>7, <1>8, <1>9, <1>10 DEF Next, Submission

(* Revocation lasts for as long as the center remembers it: whatever key   *)
(* the agent presents, over heartbeats, restarts and purges of others.     *)
THEOREM RevocationLastsUntilForgotten == Spec => RevokedStaysOut
<1>1. Init => RevokedStay
  BY DEF Init, RevokedStay
<1>2. TypeOK /\ RevokedStay /\ [Next]_vars
         => RevokedStay' /\ [up' \cap banned \subseteq up]_vars
  BY RevokedStayStep
<1> QED
  BY <1>1, <1>2, TypeCorrect, PTL DEF Spec, RevokedStaysOut

(* Making tasks leaves the agents and started writes alone.                *)
LEMMA SubmissionKeepsAgents ==
    ASSUME Submission
    PROVE  UNCHANGED <<agentRows, status>> /\ writes \subseteq writes'
  BY DEF Submission, SubmitTask, BroadcastTask, DispatchPipelineStep, Enqueue,
         StartWrites, registryVars

(* An agent the center knows has a row, or the write of one is under way.  *)
KnownHaveRows ==
    \A a \in Agents : Known(a) =>
        agentRows[a] # None \/ AgentWrite("upsert", a) \in writes

(* The threads of the store do not take an agent's row.                    *)
LEMMA StoreKeepsRows ==
    ASSUME TypeOK, KnownHaveRows, ExecuteStoreWrite
    PROVE  KnownHaveRows'
<1> USE DEF TypeOK, KnownHaveRows, Known
<1>1. UNCHANGED status
  BY DEF ExecuteStoreWrite, registryVars
<1>2. ASSUME NEW t \in Tasks,
             \/ SaveTaskQueue(t) \/ UpdateTaskQueue(t)
             \/ RemoveFromQueue(t) \/ SaveTaskHistory(t)
      PROVE  KnownHaveRows'
  BY <1>1, <1>2 DEF SaveTaskQueue, UpdateTaskQueue, RemoveFromQueue,
                    SaveTaskHistory, TaskWrite, AgentWrite
<1>3. ASSUME NEW a \in Agents, UpsertAgent(a)
      PROVE  KnownHaveRows'
  BY <1>1, <1>3, StatusAssumption DEF UpsertAgent, AgentWrite, Status
<1>4. ASSUME NEW a \in Agents, UpsertRevokedAgent(a)
      PROVE  KnownHaveRows'
  BY <1>1, <1>4, StatusAssumption DEF UpsertRevokedAgent, AgentWrite, Status
<1>5. ASSUME NEW a \in Agents, RemoveTasksForAgent(a)
      PROVE  KnownHaveRows'
  BY <1>1, <1>5 DEF RemoveTasksForAgent, AgentWrite
<1>6. CASE ClearTaskQueue
  BY <1>1, <1>6 DEF ClearTaskQueue, ClearWrite, AgentWrite
<1>7. QED
  BY <1>2, <1>3, <1>4, <1>5, <1>6 DEF ExecuteStoreWrite, ExecuteWrite

LEMMA KnownHaveRowsStep ==
    ASSUME TypeOK, KnownHaveRows, [Next]_vars
    PROVE  KnownHaveRows'
<1> USE DEF TypeOK, KnownHaveRows, Known
<1>1. ASSUME UNCHANGED agentRows, writes \subseteq writes',
             \A a \in Agents : status'[a] # None => status[a] # None
      PROVE  KnownHaveRows'
  BY <1>1
<1>2. ASSUME NEW a \in Agents, RegisterAgent(a)
      PROVE  KnownHaveRows'
  BY <1>2 DEF RegisterAgent, StartWrites
<1>3. ASSUME NEW a \in Agents,
             \/ Heartbeat(a) \/ HeartbeatAges(a) \/ MarkOffline(a)
             \/ PurgeAgent(a) \/ RevokeAgent(a) \/ PollCommands(a)
             \/ \E got \in SUBSET pending[a] : PollCutShort(a, got)
             \/ \E keeps \in SUBSET outbox[a] : StopAgent(a, keeps)
             \/ \E t \in Tasks : \/ FinishTask(a, t) \/ TaskCompletion(a, t)
                                 \/ CompletionAnswerLost(a, t)
      PROVE  KnownHaveRows'
  <2>1. UNCHANGED agentRows /\ writes \subseteq writes'
    BY <1>3 DEF Heartbeat, HeartbeatAges, MarkOffline, PurgeAgent, RevokeAgent,
                PollCommands, PollCutShort, PopCommands, StopAgent, FinishTask,
                TaskCompletion, CompletionAnswerLost, CompletionHandled,
                StartWrites, storeVars
  <2>2. \/ UNCHANGED status
        \/ \E value \in Status \cup {None} :
              /\ status' = [status EXCEPT ![a] = value]
              /\ status[a] # None \/ value = None
    BY <1>3, StatusAssumption
       DEF Heartbeat, HeartbeatHandled, Known, HeartbeatAges, MarkOffline,
           PurgeAgent, RevokeAgent, PollCommands, PollCutShort, PopCommands,
           StopAgent, FinishTask, TaskCompletion, CompletionAnswerLost,
           CompletionHandled, registryVars, Status
  <2>3. \A b \in Agents : status'[b] # None => status[b] # None
    BY <2>2
  <2> QED
    BY <1>1, <2>1, <2>3
<1>4. CASE Restart
  BY <1>4 DEF Restart, LoadState, LoadedAgents
<1>5. CASE ExecuteStoreWrite
  BY <1>5, StoreKeepsRows
<1>6. CASE \/ Submission \/ StartPipeline \/ EndPipeline \/ ClearTasks
           \/ UNCHANGED vars
  <2>1. UNCHANGED <<agentRows, status>> /\ writes \subseteq writes'
    BY <1>6, SubmissionKeepsAgents
       DEF StartPipeline, EndPipeline, ClearTasks, StartWrites, vars, storeVars,
           registryVars
  <2> QED
    BY <1>1, <2>1
<1>7. QED
  BY <1>2, <1>3, <1>4, <1>5, <1>6 DEF Next, Submission

(* A restart, its writes executed, forgets exactly the agents whose        *)
(* timestamps SQLite cannot parse: every agent the center knows has a row, *)
(* and a row is selected by its timestamp.                                 *)
THEOREM RestartsKeepParsableAgents == Spec => RestartKeepsParsable
<1>1. Init => KnownHaveRows
  BY DEF Init, KnownHaveRows, Known
<1>2. TypeOK /\ KnownHaveRows /\ [Next]_vars => KnownHaveRows'
  BY KnownHaveRowsStep
<1>3. ASSUME TypeOK, KnownHaveRows, [Next]_vars,
             restarts' > restarts, writes = {}, NEW a \in Agents, Known(a)
      PROVE  Known(a)' <=> a \in Parsable
  <2>1. Restart
    <3> SUFFICES ASSUME ~Restart PROVE restarts' = restarts
      BY <1>3 DEF TypeOK
    <3> QED
      BY <1>3, SubmissionEnqueues
         DEF Next, RegisterAgent, Heartbeat, HeartbeatAges, MarkOffline,
             PurgeAgent, RevokeAgent, PollCommands, PollCutShort, PopCommands,
             StopAgent, FinishTask, TaskCompletion, CompletionAnswerLost,
             CompletionHandled, Submission, StartPipeline, EndPipeline,
             ClearTasks, ExecuteStoreWrite, vars, boundVars
  <2>2. a \in LoadedAgents <=> a \in Parsable
    BY <1>3 DEF KnownHaveRows, LoadedAgents
  <2> QED
    BY <2>1, <2>2, StatusAssumption DEF Restart, Known, Status
<1>4. TypeOK /\ KnownHaveRows /\ [Next]_vars
         => [restarts' > restarts /\ writes = {} =>
                \A a \in Agents : Known(a) => (Known(a)' <=> a \in Parsable)]_vars
  BY <1>3
<1> QED
  BY <1>1, <1>2, <1>4, TypeCorrect, PTL DEF Spec, RestartKeepsParsable

-----------------------------------------------------------------------------
(* The center is a TaskDelivery                                            *)

(* A recorded result is the only one a restart can find.                   *)
HistoryIsRecorded ==
    \A t \in Tasks : t \in historyRows \/ TaskWrite("history", t) \in writes
                        => t \in history

(* Only a write of a result is one. *)
LEMMA HistoryWrites ==
    /\ \A t, u : /\ TaskWrite("history", t) = TaskWrite("history", u) => t = u
                 /\ \A kind \in {"save", "update", "remove"} :
                        TaskWrite(kind, t) # TaskWrite("history", u)
    /\ \A a, u : \A kind \in {"upsert", "revoke", "removeFor"} :
                        AgentWrite(kind, a) # TaskWrite("history", u)
    /\ \A u : ClearWrite # TaskWrite("history", u)
  BY DEF TaskWrite, AgentWrite, ClearWrite

(* A handler that makes tasks starts no such write. *)
LEMMA SubmissionWrites ==
    ASSUME TypeOK, Submission
    PROVE  /\ \A u \in Tasks : TaskWrite("history", u) \in writes'
                                    => TaskWrite("history", u) \in writes
           /\ UNCHANGED <<historyRows, history>>
<1>1. \A ids, u : TaskWrite("history", u) \notin Saves(ids)
  BY HistoryWrites DEF Saves
<1>2. UNCHANGED <<historyRows, history>>
  BY SubmissionEnqueues, Zenon DEF Enqueue
<1>3. CASE BroadcastTask
  <2>1. PICK ids \in SUBSET FreshIds : StartWrites(Saves(ids))
    BY <1>3, BroadcastEnqueues
  <2>2. QED
    BY <1>1, <1>2, <2>1 DEF StartWrites
<1>4. ASSUME NEW t \in Tasks, SubmitTask(t) \/ DispatchPipelineStep(t)
      PROVE  \E kinds : StartWrites(kinds)
                        /\ \A u : TaskWrite("history", u) \notin kinds
  <2>1. \A u : TaskWrite("history", u) \notin Saves({t}) \cup {TaskWrite("update", t)}
    BY <1>1, HistoryWrites
  <2>2. \/ StartWrites(Saves({t}))
        \/ StartWrites(Saves({t}) \cup {TaskWrite("update", t)})
    BY <1>4, Zenon DEF SubmitTask, DispatchPipelineStep
  <2>3. QED
    BY <1>1, <2>1, <2>2
<1>5. QED
  BY <1>2, <1>3, <1>4 DEF Submission, StartWrites

LEMMA HistoryStep ==
    ASSUME TypeOK, HistoryIsRecorded, [Next]_vars
    PROVE  HistoryIsRecorded'
<1>1. ASSUME UNCHANGED <<historyRows, history>>,
             \A u \in Tasks : TaskWrite("history", u) \in writes'
                                    => TaskWrite("history", u) \in writes
      PROVE  HistoryIsRecorded'
  BY <1>1 DEF HistoryIsRecorded
<1>2. ASSUME NEW a \in Agents,
             \/ RegisterAgent(a) \/ Heartbeat(a) \/ HeartbeatAges(a)
             \/ MarkOffline(a) \/ PurgeAgent(a) \/ RevokeAgent(a)
             \/ PollCommands(a)
             \/ \E got \in SUBSET pending[a] : PollCutShort(a, got)
             \/ \E keeps \in SUBSET outbox[a] : StopAgent(a, keeps)
             \/ \E t \in Tasks : FinishTask(a, t)
      PROVE  HistoryIsRecorded'
  <2>1. UNCHANGED <<historyRows, history>>
    BY <1>2, Zenon DEF RegisterAgent, Heartbeat, HeartbeatAges, MarkOffline, PurgeAgent,
                RevokeAgent, PollCommands, PollCutShort, PopCommands, StopAgent,
                FinishTask, storeVars, queueVars
  <2>2. \/ writes' = writes
        \/ writes' = writes \cup {AgentWrite("upsert", a)}
        \/ writes' = writes \cup {AgentWrite("revoke", a)}
    BY <1>2, Zenon DEF RegisterAgent, Heartbeat, HeartbeatAges, MarkOffline, PurgeAgent,
                RevokeAgent, PollCommands, PollCutShort, PopCommands, StopAgent,
                FinishTask, storeVars, StartWrites
  <2>3. QED
    BY <1>1, <2>1, <2>2, HistoryWrites
<1>3. CASE StartPipeline \/ EndPipeline \/ UNCHANGED vars
  <2>1. UNCHANGED <<historyRows, history, writes>>
    BY <1>3 DEF StartPipeline, EndPipeline, vars, storeVars, queueVars
  <2>2. QED
    BY <1>1, <2>1
<1>4. CASE ClearTasks
  <2>1. UNCHANGED <<historyRows, history>> /\ writes' = writes \cup {ClearWrite}
    BY <1>4 DEF ClearTasks, StartWrites
  <2>2. QED
    BY <1>1, <2>1, HistoryWrites
<1>5. CASE Submission
  BY <1>1, <1>5, SubmissionWrites
<1>6. CASE Restart
  BY <1>6 DEF Restart, LoadState, HistoryIsRecorded
<1>7. CASE ExecuteStoreWrite
  <2>1. history' = history
    BY <1>7 DEF ExecuteStoreWrite, queueVars
  <2>2. ASSUME NEW t \in Tasks, SaveTaskHistory(t)
        PROVE  HistoryIsRecorded'
    BY <2>1, <2>2 DEF SaveTaskHistory, HistoryIsRecorded
  <2>3. ASSUME NEW t \in Tasks,
               SaveTaskQueue(t) \/ UpdateTaskQueue(t) \/ RemoveFromQueue(t)
        PROVE  HistoryIsRecorded'
    BY <1>1, <2>1, <2>3 DEF SaveTaskQueue, UpdateTaskQueue, RemoveFromQueue
  <2>4. ASSUME NEW a \in Agents,
               UpsertAgent(a) \/ UpsertRevokedAgent(a) \/ RemoveTasksForAgent(a)
        PROVE  HistoryIsRecorded'
    BY <1>1, <2>1, <2>4, HistoryWrites
       DEF UpsertAgent, UpsertRevokedAgent, RemoveTasksForAgent
  <2>5. CASE ClearTaskQueue
    BY <1>1, <2>1, <2>5 DEF ClearTaskQueue
  <2>6. QED
    BY <1>7, <2>2, <2>3, <2>4, <2>5 DEF ExecuteStoreWrite, ExecuteWrite
<1>8. ASSUME NEW a \in Agents, NEW t \in Tasks,
             TaskCompletion(a, t) \/ CompletionAnswerLost(a, t)
      PROVE  HistoryIsRecorded'
  <2>1. /\ history' = history \cup {t} /\ historyRows' = historyRows
        /\ writes' = writes \cup {TaskWrite("history", t), TaskWrite("remove", t)}
    BY <1>8 DEF TaskCompletion, CompletionAnswerLost, CompletionHandled, StartWrites
  <2>2. \A u \in Tasks : u # t /\ TaskWrite("history", u) \in writes'
                            => TaskWrite("history", u) \in writes
    BY <2>1, HistoryWrites
  <2>3. t \in history' /\ history \subseteq history'
    BY <2>1 DEF TypeOK
  <2>4. QED
    BY <2>1, <2>2, <2>3 DEF HistoryIsRecorded
<1>9. QED
  BY <1>2, <1>3, <1>4, <1>5, <1>6, <1>7, <1>8 DEF Next, Submission

LEMMA HistoryHolds == Spec => []HistoryIsRecorded
<1>1. Init => HistoryIsRecorded
  BY DEF Init, StoreInit, HistoryIsRecorded
<1>2. QED
  BY <1>1, HistoryStep, TypeCorrect, PTL DEF Spec

(* What is queued is a task. *)
QueuedAreTasks == \A t \in queue : task[t] # None

(* A dict is never dropped, nor is what was loaded none. *)
LEMMA RestartRestores ==
    ASSUME DispatchInv, Restart
    PROVE  /\ \A t \in Tasks : task'[t] = None <=> task[t] = None
           /\ \A t \in LoadedTasks : task[t] # None
           /\ \A t \in Tasks \ LoadedTasks : task'[t] = task[t]
           /\ \A t \in LoadedTasks : QueuedForAgent(t) => task'[t] = task[t]
           /\ \A t \in LoadedTasks :
                 ~QueuedForAgent(t) => /\ task'[t].agent = None
                                       /\ ~QueuedForAgent(t)'
<1> USE DEF DispatchInv
<1>1. \A t \in Tasks :
          task'[t] = IF rows[t] = None THEN task[t] ELSE Restored(rows[t])
  BY DEF Restart, LoadState
<1>2. \A t \in LoadedTasks : rows[t] \in TaskDict /\ rows[t] # None
  BY DEF LoadedTasks, TypeOK
<1>3. \A r \in TaskDict : Restored(r) \in TaskDict
  BY DEF Restored, TaskDict
<1>4. \A t \in LoadedTasks :
          /\ task[t] \in {rows[t], Restored(rows[t])}
          /\ task[t] \in TaskDict /\ task[t] # None
          /\ task'[t] = Restored(rows[t]) /\ task'[t] # None
  BY <1>1, <1>2, <1>3, NoneAssumption DEF RowIsCurrent, LoadedTasks
<1>5. \A t \in Tasks \ LoadedTasks : task'[t] = task[t]
  BY <1>1 DEF LoadedTasks
<1>6. ASSUME NEW t \in LoadedTasks
      PROVE  /\ QueuedForAgent(t) => task'[t] = task[t]
             /\ ~QueuedForAgent(t) => /\ task'[t].agent = None
                                      /\ ~QueuedForAgent(t)'
  BY <1>2, <1>4 DEF Restored, QueuedForAgent, TaskDict
<1>7. QED
  BY <1>4, <1>5, <1>6 DEF LoadedTasks

LEMMA QueuedStep ==
    ASSUME DispatchInv, QueuedAreTasks, [Next]_vars
    PROVE  QueuedAreTasks'
<1> USE DEF DispatchInv
<1>1. ASSUME task' = task, queue' \subseteq queue
      PROVE  QueuedAreTasks'
  BY <1>1 DEF QueuedAreTasks
<1>2. ASSUME NEW a \in Agents,
             \/ RegisterAgent(a) \/ Heartbeat(a) \/ HeartbeatAges(a)
             \/ MarkOffline(a) \/ PurgeAgent(a) \/ RevokeAgent(a)
             \/ PollCommands(a)
             \/ \E got \in SUBSET pending[a] : PollCutShort(a, got)
             \/ \E keeps \in SUBSET outbox[a] : StopAgent(a, keeps)
             \/ \E t \in Tasks : \/ FinishTask(a, t) \/ TaskCompletion(a, t)
                                 \/ CompletionAnswerLost(a, t)
      PROVE  QueuedAreTasks'
  <2>1. task' = task
    BY <1>2, Zenon
       DEF RegisterAgent, Heartbeat, HeartbeatAges, MarkOffline, PurgeAgent,
           RevokeAgent, PollCommands, PollCutShort, PopCommands, StopAgent,
           FinishTask, TaskCompletion, CompletionAnswerLost, CompletionHandled,
           storeVars
  <2>2. \/ queue' = queue
        \/ queue' = {t \in queue : task[t].agent # a}
        \/ \E t \in Tasks : queue' = queue \ {t}
    BY <1>2, Zenon
       DEF RegisterAgent, Heartbeat, HeartbeatAges, MarkOffline, PurgeAgent,
           RevokeAgent, PollCommands, PollCutShort, PopCommands, StopAgent,
           FinishTask, TaskCompletion, CompletionAnswerLost, CompletionHandled,
           queueVars
  <2>3. QED
    BY <1>1, <2>1, <2>2
<1>3. CASE \/ StartPipeline \/ EndPipeline \/ ClearTasks \/ UNCHANGED vars
  <2>1. task' = task /\ queue' \subseteq queue
    BY <1>3 DEF StartPipeline, EndPipeline, ClearTasks, vars, storeVars, queueVars
  <2>2. QED
    BY <1>1, <2>1
<1>4. CASE Submission
  <2>1. PICK ids \in SUBSET FreshIds : \E dicts \in [ids -> TaskDict] : Enqueue(dicts)
    BY <1>4, SubmissionEnqueues
  <2>2. PICK dicts \in [ids -> TaskDict] : Enqueue(dicts)
    BY <2>1
  <2>3. \A t \in ids : dicts[t] \in TaskDict /\ dicts[t] # None
    BY <2>2, NoneAssumption
  <2>4. QED
    BY <2>2, <2>3 DEF Enqueue, QueuedAreTasks, TypeOK, FreshIds
<1>5. CASE Restart
  <2>1. queue' = LoadedTasks
    BY <1>5 DEF Restart
  <2>2. QED
    BY <1>5, <2>1, RestartRestores DEF QueuedAreTasks, LoadedTasks
<1>6. CASE ExecuteStoreWrite
  BY <1>1, <1>6, StoreTyped DEF ExecuteStoreWrite, queueVars
<1>7. QED
  BY <1>2, <1>3, <1>4, <1>5, <1>6 DEF Next, Submission

LEMMA QueuedHolds == Spec => []QueuedAreTasks
<1>1. Init => QueuedAreTasks
  BY DEF Init, QueuedAreTasks
<1>2. QED
  BY <1>1, QueuedStep, DispatchIsSound, PTL DEF Spec

(* What the mapping hides: agents, writes, rows and pipelines. *)
LEMMA QuietStep ==
    ASSUME UNCHANGED <<task, queue, pending, delivered, history, restarts>>,
           \A a \in Agents :
               running'[a] \cup outbox'[a] = running[a] \cup outbox[a]
    PROVE  UNCHANGED Delivery!deliveryVars
  BY DEF Delivery!deliveryVars, Submitted, FreshIds, Owner, Retained,
         QueuedForAgent, Taken

(* _submit_task, _broadcast_task and _dispatch_pipeline_step. *)
LEMMA SubmissionSubmits ==
    ASSUME DispatchInv, Submission
    PROVE  Delivery!DeliveryNext
<1> USE DEF DispatchInv
<1>1. PICK ids \in SUBSET FreshIds : \E dicts \in [ids -> TaskDict] : Enqueue(dicts)
  BY SubmissionEnqueues
<1>2. PICK dicts \in [ids -> TaskDict] : Enqueue(dicts)
  BY <1>1
<1>3. UNCHANGED <<running, outbox, delivered, restarts, history>>
  BY <1>2, SubmissionEnqueues DEF agentVars, boundVars, Enqueue
<1> DEFINE target == [t \in ids |-> dicts[t].agent]
           away == {t \in ids : dicts[t].status = "queued" /\ target[t] # None}
<1>4. /\ ids \subseteq Tasks /\ \A t \in ids : task[t] = None
      /\ \A t \in ids : dicts[t] \in TaskDict /\ dicts[t] # None
      /\ \A t \in ids : task'[t] = dicts[t]
      /\ \A t \in Tasks \ ids : task'[t] = task[t]
      /\ queue' = queue \cup ids
      /\ \A a \in Agents :
            pending'[a] = pending[a] \cup {t \in ids : target[t] = a}
  BY <1>2, NoneAssumption DEF Enqueue, FreshIds
<1>5. /\ target \in [ids -> Agents \cup {None}]
      /\ away \in SUBSET ids
      /\ \A t \in away : target[t] # None
  BY <1>4 DEF TaskDict
<1>6. ids \cap Submitted = {} /\ Submitted' = Submitted \cup ids
  BY <1>4 DEF Submitted, FreshIds
<1>7. Owner' = [t \in Tasks |-> IF t \in ids THEN target[t] ELSE Owner[t]]
  BY <1>4 DEF Owner
<1>8. Retained' = Retained \cup away
  BY <1>4 DEF Retained, QueuedForAgent
<1>9. pending' = [a \in Agents |-> pending[a] \cup {t \in ids : target[t] = a}]
  BY <1>2, <1>4 DEF Enqueue
<1>10. Taken' = Taken /\ history' = history
  BY <1>3 DEF Taken
<1> HIDE DEF target, away
<1>11. Delivery!Submit(ids, target, away)
  BY <1>3, <1>4, <1>5, <1>6, <1>7, <1>8, <1>9, <1>10 DEF Delivery!Submit
<1>12. QED
  BY <1>4, <1>5, <1>11 DEF Delivery!DeliveryNext

(* _get_pending_commands, whether or not its answer arrives. *)
LEMMA PollTakes ==
    ASSUME DispatchInv, NEW a \in Agents, NEW got \in SUBSET pending[a],
           PopCommands(a), ReceiveCommands(a, got)
    PROVE  Delivery!DeliveryNext
<1> USE DEF DispatchInv
<1>1. /\ UNCHANGED <<task, queue, history, outbox, restarts>>
      /\ pending' = [pending EXCEPT ![a] = {}]
      /\ running' = [running EXCEPT ![a] = @ \cup got]
  BY DEF PopCommands, ReceiveCommands, storeVars
<1>2. Taken' = [Taken EXCEPT ![a] = @ \cup got]
  BY <1>1 DEF Taken, TypeOK
<1>3. UNCHANGED <<Submitted, Owner, Retained, history>>
  BY <1>1 DEF Submitted, FreshIds, Owner, Retained, QueuedForAgent
<1>4. Delivery!Take(a, got)
  BY <1>1, <1>2, <1>3 DEF Delivery!Take, ReceiveCommands
<1>5. QED
  BY <1>4 DEF Delivery!DeliveryNext

(* _task_completion, whether or not its answer arrives. *)
LEMMA CompletionReports ==
    ASSUME DispatchInv, NEW a \in Agents, NEW t \in Tasks,
           TaskCompletion(a, t) \/ CompletionAnswerLost(a, t)
    PROVE  Delivery!DeliveryNext
<1> USE DEF DispatchInv
<1>1. /\ UNCHANGED <<task, pending, running, delivered, restarts>>
      /\ queue' = queue \ {t} /\ t \in outbox[a]
      /\ history' = history \cup {t}
      /\ outbox' \in {outbox, [outbox EXCEPT ![a] = @ \ {t}]}
  BY DEF TaskCompletion, CompletionAnswerLost, CompletionHandled
<1>2. history' = history \cup {t}
  BY <1>1
<1>3. Taken' \in {Taken, [Taken EXCEPT ![a] = @ \ {t}]}
  <2>1. CASE outbox' = outbox
    BY <1>1, <2>1 DEF Taken
  <2>2. CASE outbox' = [outbox EXCEPT ![a] = @ \ {t}] /\ t \in running[a]
    <3>1. \A b \in Agents :
              running'[b] \cup outbox'[b] = running[b] \cup outbox[b]
      BY <1>1, <2>2 DEF TypeOK
    <3>2. QED
      BY <3>1 DEF Taken
  <2>3. CASE outbox' = [outbox EXCEPT ![a] = @ \ {t}] /\ t \notin running[a]
    <3>1. \A b \in Agents : running'[b] \cup outbox'[b] =
              IF b = a THEN (running[b] \cup outbox[b]) \ {t}
                       ELSE running[b] \cup outbox[b]
      BY <1>1, <2>3 DEF TypeOK
    <3>2. QED
      BY <3>1 DEF Taken
  <2>4. QED
    BY <1>1, <2>1, <2>2, <2>3
<1>4. UNCHANGED <<Submitted, Owner, Retained>>
  BY <1>1 DEF Submitted, FreshIds, Owner, Retained, QueuedForAgent
<1>5. t \in Taken[a]
  BY <1>1 DEF Taken
<1>6. Delivery!Report(a, t)
  BY <1>1, <1>2, <1>3, <1>4, <1>5 DEF Delivery!Report
<1>7. QED
  BY <1>5, <1>6 DEF Delivery!DeliveryNext

(* An agent stops. *)
LEMMA StopLoses ==
    ASSUME DispatchInv, NEW a \in Agents, NEW keeps \in SUBSET outbox[a],
           StopAgent(a, keeps)
    PROVE  Delivery!DeliveryNext
<1> USE DEF DispatchInv
<1> DEFINE dropped == Taken[a] \ keeps
<1>1. /\ UNCHANGED <<task, queue, pending, history, delivered, restarts>>
      /\ running' = [running EXCEPT ![a] = {}]
      /\ outbox' = [outbox EXCEPT ![a] = keeps]
  BY DEF StopAgent, storeVars, queueVars
<1>2. Taken' = [Taken EXCEPT ![a] = @ \ dropped]
  BY <1>1 DEF Taken, TypeOK
<1>3. UNCHANGED <<Submitted, Owner, Retained, history>>
  BY <1>1 DEF Submitted, FreshIds, Owner, Retained, QueuedForAgent
<1>4. dropped \in SUBSET Taken[a]
  OBVIOUS
<1> HIDE DEF dropped
<1>5. Delivery!Lose(a, dropped)
  BY <1>1, <1>2, <1>3 DEF Delivery!Lose
<1>6. QED
  BY <1>4, <1>5 DEF Delivery!DeliveryNext

(* _cleanup_loop forgets an agent, _revoke_agent bans one. *)
LEMMA AgentIsDismissed ==
    ASSUME DispatchInv, QueuedAreTasks, NEW a \in Agents,
           PurgeAgent(a) \/ RevokeAgent(a)
    PROVE  Delivery!DeliveryNext
<1> USE DEF DispatchInv
<1>1. /\ UNCHANGED <<task, history, running, outbox, delivered, restarts>>
      /\ pending' = [pending EXCEPT ![a] = {}]
      /\ queue' \in {queue, {t \in queue : task[t].agent # a}}
  BY DEF PurgeAgent, RevokeAgent, storeVars, agentVars, boundVars
<1>2. {t \in queue : task[t].agent # a} = {t \in queue : Owner[t] # a}
  BY DEF Owner, QueuedAreTasks, TypeOK
<1>3. UNCHANGED <<Submitted, Owner, Retained, history, Taken>>
  BY <1>1 DEF Submitted, FreshIds, Owner, Retained, QueuedForAgent,
              Taken
<1>4. Delivery!Dismiss(a)
  BY <1>1, <1>2, <1>3 DEF Delivery!Dismiss
<1>5. QED
  BY <1>4 DEF Delivery!DeliveryNext

LEMMA ClearingClears ==
    ASSUME ClearTasks
    PROVE  Delivery!DeliveryNext
<1>1. /\ UNCHANGED <<task, history, running, outbox, delivered, restarts>>
      /\ pending' = [a \in Agents |-> pending[a] \ queue]
      /\ queue' = {}
  BY DEF ClearTasks, agentVars
<1>2. UNCHANGED <<Submitted, Owner, Retained, history, Taken>>
  BY <1>1 DEF Submitted, FreshIds, Owner, Retained, QueuedForAgent,
              Taken
<1>3. QED
  BY <1>1, <1>2 DEF Delivery!Clear, Delivery!DeliveryNext

(* _load_state_from_db: what a crash loses and brings back. *)
LEMMA RestartIsCrash ==
    ASSUME DispatchInv, HistoryIsRecorded, Restart
    PROVE  Delivery!DeliveryNext
<1> USE DEF DispatchInv
<1>1. /\ restarts' = restarts + 1 /\ queue' = LoadedTasks
      /\ UNCHANGED <<running, outbox, delivered>>
      /\ pending' = [a \in Agents |-> RebuiltCommands(a)]
      /\ history' = historyRows
  BY DEF Restart, agentVars
<1>2. /\ \A t \in Tasks : task'[t] = None <=> task[t] = None
      /\ LoadedTasks \subseteq Tasks
      /\ \A t \in LoadedTasks : task[t] # None
      /\ \A t \in Tasks \ LoadedTasks : task'[t] = task[t]
      /\ \A t \in LoadedTasks : QueuedForAgent(t) => task'[t] = task[t]
      /\ \A t \in LoadedTasks :
            ~QueuedForAgent(t) => /\ task'[t].agent = None
                                  /\ ~QueuedForAgent(t)'
  BY RestartRestores DEF LoadedTasks
<1>3. LoadedTasks \subseteq Submitted /\ Submitted' = Submitted
  BY <1>2 DEF Submitted, FreshIds
<1>4. Retained' = Retained
  BY <1>2 DEF Retained, QueuedForAgent
<1>5. Owner' = [t \in Tasks |-> IF t \in LoadedTasks \ Retained THEN None
                                                               ELSE Owner[t]]
  BY <1>2 DEF Owner, Retained
<1>6. ASSUME NEW a \in Agents
      PROVE  RebuiltCommands(a) = {t \in LoadedTasks \cap Retained : Owner[t] = a}
  <2>1. a # None
    BY StoreAssumption
  <2>2. ASSUME NEW t \in LoadedTasks
        PROVE  (task'[t].status = "queued" /\ task'[t].agent = a)
                  <=> (t \in Retained /\ Owner[t] = a)
    <3>1. CASE QueuedForAgent(t)
      BY <1>2, <3>1 DEF QueuedForAgent, Retained, Owner
    <3>2. CASE ~QueuedForAgent(t)
      BY <1>2, <2>1, <3>2 DEF Retained
    <3>3. QED
      BY <3>1, <3>2
  <2>3. QED
    BY <2>2 DEF RebuiltCommands
<1>7. pending' = [a \in Agents |-> {t \in LoadedTasks \cap Retained : Owner[t] = a}]
  BY <1>1, <1>6
<1>8. history' \subseteq history
  BY <1>1 DEF HistoryIsRecorded, TypeOK
<1>9. Taken' = Taken
  BY <1>1 DEF Taken
<1>10. Delivery!Crash(LoadedTasks)
  BY <1>1, <1>3, <1>4, <1>5, <1>7, <1>8, <1>9 DEF Delivery!Crash
<1>11. QED
  BY <1>3, <1>10 DEF Delivery!DeliveryNext

(* The center with its store and its agents implements TaskDelivery: every *)
(* step of it submits, hands out, records, loses, dismisses, clears or     *)
(* crashes as that module allows, or changes nothing it speaks of.         *)
THEOREM CenterIsDelivery == Spec => ImplementsDelivery
<1>1. Init => Delivery!DeliveryInit
  BY DEF Init, StoreInit, Delivery!DeliveryInit, Submitted, FreshIds, Owner,
         Retained, QueuedForAgent, Taken
<1>2. DispatchInv /\ HistoryIsRecorded /\ QueuedAreTasks /\ [Next]_vars
         => [Delivery!DeliveryNext]_(Delivery!deliveryVars)
  <2> DEFINE Goal == Delivery!DeliveryNext \/ UNCHANGED Delivery!deliveryVars
  <2> SUFFICES ASSUME DispatchInv, HistoryIsRecorded, QueuedAreTasks, [Next]_vars
               PROVE  Goal
    OBVIOUS
  <2>1. ASSUME NEW a \in Agents,
               \/ RegisterAgent(a) \/ Heartbeat(a) \/ HeartbeatAges(a)
               \/ MarkOffline(a)
        PROVE  Goal
    <3>1. UNCHANGED <<task, queue, pending, running, outbox, delivered, history,
                      restarts>>
      BY <2>1, Zenon DEF RegisterAgent, Heartbeat, HeartbeatAges, MarkOffline,
                  storeVars, queueVars, agentVars, boundVars
    <3>2. QED
      BY <3>1, QuietStep
  <2>2. CASE StartPipeline \/ EndPipeline \/ UNCHANGED vars
    <3>1. UNCHANGED <<task, queue, pending, running, outbox, delivered, history,
                      restarts>>
      BY <2>2 DEF StartPipeline, EndPipeline, vars, storeVars, queueVars,
                  agentVars, boundVars
    <3>2. QED
      BY <3>1, QuietStep
  <2>3. CASE ExecuteStoreWrite
    <3>1. UNCHANGED <<task, queue, pending, running, outbox, delivered, history,
                      restarts>>
      BY <2>3, StoreTyped DEF ExecuteStoreWrite, DispatchInv, queueVars,
                              agentVars, boundVars
    <3>2. QED
      BY <3>1, QuietStep
  <2>4. ASSUME NEW a \in Agents, NEW t \in Tasks, FinishTask(a, t)
        PROVE  Goal
    <3>1. UNCHANGED <<task, queue, pending, delivered, history, restarts>>
      BY <2>4 DEF FinishTask, storeVars, queueVars, boundVars
    <3>2. \A b \in Agents :
              running'[b] \cup outbox'[b] = running[b] \cup outbox[b]
      BY <2>4 DEF FinishTask, DispatchInv, TypeOK
    <3>3. QED
      BY <3>1, <3>2, QuietStep
  <2>5. ASSUME NEW a \in Agents, NEW got \in SUBSET pending[a],
               PollCommands(a) \/ PollCutShort(a, got)
        PROVE  Goal
    BY <2>5, PollTakes DEF PollCommands, PollCutShort
  <2>6. QED
    BY <2>1, <2>2, <2>3, <2>4, <2>5, SubmissionSubmits, CompletionReports,
       StopLoses, AgentIsDismissed, ClearingClears, RestartIsCrash
       DEF Next, Submission
<1>3. QED
  BY <1>1, <1>2, DispatchIsSound, HistoryHolds, QueuedHolds, PTL
     DEF Spec, ImplementsDelivery, Delivery!DeliverySpec

-----------------------------------------------------------------------------
(* What any TaskDelivery comes to, and the center with it                  *)

LEMMA DeliveryStep ==
    ASSUME Delivery!DeliveryInv,
           Delivery!DeliveryNext \/ UNCHANGED Delivery!deliveryVars
    PROVE  Delivery!DeliveryInv'
<1> USE DEF Delivery!DeliveryInv
<1> DEFINE Goal == Delivery!DeliveryInv'
<1>1. ASSUME NEW ids \in SUBSET Tasks,
             NEW target \in [ids -> Agents \cup {None}],
             NEW away \in SUBSET ids,
             Delivery!Submit(ids, target, away)
      PROVE  Goal
  <2> USE <1>1 DEF Delivery!Submit, Delivery!DeliveryTypeOK
  <2>1. Delivery!DeliveryTypeOK'
    OBVIOUS
  <2>2. Delivery!OffersAreOwned' /\ Delivery!TakenFromOwner'
    BY StoreAssumption DEF Delivery!OffersAreOwned, Delivery!TakenFromOwner
  <2>3. Delivery!OffersAreLeft'
    BY DEF Delivery!OffersAreLeft, Delivery!NothingTakenUnsubmitted
  <2>4. Delivery!NothingTakenUnsubmitted' /\ Delivery!TakenOnce'
    BY DEF Delivery!TakenOnce, Delivery!NothingTakenUnsubmitted
  <2>5. Delivery!Exclusive'
    BY StoreAssumption
       DEF Delivery!Exclusive, Delivery!OffersAreOwned, Delivery!TakenFromOwner
  <2>6. QED
    BY <2>1, <2>2, <2>3, <2>4, <2>5
<1>2. ASSUME NEW a \in Agents, NEW got \in SUBSET pending[a],
             Delivery!Take(a, got)
      PROVE  Goal
  <2> USE <1>2 DEF Delivery!Take, Delivery!DeliveryTypeOK
  <2>1. Delivery!DeliveryTypeOK'
    OBVIOUS
  <2>2. Delivery!OffersAreOwned' /\ Delivery!TakenFromOwner'
    BY DEF Delivery!OffersAreOwned, Delivery!TakenFromOwner
  <2>3. Delivery!OffersAreLeft'
    BY DEF Delivery!OffersAreLeft, Delivery!OffersAreOwned
  <2>4. Delivery!NothingTakenUnsubmitted' /\ Delivery!TakenOnce'
    BY DEF Delivery!TakenOnce, Delivery!NothingTakenUnsubmitted,
           Delivery!OffersAreLeft
  <2>5. Delivery!Exclusive'
    BY StoreAssumption
       DEF Delivery!Exclusive, Delivery!OffersAreOwned, Delivery!TakenFromOwner
  <2>6. QED
    BY <2>1, <2>2, <2>3, <2>4, <2>5
<1>3. ASSUME UNCHANGED <<Submitted, Retained, Owner, delivered, restarts>>,
             Delivery!DeliveryTypeOK',
             \A a \in Agents : pending'[a] \subseteq pending[a],
             \A a \in Agents : Taken'[a] \subseteq Taken[a]
      PROVE  Goal
  BY <1>3 DEF Delivery!OffersAreOwned, Delivery!TakenFromOwner,
              Delivery!Exclusive, Delivery!OffersAreLeft, Delivery!NothingTakenUnsubmitted,
              Delivery!TakenOnce
<1>4. ASSUME NEW a \in Agents, NEW t \in Taken[a], Delivery!Report(a, t)
      PROVE  Goal
  <2>1. Delivery!DeliveryTypeOK'
        /\ \A b \in Agents : Taken'[b] \subseteq Taken[b]
    BY <1>4 DEF Delivery!Report, Delivery!DeliveryTypeOK
  <2>2. QED
    BY <1>3, <1>4, <2>1 DEF Delivery!Report
<1>5. ASSUME NEW a \in Agents, NEW dropped \in SUBSET Taken[a],
             Delivery!Lose(a, dropped)
      PROVE  Goal
  <2>1. Delivery!DeliveryTypeOK'
        /\ \A b \in Agents : Taken'[b] \subseteq Taken[b]
    BY <1>5 DEF Delivery!Lose, Delivery!DeliveryTypeOK
  <2>2. QED
    BY <1>3, <1>5, <2>1 DEF Delivery!Lose
<1>6. ASSUME NEW a \in Agents, Delivery!Dismiss(a)
      PROVE  Goal
  <2>1. Delivery!DeliveryTypeOK'
        /\ \A b \in Agents : pending'[b] \subseteq pending[b]
    BY <1>6 DEF Delivery!Dismiss, Delivery!DeliveryTypeOK
  <2>2. QED
    BY <1>3, <1>6, <2>1 DEF Delivery!Dismiss
<1>7. CASE Delivery!Clear
  <2>1. Delivery!DeliveryTypeOK'
        /\ \A b \in Agents : pending'[b] \subseteq pending[b]
    BY <1>7 DEF Delivery!Clear, Delivery!DeliveryTypeOK
  <2>2. QED
    BY <1>3, <1>7, <2>1 DEF Delivery!Clear
<1>8. ASSUME NEW back \in SUBSET Submitted, Delivery!Crash(back)
      PROVE  Goal
  <2> USE <1>8 DEF Delivery!Crash, Delivery!DeliveryTypeOK
  <2>1. Delivery!DeliveryTypeOK'
    OBVIOUS
  <2>2. Delivery!OffersAreOwned' /\ Delivery!TakenFromOwner'
    BY DEF Delivery!OffersAreOwned, Delivery!TakenFromOwner
  <2>3. Delivery!OffersAreLeft' /\ Delivery!TakenOnce'
    BY DEF Delivery!OffersAreLeft, Delivery!TakenOnce
  <2>4. Delivery!NothingTakenUnsubmitted'
    BY DEF Delivery!NothingTakenUnsubmitted
  <2>5. Delivery!Exclusive'
    BY StoreAssumption
       DEF Delivery!Exclusive, Delivery!OffersAreOwned, Delivery!TakenFromOwner
  <2>6. QED
    BY <2>1, <2>2, <2>3, <2>4, <2>5
<1>9. CASE UNCHANGED Delivery!deliveryVars
  BY <1>3, <1>9 DEF Delivery!deliveryVars, Delivery!DeliveryTypeOK
<1>10. QED
  BY <1>1, <1>2, <1>4, <1>5, <1>6, <1>7, <1>8, <1>9 DEF Delivery!DeliveryNext

LEMMA DeliveryHolds == ImplementsDelivery => []Delivery!DeliveryInv
<1>1. Delivery!DeliveryInit => Delivery!DeliveryInv
  BY DEF Delivery!DeliveryInit, Delivery!DeliveryInv, Delivery!DeliveryTypeOK,
         Delivery!OffersAreOwned, Delivery!TakenFromOwner,
         Delivery!Exclusive, Delivery!OffersAreLeft,
         Delivery!NothingTakenUnsubmitted, Delivery!TakenOnce
<1>2. QED
  BY <1>1, DeliveryStep, PTL DEF ImplementsDelivery, Delivery!DeliverySpec

(* What TaskDelivery says of the center is enough, by itself, for a task   *)
(* to be one agent's, and taken once but for crashes.                      *)
THEOREM DeliveryIsExclusive ==
    ImplementsDelivery => [](Delivery!Exclusive /\ Delivery!TakenOnce)
<1>1. Delivery!DeliveryInv => Delivery!Exclusive /\ Delivery!TakenOnce
  BY DEF Delivery!DeliveryInv
<1>2. QED
  BY <1>1, DeliveryHolds, PTL

=============================================================================

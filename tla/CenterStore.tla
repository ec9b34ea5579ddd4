----------------------------- MODULE CenterStore -----------------------------
(***************************************************************************)
(* The SQLite store of the center node (systems/db.py) and its use.        *)
(*                                                                         *)
(* Memory is the source of truth; every mutation starts a fire-and-forget  *)
(* write (asyncio.create_task, then asyncio.to_thread), so writes that     *)
(* were started are executed later, by any thread, in any order, each of   *)
(* them atomically.  save_task_queue and update_task_queue take the task   *)
(* dict by reference and serialise it when the thread runs, not when the   *)
(* write is started: the variable task holds the dicts, and a write names  *)
(* the dict.  The store is read only when the center starts.               *)
(*                                                                         *)
(* Abstractions.  A task dict is its status and its agent.  The status and *)
(* assigned_agent columns are left out: load_state resets 'assigned' to    *)
(* 'queued' and selects every row, and returns the JSON record.  Of an     *)
(* agent's row only the presence of revoked_at is kept: load_state's       *)
(* caller overrides the status a heartbeat patches into it.                *)
(***************************************************************************)
EXTENDS Naturals, FiniteSets

CONSTANTS
    Agents,         \* agent ids
    Tasks,          \* task ids
    Parsable,       \* agents whose timestamps SQLite and Python can parse
    None            \* Python's None, and the absence of a row or a dict

ASSUME StoreAssumption ==
    /\ Parsable \subseteq Agents
    /\ None \notin Agents
    /\ None \notin Tasks

VARIABLES
    task,           \* the task dicts; None when the id was never used
    rows,           \* task_queue.record_json, None when there is no row
    agentRows,      \* agents table: None, "active" or "revoked"
    historyRows,    \* ids in the task_history table
    writes          \* writes started and not yet executed

storeVars == <<task, rows, agentRows, historyRows, writes>>

TaskDict == [status : {"queued", "assigned"}, agent : Agents \cup {None}]

ASSUME NoneAssumption == None \notin TaskDict

(* A write, with the task or the agent it is about. *)
TaskWrite(kind, t) == [kind |-> kind, about |-> t]
AgentWrite(kind, a) == [kind |-> kind, about |-> a]
ClearWrite == [kind |-> "clear", about |-> None]

TaskWrites == [kind : {"save", "update", "remove", "history"}, about : Tasks]
AgentWrites == [kind : {"upsert", "revoke", "removeFor"}, about : Agents]
Writes == TaskWrites \cup AgentWrites \cup {ClearWrite}

StoreInit ==
    /\ task = [t \in Tasks |-> None]
    /\ rows = [t \in Tasks |-> None]
    /\ agentRows = [a \in Agents |-> None]
    /\ historyRows = {}
    /\ writes = {}

-----------------------------------------------------------------------------
(* The writes, as their threads execute them. *)

(* Faulty: INSERT OR REPLACE of the dict as it was when it was submitted. *)
SaveTaskQueueAsSubmitted(t) ==
    /\ TaskWrite("save", t) \in writes
    /\ rows' = [rows EXCEPT ![t] = [status |-> "queued", agent |-> None]]
    /\ writes' = writes \ {TaskWrite("save", t)}
    /\ UNCHANGED <<task, agentRows, historyRows>>

(* INSERT OR REPLACE of the dict as it is now. *)
SaveTaskQueue(t) ==
    /\ TaskWrite("save", t) \in writes
    /\ rows' = [rows EXCEPT ![t] = task[t]]
    /\ writes' = writes \ {TaskWrite("save", t)}
    /\ UNCHANGED <<task, agentRows, historyRows>>

(* UPDATE ... WHERE id: no effect without a row. *)
UpdateTaskQueue(t) ==
    /\ TaskWrite("update", t) \in writes
    /\ rows' = [rows EXCEPT ![t] = IF @ = None THEN None ELSE task[t]]
    /\ writes' = writes \ {TaskWrite("update", t)}
    /\ UNCHANGED <<task, agentRows, historyRows>>

RemoveFromQueue(t) ==
    /\ TaskWrite("remove", t) \in writes
    /\ rows' = [rows EXCEPT ![t] = None]
    /\ writes' = writes \ {TaskWrite("remove", t)}
    /\ UNCHANGED <<task, agentRows, historyRows>>

SaveTaskHistory(t) ==
    /\ TaskWrite("history", t) \in writes
    /\ historyRows' = historyRows \cup {t}
    /\ writes' = writes \ {TaskWrite("history", t)}
    /\ UNCHANGED <<task, rows, agentRows>>

ClearTaskQueue ==
    /\ ClearWrite \in writes
    /\ rows' = [t \in Tasks |-> None]
    /\ writes' = writes \ {ClearWrite}
    /\ UNCHANGED <<task, agentRows, historyRows>>

UpsertAgent(a) ==
    /\ AgentWrite("upsert", a) \in writes
    /\ agentRows' = [agentRows EXCEPT ![a] = "active"]
    /\ writes' = writes \ {AgentWrite("upsert", a)}
    /\ UNCHANGED <<task, rows, historyRows>>

(* The upsert _revoke_agent awaits; it then awaits remove_tasks_for_agent. *)
UpsertRevokedAgent(a) ==
    /\ AgentWrite("revoke", a) \in writes
    /\ agentRows' = [agentRows EXCEPT ![a] = "revoked"]
    /\ writes' = (writes \ {AgentWrite("revoke", a)})
                    \cup {AgentWrite("removeFor", a)}
    /\ UNCHANGED <<task, rows, historyRows>>

(* The rows whose record_json names the agent. *)
RemoveTasksForAgent(a) ==
    /\ AgentWrite("removeFor", a) \in writes
    /\ rows' = [t \in Tasks |->
                  IF rows[t] # None /\ rows[t].agent = a THEN None ELSE rows[t]]
    /\ writes' = writes \ {AgentWrite("removeFor", a)}
    /\ UNCHANGED <<task, agentRows, historyRows>>

ExecuteWrite ==
    \/ \E t \in Tasks : \/ SaveTaskQueue(t) \/ UpdateTaskQueue(t)
                        \/ RemoveFromQueue(t) \/ SaveTaskHistory(t)
    \/ \E a \in Agents : \/ UpsertAgent(a) \/ UpsertRevokedAgent(a)
                         \/ RemoveTasksForAgent(a)
    \/ ClearTaskQueue

-----------------------------------------------------------------------------
(* load_state, after a crash or a stop dropped the writes not executed. *)

(* Faulty: work is queued again for the agent that had it. *)
RestoredForAgent(record) ==
    IF record # None /\ record.status = "assigned"
    THEN [status |-> "queued", agent |-> record.agent]
    ELSE record

(* A record as it is returned: assigned work is queued again, for nobody. *)
Restored(record) ==
    IF record # None /\ record.status = "assigned"
    THEN [status |-> "queued", agent |-> None]
    ELSE record

LoadedTasks == {t \in Tasks : rows[t] # None}

(* Faulty: a revoked agent is not loaded. *)
ActiveAgents == {a \in Parsable : agentRows[a] = "active"}

(* WHERE datetime(last_heartbeat) > ...: a timestamp SQLite cannot parse   *)
(* is NULL and selects nothing.                                            *)
LoadedAgents == {a \in Parsable : agentRows[a] # None}

(* The dicts of the process that starts.  The rows are left as they are;   *)
(* an id with no row keeps its last value, which nothing refers to.        *)
LoadState ==
    /\ task' = [t \in Tasks |->
                  IF rows[t] = None THEN task[t] ELSE Restored(rows[t])]
    /\ writes' = {}
    /\ UNCHANGED <<rows, agentRows, historyRows>>

=============================================================================

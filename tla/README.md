# Verification of vimin-core

vimin-core runs AI tasks on a fleet of machines. A **center node** keeps the
fleet and the task queue and answers HTTP requests; **agents** register with
it, send heartbeats, poll it for commands, execute tasks on local models and
report the results. This directory holds TLA+ modules of the parts of the
program where several actors meet, the TLC runs that check them on small
instances, and TLAPS proofs of theorems about them for every instance.

All line references are to `src/vimin_core/` unless a path says otherwise.

## 1. Inventory of the system

| Component | State | Operations | What is hard, and what makes it correct |
|---|---|---|---|
| Result path of the agent, `systems/user_agent.py` 385-430, 1105-1206 | `_connected`, the offline buffer file, the lists of a flush | report, buffer, heartbeat, flush | Reports, heartbeats and flushes interleave at every POST. A POST may arrive and its answer be lost; the process may die. No result may be lost or processed twice without a cause. |
| Dispatch by the center, `systems/center_node.py` | `agents`, `task_queue`, `_pending_commands`, `_task_results`, `task_history`, the agents of a pipeline | register, heartbeat, cleanup, revoke, submit, broadcast, pipeline steps, clear, poll, completion, restart | Agents, operators and the cleanup loop act in any order; commands are handed out by a poll that may be lost; the center crashes and rebuilds memory from its store. A task must go to one agent, and nothing revoked, cleared or completed may still be handed out. |
| Store of the center, `systems/db.py` | tables `task_queue`, `agents`, `task_history` | seven kinds of write, `load_state` | Writes are fire-and-forget threads: they are executed in any order, and a crash drops the ones not executed. |
| Task execution on the agent, `systems/user_agent.py` 465-690, 770-1040, `core/orchestrator.py`, `core/local_worker.py`, `core/backends/` | the local worker, its backend's model, `_loaded_model_id`, `_model_ready`, `_inference_lock` | set_model, run_task, load, wait for a model, inference | Loads run in threads, overlap and fail; only inference takes the lock. Every task must be reported, and the model must be there for those who rely on it. |
| Broadcast and pipeline requests, `center_node.py` 643-1040 | the waiting request, its deadline | relay, wait, answer, next step | The deadline races the completion; the answer is computed after the wait; a dashboard that does not read holds up what comes before the deadline. |
| Registration and secrets, `center_node.py` 239-464, 565-592, 1449-1474, `core/security.py`, `user_agent.py` 119, 243-300, 342-383, `cli/config.py` | secret hashes in memory and store, the agent's copy in memory and in its configuration file, the local variables of the cleanup pass | register, validate, issue, heartbeat, goodbye, revoke, mark offline, purge | The answer that carries the only copy of a secret may be lost; agents of one machine share the file; the cleanup pass awaits between what it reads and what it purges. A lockout must end, a revocation must last. |
| Rate limiter, `center_node.py` `_check_rate_limit` | timestamps per client | check | A sliding window at its limit. |
| Dashboards, `center_node.py` 1179-1198, 1367-1402, `user_agent.py` 899-936, 1068-1103 | the list of WebSockets, the loops over it | connect, leave, relay an update, stream an answer | The loop awaits each send while others change the list; a dashboard that does not read holds it up. A dashboard should miss nothing, and nothing the agent does should wait for ever. |
| Router and local worker, `core/router.py`, `core/local_worker.py`, `core/orchestrator.py`, `core/backends/selector.py` | active and standby session, type, labels and tokenizer of the model, generative backend, log | load, swap, warm up, promote, decide, execute, fail over | Thresholds in a fixed order; what survives a swap to a model of another kind; what is left unmasked of a PII text; failures one after the other. |
| Daemons, `cli/main.py` 87-361, 667-687 | pid files, the port | start, stop | A pid file names a process that may be gone, not there yet, or another program; commands overlap and are cut off. |
| Commands and configuration, `cli/main.py` 34-56, 201-840, `cli/config.py` | `config.json`, the output file | load, mint, save, append | Files are read and written whole, without a lock, by every process of a home directory. Keys, pins, secrets and answers must not be lost. |
| Inference log, caches, telemetry | bounded histories | record, read | Rings at their limit; reads of the machine. |
| Presets, logging | - | - | Data and output. |

How they interact: an agent calls the center over HTTP (register, heartbeat,
poll, completion, partial results), the center never calls an agent. Inside
the center every handler runs on one event loop, starts its writes with
`asyncio.create_task` and returns. Inside the agent three loops and one
coroutine per command share the event loop, and threads do the requests, the
loads and the inference.

`PROJECT.json` lists the components with what is and is not modelled, and the
hazards, each at its line with the properties that would catch it.

## 2. Modules

| Module | Models | Lines of code it stands for |
|---|---|---|
| `ResultChannel` | abstract: an at-least-once channel that may lose what it holds | - |
| `OfflineBuffer` | the agent's result path; implements `ResultChannel` | `user_agent.py` 121-127, 385-430, 1105-1206 |
| `Reports_proofs` | proofs about `OfflineBuffer` and `Dashboards` | |
| `TaskDelivery` | abstract: tasks that are offered to agents, taken, reported, withdrawn, and kept or lost in a crash | - |
| `CenterStore` | the SQLite store, its pending writes, `load_state` | `db.py` |
| `CenterNode` | dispatch by the center and what agents do with commands; EXTENDS `CenterStore`, implements `TaskDelivery` | `center_node.py`, `user_agent.py` 398-552 |
| `CenterNode_proofs` | proofs about it | |
| `AgentExecution` | loads and inference on the agent | `user_agent.py` 465-683, 781-1037, `orchestrator.py`, `local_worker.py`, `router.py` 329-440, `backends/` load |
| `AgentExecution_proofs` | proofs about it | |
| `TaskRequests` | broadcast and pipeline requests that wait for results | `center_node.py` 643-1088, 1120-1173 |
| `TaskRequests_proofs` | proofs about it | |
| `FleetRegistry` | registration, secrets, silence and revocation of agents | `center_node.py` 239-464, 565-592, 1449-1523, `user_agent.py` 160-300, 342-420, `cli/config.py` 54-69 |
| `FleetRegistry_proofs` | proofs about it | |
| `Routing` | the routing rules, backend selection and quantization, as operators | `router.py` 24-112, 244-327, `selector.py` 31-213, the memory checks of the backends |
| `Redaction` | the entity spans of a PII text, as recursive functions | `local_worker.py` 291-363 |
| `LocalWorker` | models, standby and execution of one worker under the router; EXTENDS `Routing` and `Redaction` | `local_worker.py`, `router.py` 244-441, `orchestrator.py` 123-214, `inference_log.py` |
| `LocalWorker_proofs` | proofs about it and about the rules | |
| `Daemons` | start and stop commands, pid files and the processes they name | `cli/main.py` 87-361, 667-687 |
| `Daemons_proofs` | proofs about it | |
| `CommandLine` | the processes that share `config.json` and an output file | `cli/main.py` 34-56, 201-840, `cli/config.py`, `user_agent.py` 157-243, 343-386 |
| `CommandLine_proofs` | proofs about it | |
| `Dashboards` | the relay of updates to dashboards and the agent that streams | `center_node.py` 1179-1198, 1367-1402, `user_agent.py` 899-936, 1068-1103 |
| `MC*` | constants and symmetry sets for TLC | |

Definitions whose comment starts with "Faulty:" are no part of the
specification. Each is a variant of the definition after it, with a mistake
one could make in that code, and each checked property is violated when the
variant takes the definition's place (`mutants` in `PROJECT.json`).

### OfflineBuffer

State: `connected` is `UserAgent._connected`, `file` the offline buffer,
`reports` the records whose POST is awaited by `_report_task_completion`,
`todo` and `failed` the local lists of each flush, `received` how often the
center processed a record. `produced`, `unacked`, `clobbered` and `crashed`
are history variables. A coroutine is cut at its awaits: `FlushReads` is the
code up to the first one (read and unlink), each entry is one
`FlushPosts`/`FlushPostRaises`, and the last one rewrites the file in the same
step, as the code does without an await in between. A POST succeeds, fails, or
arrives and loses its answer. `CrashAndRestart` keeps the file only, and may
leave half a line in it (`torn`), with which no flush gets beyond reading
(`user_agent.py:1178`).

### CenterStore and CenterNode

State: `status`, `revokedAt`, `queue`, `pending`, `results`, `history` are the
dictionaries of `CenterNode`; `task` holds the task dicts, which writes refer
to until they are executed; `rows`, `agentRows`, `historyRows` are the tables
and `writes` the writes started and not executed. `age` is the class of the
age of the last heartbeat (90 s, 2 min and 10 min are the thresholds in the
code). `up`, `running` and `outbox` are the agents' side. `banned` is a history
variable: the agents that were revoked and whose revocation has been forgotten
neither by a purge nor by a restart that does not find it in a row. A handler reaches
its first await after its last change of this state, so it is one action.

The constants name what differs between installations: `Parsable` is the set
of agents whose timestamps the center and SQLite can parse, and `MasterKeyed`
the set of agents that present the master key, which skips the identity check
of heartbeats and polls; `start-agent` presents it where it is in the
configuration (`main.py:289`). No agent of this repository sends a timestamp
that can be parsed (`user_agent.py:276`, 352, 406): agents of other programs, or of
a release that sends another format, are what `Parsable` may hold. `dispatch`
has an agent in it and one that is not, `fleet` an agent with the master key, `ghost`
one without either.

`TaskDelivery` says what the center promises about tasks without registrations,
heartbeats, writes and rows. `CenterNode` implements it under the mapping
`Delivery`: `Submitted`, `Owner` and `Retained` (queued for an agent that was
away) are read from the task dicts, `waiting` is the queue, `offered` the pending
commands, `Taken` what an agent runs or has not reported, `history` the
set of tasks with an entry in it. A restart is a `Crash`: which tasks come back
depends on the writes that happened to be executed, so any submitted task may, but
only those that were retained are offered again, and to nobody but their owner.

### AgentExecution

State: `worker` is the orchestrator's local worker, `llm` and `active` the
model in each worker's backend and whether the backend has been published;
`loadedModel` and `ready` are what the agent believes; `lock` is the inference
lock with its waiters; `target` is the worker that a thread is using. A load
is cut into the check for a model, the check for a worker, its creation (only
where ONNX Runtime, an optional extra, is missing), the load proper, the
publication and the return to the event loop. Both installations, with ONNX
Runtime and without, are initial states.

### TaskRequests

State: `phase`, `alive` (the list of agents a pipeline chose), `awaited`,
`expired` and `answer` are the local variables of a request's coroutine; `queue`, `commands`, `results` and
`history` are the center's `task_queue`, `_pending_commands`, `_task_results`
and `task_history`, of the tasks of these requests; `presence` is what the
center's liveness tests say of an agent; `running` is what agents have received
and not reported. `completed` is a history variable. `stalled` says that a dashboard
has stopped to read for good: from then on no relay of an update returns, neither that of
a broadcast (`center_node.py:729`) nor that which ends the handling of a
completion. A coroutine is cut where it awaits: `BroadcastTask` is the code up to
the relay of its update, `RelayReturns` sets the deadline or answers at once
(`wait=false`), `StartPipeline` is the code up to the first look at the results,
`BroadcastAnswered` the code from the last look to the
answer, `PipelineGoesOn` the code from the last look at one step to the first
look at the next. Between them anything may happen that changes what the
request reads: completions, deadlines, lost polls, `clear-tasks`, revocations.
`Group` says which of the atomic steps of a pipeline are one parallel group. The
code goes through a group with one await after the other (`center_node.py:965-982`), and
so does the model; `AgentOfStep` is its choice of an agent by `sub_idx`.

`Prefix` maps an agent to the eight characters of its id that enter a task id.
It is a constant because the code does not make them different; what depends
on it (`OutputIsOwn`, `AnswerNamesAgent`) is checked and proved for agents whose
prefixes differ. The module keeps its own, smaller copy of the queue, because
its properties are about results and answers, which `CenterNode` does not look
at, and not about the store and the restart, which it does not have.

### FleetRegistry

State: `entry` is `CenterNode.agents`; `rows` the agents table; `mem` and
`conf` the secret in an agent's process and in the configuration file of its
machine. `pass`, `scan`, `condemned` and `replaced` are where the cleanup loop
is: it goes through a copy of the dictionary, so that an agent that has
registered again since is looked at through its old entry, which `replaced`
keeps. The loop is cut where it awaits: `MarkOffline` runs from one await to
the next, over the agents in between that need no message, and `PurgeAgent` is
one purge. An agent's process is down, waits for the answer to its registration
or is up; it ends when it is refused. `touched` and `excused` are history
variables: which entries changed since the pass began, and which agents never
received their secret or had it overwritten. `overdue` says that the last
heartbeat is older than the limit of the entry's status.

It repeats registration, heartbeats, revocation and the purge of `CenterNode`,
which treats identities as valid until revoked, and leaves the tasks and the
order of the writes to it.

### Routing, Redaction and LocalWorker

`Routing` has the rules in the order of the code, over readings of the machine
whose fields are classes of values around each threshold; `Decide` is the
decision with the warm-up and the swap. `Redaction` has the loop that joins
entity tokens to spans: `Spans` walks the tokens as the code does, `Kept` is
what is left of the text, and `WellPlaced` what a tokenizer promises about the
offsets of its tokens. The constant `Texts` holds the texts a run looks at.
`LocalWorker` has the worker's attributes
(`session`, `shadow`, `modelType`, `tokenizer`, `provider`, `dummies`,
`backend`) and the router's call: `Route` decides and may load or promote the
standby, `ExecuteTask` runs and fails over, `Return` ends the call. Between the
decision and the run (`HotSwap`, `LoadLlm` and `UnloadLlm` do not ask whether a call is
under way) another thread may load or unload a model, which the lock
on inference does not forbid; within a run it may in the code, and that is left to
`AgentExecution`. What an answer says is abstracted to how it was
made (`how`: raw, masked by labels, by a guess, ...).

### Daemons

State: `cmd` is where each command is, `daemon` the processes it and others
spawned, `pidFile` the files, `port` who listens, `told` the agents whose stop
event is set, `strangers` pids that went to another program. A command is cut
between what it reads, spawns, opens, writes, signals and unlinks; processes
die, the machine reboots, a user interrupts a command. An agent that boots and
has no handler yet dies of the signal (`Hit`); one that has, exits at the end
of its start (`Started`, `StopEvent`). `Calm` says that no command is about a
daemon and that no two ever overlapped.

### CommandLine

State: `file` is `config.json`, `output` an output file, `keys` what a process
has loaded of the first, `draft` the copy it is about to write, `secret` the
agent's, `known` the center's entries. `Opens` and `Fills` are the two halves
of every write, between which the file is empty (`NoConfig`, `Torn`). A first
`start-center` writes twice, the keys it mints (`config.py:87`) and its URL
(`main.py:224`), and so does an agent that mints its keys and its id (`SavesAgain`). An
agent that is refused, finds no center or loses the answer ends
(`user_agent.py:243-249`). The
history variable `mishaps` names the races the code allows: `first` (two first
starts), `torn` (a read during a write), `stale` (an older copy written),
`cut` (a process ended while it wrote), `orphan` (a secret issued and not
saved), `twin` (two agents of one home). Each property says which of them it
takes to break it, and each of those is needed: without it TLC finds a
violation.

### Dashboards

State: `link` is what a dashboard does, `clients` the list, `relay` the
position of each `_broadcast_update` in it, `awaits` the sources that wait for
an answer, `got` what was sent to whom. A relay is cut where it waits for a
stuck dashboard, and between sends. A dashboard may be stuck for ever.

## 3. Runs

| Run | Instance | What it shows |
|---|---|---|
| `buffer` | 3 results, 2 flushes, 4 faults, 1 crash | `SingleHolder`, `NoSpuriousDuplicate`, `OnlyKnownLosses`; `ImplementsChannel`; `BufferDrainsAfterReconnect` |
| `dispatch` | 2 agents, one of them with timestamps that parse, 1 task, 1 fault, 1 restart, 1 pipeline | `NoDoubleDispatch`, `RowIsCurrent`, `RestartKeepsParsable`; `ImplementsDelivery` |
| `fleet` | 1 agent with the master key, 1 task, 3 faults, 1 restart, 1 clear | `CommandsAreQueued`, `RevokedHasNoWork`, `RevokedStaysOut`; `DispatchedTaskCompletes`, `DeadAgentGoesOffline` |
| `loading` | 2 tasks, 2 set_model, 2 models, 2 failures | `FailureHasCause`, `SettledModelStays`; `EveryTaskAnswered` |
| `requests` | 1 request of either kind, 2 agents, a parallel group of 2 steps and a step after it, a history of 1, 1 fault, 1 clear, a dashboard that stops to read | `OutputIsOwn`, `StepsInOrder`, `NoResultDenied`; `RequestAnswered` |
| `registry` | 2 agents of one machine, room for 1, one with the master key, 5 secrets, 1 fault | `SecretsAgree`, `PurgedWasStale`, `RevocationLasts`; `LockoutEnds` |
| `worker` | 4 ONNX files of 4 kinds, 1 language model, 2 providers, 1 swap, a log of 1, readings on both sides of each threshold | `FailureHasCause`, `PiiLeakHasCause`, `BetterMachineKeepsWork`, `EntityAnswersAreMasked` |
| `daemons` | 3 commands, a center and an agent, 2 processes | `CenterIsNamed`, `LostAgentHasCause`, `StrangersAreSpared`; `ToldAgentExits` |
| `commandline` | 5 processes, 3 mixes of centers, agents and commands, 2 mishaps | `KeysAgree`, `AgentIsRemembered`, `ShutOutHasCause`, `OutputIsKept` |
| `dashboards` | 2 dashboards, a stream of 2 chunks | `SkippedHasCause`, `ShownInOrder`; `StreamEnds` |
| `buffer_overwrite`, `ghost` | the smallest that shows it | one statement of a docstring or a comment each that the code does not keep; see section 6 |

Type invariants (`TypeOK` of each module) are proved where the module has
proofs, and were checked with the runs while the modules were written.

Bounds, and why they are enough. `MaxFaults`, `MaxCrashes`, `MaxRestarts`,
`MaxClears`, `MaxPipelines` and `MaxFailures` bound how often the environment
or an operator acts; each action that uses one also occurs after it is used
up in every order with the others. Three results and two flushes let one
flush post while another reads and a report appends; four faults let an
outage, a lost answer and two failed posts happen in one run. Two agents and
one task are what a double dispatch and the order of a task's writes need; one
agent's timestamps parse and the other's do not, so that a restart keeps one and
forgets the other; a broadcast over two agents is in `requests`, and `DispatchInv` and
`RowIsCurrent` are proved for any number of tasks. Three faults are three
heartbeats that do not arrive, which is what it takes to purge an agent that is
up; the master key and a restart are the two ways for a revoked agent to be let
back in. Two agents on one
machine are what an overwritten secret, a full fleet and a pass that awaits
between two agents need; with five secrets, and not with four, a registration
never wants for a fresh one; one fault is a lost answer or a restart.
Two tasks and two set_model commands give three overlapping loads, a task that
waits behind another one for the lock, and a task that names no model. One request
that may become a broadcast or a pipeline over two agents has up to three tasks; a
group of two and a step after it go round both agents and back to the first one;
a history of one (500 in the code) drops a record while its task is still asked for; requests do not share
ids, so a second one would only add tasks to the queue and the history. Four
files are one of each kind that `load_model` tells apart, with one quantized
variant, so that a swap crosses kinds and a standby outlives the model it was
made for; readings take one value on each side of every threshold. Three
commands let a stop run between a start's spawn and its write while another
start looks; two processes are an old daemon and its successor. Five processes
and two mishaps let a torn read follow an older copy. Two dashboards are one that
leaves and one that is skipped; two chunks are what an overlap and an order need.
Processes with equal plans are symmetric in `commandline`, tasks in `dispatch` (a set
of one there), and results and flushes in `buffer_overwrite`; these runs check safety only. The systems may stop for good (a bound is used up, everything is done), so
deadlock is not checked.

## 4. Fairness

* `OfflineBuffer`: the event loop runs coroutines that can run and a request
  ends (timeouts are set on all of them); the heartbeat loop comes round; an
  outage of the network ends. Nothing forces results to be produced, nor a
  request to succeed: `BufferDrainsAfterReconnect` speaks of the time when the
  faults are used up.
* `CenterNode`: writes that were started are executed; an agent that is up
  heartbeats, polls, finishes what it runs and reports it; the cleanup loop
  comes round; the clock goes on for an agent that is not up. Nobody is bound
  to start an agent, to submit, to revoke or to clear.
* `AgentExecution`: threads end and the event loop runs what can run, per
  command; `asyncio.Lock` is first come, first served, which is why `lock` is
  a sequence. Commands need not arrive.
* `TaskRequests`: the relay of a broadcast's update returns as long as no dashboard
  has stopped to read; a request looks at the results every 250 ms and its clock
  goes on; an agent reports what it has received. No agent is made to poll, to stay
  up or to come back: once its deadline is set, a request is answered because that passes. It
  is set after the relay, and a send to a dashboard has no timeout, so
  `RequestAnswered` leaves out the broadcast that waits for a dashboard which never
  reads again (`stalled`); nothing makes one read.

* `FleetRegistry`: a registration is answered or fails; the cleanup loop comes
  round; the clock goes on. The clock is strongly fair, because it stands still
  during a cleanup pass, which takes no time, and goes on between two passes,
  30 s apart. Nobody is made to start an agent, and no agent is made to send
  heartbeats: `LockoutEnds` is about an agent that is started again and again,
  by its user or by a supervisor.

* `Daemons`: a command goes on to its end unless it is cut off, as every wait in it
  has a limit; a process that has been told to stop goes on to the end of its start
  and exits. Nothing is said of a process that does not get a signal.
* `Dashboards`: the loops go on, a session's request is answered or times out
  (aiohttp's default of 300 s), and the handler of a lost dashboard notices.
  Nothing makes a dashboard read: the center sends no pings and sets no
  timeout.
* `LocalWorker` and `CommandLine` have safety properties only.

All of it is weak fairness but for that clock.

## 5. Proofs

All theorems hold for every value of the constants that the named assumptions
(`BufferAssumption`, `StoreAssumption`, `NoneAssumption`, `CenterAssumption`,
`StatusAssumption`, `ExecutionAssumption`, `RequestAssumption`,
`RegistryAssumption`, `CommandLineAssumption`, `DaemonAssumption`,
`DashboardsAssumption` and those of `Routing` and `LocalWorker`) allow: any number of results, flushes, agents,
tasks, models, readings, requests, steps, faults, crashes and restarts.

* `Reports_proofs`, on `OfflineBuffer`. `ResultInv` is inductive. Its parts need each other:
  that a record is in one place (`SingleHolder`) bounds its duplicates
  (`NoSpuriousDuplicate`) only with `Accounted`, which says that a record still
  held has been processed by unacknowledged POSTs only; and only a flush that
  is posting holds anything, or a second flush could start over its lists.
  `ResultPathIsChannel` then maps every step to a step of `ResultChannel` or a
  stutter.
* `Reports_proofs`, on `Dashboards`. `ShownInv` is inductive, for any number of
  dashboards, sources and chunks. The list has everybody who is connected, once
  (`Listed`); of a source that has not given up only the last update can be under
  way (`InTurn`); who has been sent an update is behind the loop over the list
  (`SentBehind`), and who has not is ahead of it, unless a removal has moved them
  (`UnsentAhead`). The list and every loop over it change together when a
  dashboard is removed, which is the work of `RemovalKeeps`. `UpdatesInOrder`,
  `ListRelayed` and, for the step that ends a relay, `SkipsExplained` follow.
* `CenterNode_proofs`. `DispatchInv` is inductive: commands are addressed
  (`WorkIsAddressed`), an id that was never used was never sent
  (`FreshNotDelivered`), and a command that waits has not been received but for
  those a restart rebuilt (`PendingNotStarted`). `RowIsCurrent` ties the store to
  the dicts, whatever the order of the writes, and is what carries all of it
  across `Restart`. `NeverDispatchedTwice`, `DeliveriesAreBounded`,
  `WaitingCommandsAreQueued` and `RowsFollowTasks` follow from it.
  `CenterIsDelivery` maps the initial states and every step to `TaskDelivery`. It
  needs `DispatchInv`; that a restart finds results in the store only which had
  been recorded, since a write is started after the entry is made
  (`HistoryIsRecorded`); and that all that is queued is a task
  (`QueuedAreTasks`). `DeliveryIsExclusive` shows that the abstract
  specification is not empty: it gives, by itself, `NoDoubleDispatch` and
  `DeliveredOnce` in its own words (`Exclusive`, `TakenOnce`).
  `RevocationDropsWork` has a hypothesis, no pipelines, which address agents chosen
  before the revocation. `RevocationLastsUntilForgotten` has none: it holds with the
  master key and over restarts, because an agent that is out (`banned`) is known and
  keeps its `revoked_at` (`RevokedStay`), which every registration looks at, whatever
  a heartbeat under the master key does to its status. `RestartsKeepParsableAgents` has none either, for any set
  `Parsable`, and rests on `KnownHaveRows`: a known agent has a row, or its upsert
  is under way.
* `AgentExecution_proofs`. `ExecutionInv` adds `PhasesMean` (whoever infers holds
  the lock; only a command that names a model loads) and `Undisturbed`: as long as
  nothing failed and no worker was displaced, every load works on the current
  worker and whoever relies on a model has one. `ReadyIsReady`,
  `NoUncausedFailure` and `SettledModelIsKept` follow.
* `TaskRequests_proofs`. `RequestInv` is inductive. A dict is queued, awaited or
  run only after its request was sent (`SentEarlier`), a request waits for its own
  dicts (`AwaitedOwn`), and a dict that completed has a result and no dict with
  its id is queued (`CompletedIsDone`). The latter is why `clear-tasks`, which
  removes the results of queued tasks, takes none that has arrived, and so what
  `NeverDenied` rests on. `OutputsAreOwn` and `AnswersNameTheirAgent` have
  `DistinctPrefixes` as a hypothesis. `StepInv` says where a pipeline is: it awaits
  one task (`OneAwaited`), a task of it that is still queued is that one or of a
  step that timed out (`StepsTold`), nothing that is queued has a result
  (`ResultsMean`), so that a step told with an output has left the queue, and a task of a
  step exists only when every step before it has been told (`StepsReached`). `EarlierStepsAreOver` puts these together, and
  `StepsAreInOrder` follows.
* `FleetRegistry_proofs`. `RegistryInv` is inductive. That a file has the secret
  of the entry (`SecretsAgree`) would be lost with a restart, which makes entries
  from rows, even of agents forgotten long ago: so the rows agree with the entries
  (`RowsAgree`) and the files with the rows (`RowSecretsAgree`). What a cleanup
  pass has condemned is stale as long as nobody touched it (`CondemnedAreStale`),
  and it sees old entries of touched agents only (`ReplacedAreTouched`).
  `PurgesAreOfStaleAgents` and `RevocationsLast` are about steps and follow from
  these: nothing but a purge or a restart makes the center forget an agent
  (`KnownStays`).

* `LocalWorker_proofs`. `RulesAreMonotone` is about the rules alone: the order of
  the seven thresholds sends no work away from a machine that is better in every
  respect. `WorkerInv` is inductive: a call that waits between decision and run
  has the reason for its target (`TargetHasReason`), a session has a file and a
  type that was detected from it unless a swap intervened, and nothing is loaded
  before the worker is built (`NothingBeforeBuilt`). `FailuresHaveCauses`,
  `PiiLeaksHaveCauses`, `RecordsNameModels` and `BetterMachinesKeepWork` follow.
  `RedactionIsExact` is about the loop over the tokens, for texts of any length:
  where the places of the tokens rise (`WellPlaced`, which is what the tokenizer is
  relied on for), what is left of the text is exactly what is not sensitive. The
  spans from a token on start at it or later, are in order, and hold exactly what
  is sensitive from there on (`SpansFit`), by induction from the last token.
  `EntitiesAreMasked` follows.
* `CommandLine_proofs`. `ConfigInv` is inductive, for any number of processes and
  mishaps. Without the mishaps a property names, one process writes at a time
  and the file is empty meanwhile (`OneWriter`), so that what will be in the file is
  what the writer holds: its keys are everybody's (`WriterHasKeys`), because keys are
  minted while nobody has any (`MintedFirst`); it has the pins and secrets of all
  agents (`WriterRemembers`), because a copy that is not older than the file
  covers it (`DraftsCover`); and a secret the center has given is in the file, with
  the writer, or with the agent that was given it (`SecretsLast`). `KeysAgree`,
  `AgentIsRemembered` and `ShutOutHasCause` follow. `OutputInv` is the same argument
  for the file of results, and gives `OutputIsKept`.
* `Daemons_proofs`. `DaemonInv` is inductive, for any number of commands, processes
  and agents, as long as one undisturbed command at a time is about a daemon
  (`OneCommand`). `NamedMeanwhile` says for every place a command can be at which
  running daemons its file need not name: none but those it is to name or has
  signalled, so that all is well again when the command ends, which gives
  `CentersAreNamed` and `LostAgentsHaveCauses`. `HitsAreFollowed` says that the pid of
  a process a signal has reached is in a file only until the command that sent it
  removes the file, and in the hands of no other command. That a process ended
  and no signal was the reason is noted (`HitsHaveKill`), and so
  `StrangersAreSafe`: the pid of a daemon that a stop command ended leads no
  later one to another program.

Two of the functions proved about are recursive, over the positions of a list and of
a text. Theorems that take an operator as a parameter, the induction theorems
among them, are of no use to the provers, so the induction is done with the
least counterexample instead: `WFMin` and `NatLessThanWellFounded` give the least element of a
set of naturals (`LeastNatural`), and with it the greatest of a bounded one.

Only model-checked: the liveness properties (`BufferDrainsAfterReconnect`,
`DispatchedTaskCompletes`, `DeadAgentGoesOffline`, `EveryTaskAnswered`,
`RequestAnswered`, `LockoutEnds`, `ToldAgentExits`, `StreamEnds`), which need
fairness. Every safety property of a passing run is a theorem.

## 6. Where the code and its documents disagree

Shown by a run (`findings` in `PROJECT.json` quotes the lines):

1. `buffer_overwrite`: a flush writes its failures back over records that were
   appended to the file while it was posting.
2. `ghost`: timestamps as agents send them do not parse and count as now, so a
   dead agent never goes offline.

Seen while modelling, in the models but without a run of their own:

* `CenterNode`: "Agent registrations ... survive center node restarts" (`db.py:5`) holds
  for none of the agents of this repository: the timestamps they send, an
  `isoformat()` with a `Z` after its offset, are none for SQLite, and `load_state`
  selects no row of theirs (`RestartKeepsParsable` says so for every agent outside
  `Parsable`); revoking "prevents future reconnects with its old identity"
  (README.md:251), but not after the agent was purged, and not after a restart that
  does not find the revocation in its row, which for those timestamps is every
  restart; with the master key, which start-agent presents (README.md:122), a
  heartbeat puts a revoked agent back online, though it cannot register
  (`RevokedStaysOut`); an agent that runs but whose heartbeats do not arrive for ten
  minutes is purged, its commands are dropped and its tasks stay queued for ever
  (`center_node.py:1463-1468`), although "When that agent reconnects, the queued task is
  dispatched automatically" (README.md:162); `DispatchedTaskCompletes` leaves
  that case out by name.
* `CenterNode`: the node limit counts online agents and is not applied to known
  ids, so agents that come back exceed it (README.md:482); a task saved between
  clear-tasks and the execution of its DELETE loses its row; a save executed
  after the removal of its task brings its row back; revoking an agent after a
  restart deletes rows of tasks that were reset, because `record_json` still
  names the agent; tasks whose assignment a restart resets, to be re-dispatched
  (`db.py:123`), have no agent and no command, and nothing assigns them
  (`center_node.py:1507`).
* `CenterNode`: commands are popped by the poll (`center_node.py:543`); when its
  answer is lost, or the agent cannot build one of the batch (`user_agent.py:521`),
  the task stays queued and is never sent (README.md:162 again). A restart marks
  revoked agents offline (`center_node.py:1501`), and the purge forgets them.
* `OfflineBuffer`: a record buffered while the agent believes it is connected,
  or by an earlier process, waits in the file until the next reconnection; and one
  line that does not parse, as an agent that dies while it writes leaves behind, keeps
  every later flush from replaying any record (`user_agent.py:1178-1180`; `torn`).
* `AgentExecution`: loads do not take the inference lock (`user_agent.py:647`), so a
  slow load that found no model writes the backend while a faster task generates
  with it, although "The lock ensures only one thread uses the backend at a time"
  (`user_agent.py:948`); a load is skipped when any model is loaded
  (`orchestrator.py:118`), and a task that asked for another runs on that one and is
  reported as successful (`user_agent.py:665`).
* `AgentExecution`: without ONNX Runtime, two loads that overlap create two
  workers, and the second takes the place of the first with its model
  (`displaced`); a streamed task that finds no model succeeds with an empty
  answer; a failed load empties a backend another task is about to use.
* `TaskRequests`: "Each sub-step in the group runs concurrently on a different agent"
  (`center_node.py:896-898`), "an array of steps executes in parallel" (README.md:416),
  and "A parallel step group dispatches to multiple agents"
  (`tests/test_integration.py:638`, a test that looks at the flag `parallel` only); the code awaits
  the result of each sub-step before it dispatches the next
  (`center_node.py:965-977`), so at no time do two agents work on one group,
  unless a sub-step has timed out. `StepsInOrder` therefore says nothing about the steps
  of one group.
* `TaskRequests`: a broadcast awaits the relay of its update to the dashboards before it
  looks at `timeout` (`center_node.py:729`, 768): with a dashboard that never
  reads, the request is never answered, with `wait=false` neither. The completions of its
  tasks are recorded, but their answers wait in the same way, and agents report
  them again. `RequestAnswered` leaves this case out by name.
* `TaskRequests`: task ids contain eight characters of the agent id, so agents
  with longer ids can share the result of a broadcast (`center_node.py:697`);
  cleared tasks, and tasks of a revoked agent, are reported as in progress,
  "running on agent" (`center_node.py:797`); the answer for a task that has left
  the queue and the history names a piece of the task id as the agent
  (`center_node.py:809`); a pipeline whose steps timed out is answered with
  "success".

* `FleetRegistry`: an agent that was heard of, or has registered again, while the
  pass awaited a message to the dashboards is purged nevertheless, although the
  log says "offline >10 min" (`center_node.py:1469`), and keeps running without
  ever registering again; a revocation that falls into that time is forgotten
  with the entry (README.md:251); agents with one home directory share the
  `agent_secret` of `config.json`, so the one that registered first is refused
  when it is started again (`user_agent.py:373`); the answer to a first
  registration is the only copy of the secret, and without it the id is refused
  until the purge (`center_node.py:405`), for ever when its timestamps do not
  parse.

* `Routing` and `LocalWorker`: a task of low complexity that needs an NPU and has
  less than 2 GB goes to the cloud where one of medium complexity stays (rules 5
  and 6); the error of the local worker is lost when the failover fails too; the
  load check accepts what the decoding of encoders then takes for a decoder
  (2000 and 1000 columns); `hot_swapped` of a record is never set
  (`inference_log.py:31`), and the record of a standby names the model it stands in
  for; unloading a language model sets `model_loaded` to false although an ONNX
  session is loaded; an output that hardly varies gives a PII text back as it was
  (`local_worker.py:837`), and what lies beyond the 256 tokens of the recognizer
  stays unmasked; a swap from an encoder to a recognizer masks with labels that
  are a default (README.md:39); the standby is always the quantized variant of the
  constructor's model; the size estimates of the MLX and the llama.cpp backends differ.
* `Daemons`: start-agent looks for no running agent and overwrites its pid file
  (`displaced`); stop says "stopped" after three seconds whatever the process does
  (`main.py:194`); a pid that went to another program keeps start-center from
  starting, and a stop command signals that program.
* `CommandLine`: "should never silently authenticate against a different master key
  than the one written to ~/.vimin/config.json" (`main.py:213`) fails when two first
  starts overlap or `config.json` is read while it is written (`KeysAgree` names the
  cases); agents of one home share one id and one secret; an output file that
  cannot be read is started anew.
* `Dashboards`: a dashboard that is there is skipped when one before it leaves the
  list during a relay (`center_node.py:1395`; `user_agent.py:1078` says "all
  connected"); a dashboard that never reads holds up the answer to every completion and
  every chunk until the agent's timeout of five minutes, although "Never let
  streaming reporting block" (`user_agent.py:1102`), and holds up the cleanup loop for ever.

Seen, not modelled: a pipeline's client waits 310 s per step whatever `timeout`
its steps have (`main.py:607`); a stream that fails is never marked as final; two
broadcasts in one millisecond share their ids; `mlx_backend.generate` ignores stop sequences.

## 7. Not modelled

Abstractions of the modules are listed at their head. Beyond them: the cleanup
pass of `CenterNode` is atomic per agent (that of `FleetRegistry` is not); the
fleet token, API keys and the rate limit of registrations; set_model
commands at the center; continuous tasks and stop_task, which no request
reaches: the center copies neither `continuous` nor `end_conditions` into the tasks
it dispatches (`center_node.py:620`) and never fills `_continuous_tasks`; the methods
`get_best_provider`, `check_dynamic_fallback` and `should_hot_swap`, which nothing
calls; a pid that is reused for a daemon; the limit of the center's history in `CenterNode`; a
write that fails; two agents sharing one buffer file; the 24 hour filter of
`load_state`. The components `PROJECT.json` lists as not modelled say why.

## 8. Plan

Done, in this order of importance: result path, dispatch with its store, task
execution, waiting requests, registration with its secrets, router and local
worker, daemons, commands and configuration, dashboards; the abstract delivery of tasks.
Next:

1. `AgentSession`: a composition of the result path with the center's registry:
   an agent the center has forgotten.
2. Writes of the store that fail.

Hazards no property covers, beyond the 40 of `PROJECT.json`: the node cap of
ids that are known (`center_node.py:383`); a task that finds no agent online
(1433) or whose assignment a restart resets (1507), which nothing assigns
later; a write of the store that fails (`db.py:73`); an agent that the center
has forgotten and that does not register again (`user_agent.py:243`); a command of
a batch that raises and takes the rest with it (`user_agent.py:521`).

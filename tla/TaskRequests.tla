----------------------------- MODULE TaskRequests -----------------------------
(***************************************************************************)
(* Requests that wait at the center node for the results of the tasks they *)
(* dispatch (systems/center_node.py): a broadcast, which asks all agents   *)
(* at once, and a pipeline, which asks one agent after the other.          *)
(*                                                                         *)
(* A waiting request is a coroutine that looks at _task_results every      *)
(* 250 ms, until its results are there or its deadline has passed; from    *)
(* the last look to the answer, or to the dispatch of the next step, it    *)
(* does not await.  A broadcast first awaits the relay of an update to the *)
(* dashboards, and so does the answer to a completion, after all it        *)
(* changes: neither goes on once a dashboard has stopped to read for good  *)
(* (see Dashboards).  Meanwhile agents complete, or lose, what they were   *)
(* sent, and operators clear the queue and revoke agents.                  *)
(*                                                                         *)
(* Abstractions.  Requests start in different milliseconds, so that their  *)
(* ids differ; within a request, ids differ as far as Prefix does.  The    *)
(* payload of a result is the agent that computed it; an error is a        *)
(* payload like any other.  The atomic steps of a parallel group are sent  *)
(* one after the other, as in the code (its documents say concurrently).   *)
(* A revoked agent may come back, as in the code after its purge.  The     *)
(* store, and what CenterNode says of commands, are left to it.            *)
(***************************************************************************)
EXTENDS Naturals, Sequences, FiniteSets

CONSTANTS
    Agents,         \* agent ids
    Prefix,         \* agent_id[:8]
    Requests,       \* requests, each of them a broadcast or a pipeline
    Steps,          \* atomic steps of a pipeline
    Group,          \* the step of "steps" an atomic step belongs to
    HistoryLimit,   \* maxlen of task_history
    None,           \* no agent, no result
    MaxFaults,      \* lost polls, lost answers and stops of agents (bound)
    MaxClears       \* clear-tasks calls (bound)

ASSUME RequestAssumption ==
    /\ IsFiniteSet(Agents) /\ DOMAIN Prefix = Agents
    /\ {Steps, HistoryLimit} \subseteq Nat \ {0}
    /\ Group \in [1..Steps -> Nat]
    /\ \A i, j \in 1..Steps : i <= j => Group[i] <= Group[j]
    /\ {MaxFaults, MaxClears} \subseteq Nat
    /\ None \notin Agents

VARIABLES
    presence,       \* how the center classifies an agent
    queue,          \* dicts in task_queue
    commands,       \* dicts of the run_task commands in _pending_commands
    running,        \* dicts agents have received and not yet reported
    results,        \* _task_results: the agent whose output an id has
    history,        \* task_history
    phase,          \* of a request: "new", "relaying" its update, waiting as
                    \* a "broadcast" or as a "pipeline", "answered"
    alive,          \* alive_agents of a pipeline, a list
    awaited,        \* dicts a request is waiting for
    expired,        \* requests whose deadline has passed
    answer,         \* what the answer to a request says so far
    completed,      \* history variable: dicts whose completion was processed
    stalled,        \* a dashboard will never read again
    faults, clears

centerVars == <<queue, commands, results, history, completed>>
requestVars == <<phase, alive, awaited, expired, answer>>
vars == <<presence, centerVars, running, requestVars, stalled, faults,
          clears>>

(* Of an agent: online and heard of within 90 s, online and not heard of,  *)
(* offline, or revoked, purged or never registered.                        *)
Presence == {"alive", "ghost", "offline", "gone"}

Alive == {a \in Agents : presence[a] = "alive"}
Offline == {a \in Agents : presence[a] = "offline"}
Known(a) == presence[a] # "gone"

(* A task dict: the request it is part of, its step, 0 in a broadcast, its *)
(* agent.                                                                  *)
Dict(r, step, a) == [req |-> r, step |-> step, agent |-> a]
Dicts == [req : Requests, step : 0..Steps, agent : Agents]

(* Faulty: the agent is no part of the id. *)
IdOfRequest(d) == [req |-> d.req, step |-> d.step, prefix |-> None]

(* Its id, which holds eight characters of the agent's id. *)
Id(d) == [req |-> d.req, step |-> d.step, prefix |-> Prefix[d.agent]]

Ids == {Id(d) : d \in Dicts}

DistinctPrefixes == \A a, b \in Agents : Prefix[a] = Prefix[b] => a = b

Fault == faults < MaxFaults /\ faults' = faults + 1

Init ==
    /\ presence = [a \in Agents |-> "gone"]
    /\ queue = {} /\ commands = {} /\ running = {} /\ completed = {}
    /\ results = [id \in Ids |-> None]
    /\ history = << >>
    /\ phase = [r \in Requests |-> "new"]
    /\ alive = [r \in Requests |-> << >>]
    /\ awaited = [r \in Requests |-> {}]
    /\ expired = {}
    /\ answer = [r \in Requests |-> {}]
    /\ stalled = FALSE
    /\ faults = 0 /\ clears = 0

-----------------------------------------------------------------------------
(* Requests *)

(* A dict is queued, and its command put among those of its agent. *)
Dispatch(dicts) ==
    /\ queue' = queue \cup dicts
    /\ commands' = commands \cup dicts
    /\ UNCHANGED <<presence, running, results, history, completed, stalled,
                   faults, clears>>

(* What a request is told of a task: the output of an agent, or that there *)
(* is none.  named is the agent the answer names for the task.             *)
Told(kind, d, named, by) ==
    [kind |-> kind, step |-> d.step, agent |-> d.agent, named |-> named,
     by |-> by]

(* _broadcast_task up to its first await: alive agents are sent the prompt *)
(* and are to be waited for, offline ones are sent it, ghosts are left out. *)
BroadcastTask(r) ==
    /\ phase[r] = "new"
    /\ Alive \cup Offline # {}
    /\ Dispatch({Dict(r, 0, a) : a \in Alive \cup Offline})
    /\ phase' = [phase EXCEPT ![r] = "relaying"]
    /\ awaited' = [awaited EXCEPT ![r] = {Dict(r, 0, a) : a \in Alive}]
    /\ answer' = [answer EXCEPT ![r] =
                    {Told("queued", Dict(r, 0, a), a, None) : a \in Offline}]
    /\ UNCHANGED <<alive, expired>>

(* Every dashboard has been sent the update; the deadline is set now.      *)
(* Without wait, the answer has the ids of the tasks and no more.          *)
RelayReturns(r, wait) ==
    /\ phase[r] = "relaying"
    /\ ~stalled
    /\ IF wait
       THEN /\ phase' = [phase EXCEPT ![r] = "broadcast"]
            /\ UNCHANGED <<awaited, answer>>
       ELSE /\ phase' = [phase EXCEPT ![r] = "answered"]
            /\ awaited' = [awaited EXCEPT ![r] = {}]
            /\ answer' = [answer EXCEPT ![r] = {}]
    /\ UNCHANGED <<presence, centerVars, running, alive, expired, stalled,
                   faults, clears>>

HasResult(d) == results[Id(d)] # None

(* Faulty: an agent that does not answer is waited for. *)
WaitOverWithResults(r) == \A d \in awaited[r] : HasResult(d)

(* The condition of the polling loop. *)
WaitOver(r) == r \in expired \/ \A d \in awaited[r] : HasResult(d)

(* The agent an answer names: of the dict in the queue, else of the record *)
(* in the history, else characters of the task id that name nobody.        *)
NamedAgent(d) ==
    LET queued == {q \in queue : Id(q) = Id(d)}
        recorded == {i \in DOMAIN history : Id(history[i]) = Id(d)}
    IN CASE queued # {} -> (CHOOSE q \in queued : TRUE).agent
         [] queued = {} /\ recorded # {} ->
                history[CHOOSE i \in recorded :
                            \A j \in recorded : i <= j].agent
         [] OTHER -> None

(* _build_result for every task waited for, and the answer. *)
BroadcastAnswered(r) ==
    /\ phase[r] = "broadcast"
    /\ WaitOver(r)
    /\ answer' = [answer EXCEPT ![r] = @ \cup
                    {Told(IF HasResult(d) THEN "output" ELSE "in_progress",
                          d, NamedAgent(d), results[Id(d)]) : d \in awaited[r]}]
    /\ phase' = [phase EXCEPT ![r] = "answered"]
    /\ awaited' = [awaited EXCEPT ![r] = {}]
    /\ UNCHANGED <<presence, centerVars, running, alive, expired, stalled,
                   faults, clears>>

(* _dispatch_pipeline_step up to its wait. *)
DispatchPipelineStep(r, step, a) ==
    /\ Dispatch({Dict(r, step, a)})
    /\ awaited' = [awaited EXCEPT ![r] = {Dict(r, step, a)}]
    /\ expired' = expired \ {r}

(* The order of the agents is that of a dict. *)
Orders(S) == {o \in [1..Cardinality(S) -> S] :
                 \A i, j \in DOMAIN o : o[i] = o[j] => i = j}

(* sub_idx, the place of an atomic step in its group: a group goes round   *)
(* the agents, a step by itself goes to the first one.                     *)
SubIdx(step) == Cardinality({i \in 1..step - 1 : Group[i] = Group[step]})
AgentOfStep(agents, step) == agents[1 + (SubIdx(step) % Len(agents))]

(* _run_pipeline picks the agents of all its steps. *)
StartPipeline(r) ==
    /\ phase[r] = "new"
    /\ Alive # {}
    /\ phase' = [phase EXCEPT ![r] = "pipeline"]
    /\ \E agents \in Orders(Alive) :
          /\ alive' = [alive EXCEPT ![r] = agents]
          /\ DispatchPipelineStep(r, 1, AgentOfStep(agents, 1))
    /\ UNCHANGED answer

(* Faulty: a result that is not there is taken as an empty output. *)
StepToldWithDefault(d) == Told("output", d, d.agent, results[Id(d)])

StepTold(d) ==
    Told(IF HasResult(d) THEN "output" ELSE "timeout", d, d.agent,
         results[Id(d)])

(* A step is over, with its output or without: the next one goes out, or   *)
(* the pipeline is answered.                                               *)
PipelineGoesOn(r) ==
    /\ phase[r] = "pipeline"
    /\ WaitOver(r)
    /\ \E d \in awaited[r] :
          /\ answer' = [answer EXCEPT ![r] = @ \cup {StepTold(d)}]
          /\ \/ /\ d.step < Steps
                /\ DispatchPipelineStep(r, d.step + 1,
                                        AgentOfStep(alive[r], d.step + 1))
                /\ UNCHANGED phase
             \/ /\ d.step = Steps
                /\ phase' = [phase EXCEPT ![r] = "answered"]
                /\ awaited' = [awaited EXCEPT ![r] = {}]
                /\ UNCHANGED <<presence, centerVars, running, expired,
                               stalled, faults, clears>>
    /\ UNCHANGED alive

Waiting(r) == phase[r] \in {"broadcast", "pipeline"}

DeadlinePasses(r) ==
    /\ Waiting(r)
    /\ expired' = expired \cup {r}
    /\ UNCHANGED <<presence, centerVars, running, phase, alive, awaited,
                   answer, stalled, faults, clears>>

-----------------------------------------------------------------------------
(* Meanwhile: agents *)

PresenceBecomes(a, p) ==
    /\ presence' = [presence EXCEPT ![a] = p]
    /\ UNCHANGED <<centerVars, running, requestVars, stalled, faults, clears>>

(* Registration and heartbeats; silence; goodbye and the cleanup loop. *)
HeardOf(a) == presence[a] # "alive" /\ PresenceBecomes(a, "alive")
GrowsStale(a) == presence[a] = "alive" /\ PresenceBecomes(a, "ghost")
GoesOffline(a) ==
    presence[a] \in {"alive", "ghost"} /\ PresenceBecomes(a, "offline")

(* The purge of an offline agent drops its commands. *)
PurgeAgent(a) ==
    /\ presence[a] = "offline"
    /\ presence' = [presence EXCEPT ![a] = "gone"]
    /\ commands' = {d \in commands : d.agent # a}
    /\ UNCHANGED <<queue, results, history, completed, running, requestVars,
                   stalled, faults, clears>>

(* Its revocation, its queued tasks too. *)
RevokeAgent(a) ==
    /\ Known(a)
    /\ presence' = [presence EXCEPT ![a] = "gone"]
    /\ commands' = {d \in commands : d.agent # a}
    /\ queue' = {d \in queue : d.agent # a}
    /\ UNCHANGED <<results, history, completed, running, requestVars, stalled,
                   faults, clears>>

(* The commands are popped and received, *)
PollCommands(a) ==
    /\ Known(a)
    /\ running' = running \cup {d \in commands : d.agent = a}
    /\ commands' = {d \in commands : d.agent # a}
    /\ UNCHANGED <<presence, queue, results, history, completed, requestVars,
                   stalled, faults, clears>>

(* or lost on the way. *)
PollLost(a) ==
    /\ Known(a)
    /\ commands' = {d \in commands : d.agent # a}
    /\ Fault
    /\ UNCHANGED <<presence, queue, results, history, completed, running,
                   requestVars, stalled, clears>>

(* What an agent is running dies with it. *)
StopAgent(a) ==
    /\ running' = {d \in running : d.agent # a}
    /\ Fault
    /\ UNCHANGED <<presence, centerVars, requestVars, stalled, clears>>

(* A deque with a maxlen drops its oldest entry. *)
Recorded(d) ==
    IF Len(history) < HistoryLimit THEN Append(history, d)
                                   ELSE Append(Tail(history), d)

(* _task_completion, whatever the center still knows of the task. *)
CompletionHandled(d) ==
    /\ d \in running
    /\ Known(d.agent)
    /\ history' = Recorded(d)
    /\ results' = [results EXCEPT ![Id(d)] = d.agent]
    /\ queue' = {q \in queue : Id(q) # Id(d)}
    /\ completed' = completed \cup {d}
    /\ UNCHANGED <<presence, commands, requestVars, stalled, clears>>

TaskCompletion(d) ==
    /\ CompletionHandled(d)
    /\ ~stalled
    /\ running' = running \ {d}
    /\ UNCHANGED faults

(* The answer is lost, or waits for a dashboard longer than the agent for  *)
(* it: the agent does not learn of it, and will report the task again.     *)
CompletionAnswerLost(d) ==
    /\ CompletionHandled(d)
    /\ Fault \/ (stalled /\ UNCHANGED faults)
    /\ UNCHANGED running

(* Faulty: all results go. *)
ClearTasksAndResults ==
    /\ clears < MaxClears
    /\ clears' = clears + 1
    /\ queue' = {}
    /\ results' = [id \in Ids |-> None]
    /\ commands' = {}
    /\ UNCHANGED <<presence, history, completed, running, requestVars,
                   stalled, faults>>

(* _clear_tasks: results and commands of the tasks in the queue go with    *)
(* them.                                                                   *)
ClearTasks ==
    LET cleared == {Id(d) : d \in queue}
    IN /\ clears < MaxClears
       /\ clears' = clears + 1
       /\ queue' = {}
       /\ results' = [id \in Ids |-> IF id \in cleared THEN None
                                                        ELSE results[id]]
       /\ commands' = {d \in commands : Id(d) \notin cleared}
       /\ UNCHANGED <<presence, history, completed, running, requestVars,
                      stalled, faults>>

(* The buffer of the connection of a dashboard that does not read is full: *)
(* send_str does not return, nor does anything that awaits it.             *)
DashboardStalls ==
    /\ ~stalled
    /\ stalled' = TRUE
    /\ UNCHANGED <<presence, centerVars, running, requestVars, faults, clears>>

-----------------------------------------------------------------------------
Next ==
    \/ \E r \in Requests :
          \/ BroadcastTask(r) \/ \E wait \in BOOLEAN : RelayReturns(r, wait)
          \/ BroadcastAnswered(r)
          \/ StartPipeline(r) \/ PipelineGoesOn(r)
          \/ DeadlinePasses(r)
    \/ \E a \in Agents :
          \/ HeardOf(a) \/ GrowsStale(a) \/ GoesOffline(a) \/ PurgeAgent(a)
          \/ RevokeAgent(a) \/ PollCommands(a) \/ PollLost(a) \/ StopAgent(a)
    \/ \E d \in running : TaskCompletion(d) \/ CompletionAnswerLost(d)
    \/ ClearTasks
    \/ DashboardStalls

Spec == Init /\ [][Next]_vars

(* A relay returns if all dashboards read; a request looks at the results  *)
(* again and again, its clock goes on, and agents finish what they have    *)
(* received.  Nothing makes an agent poll.                                 *)
Fairness ==
    /\ \A r \in Requests :
          /\ WF_vars(\E wait \in BOOLEAN : RelayReturns(r, wait))
          /\ WF_vars(BroadcastAnswered(r))
          /\ WF_vars(PipelineGoesOn(r))
          /\ WF_vars(DeadlinePasses(r))
    /\ \A d \in Dicts : WF_vars(TaskCompletion(d))

FairSpec == Spec /\ Fairness

-----------------------------------------------------------------------------
(* Properties *)

Answers ==
    [kind : {"output", "queued", "in_progress", "timeout"}, step : 0..Steps,
     agent : Agents, named : Agents \cup {None}, by : Agents \cup {None}]

TypeOK ==
    /\ presence \in [Agents -> Presence]
    /\ queue \subseteq Dicts /\ commands \subseteq Dicts
    /\ running \subseteq Dicts /\ completed \subseteq Dicts
    /\ results \in [Ids -> Agents \cup {None}]
    /\ history \in Seq(Dicts) /\ Len(history) <= HistoryLimit
    /\ phase \in [Requests -> {"new", "relaying", "broadcast", "pipeline",
                              "answered"}]
    /\ alive \in [Requests -> Seq(Agents)]
    /\ \A r \in Requests : phase[r] = "pipeline" => alive[r] # << >>
    /\ awaited \in [Requests -> SUBSET Dicts]
    /\ expired \subseteq Requests
    /\ answer \in [Requests -> SUBSET Answers]
    /\ stalled \in BOOLEAN
    /\ faults \in 0..MaxFaults /\ clears \in 0..MaxClears

(* README.md:31, "collect every response": an output that a request is     *)
(* told for one of its steps and agents was computed by that agent for     *)
(* that step of that request.  This needs agents whose ids differ in their *)
(* first eight characters.                                                 *)
OutputIsOwn ==
    \A r \in Requests : \A told \in answer[r] :
        told.kind = "output" =>
            /\ told.by = told.agent
            /\ Dict(r, told.step, told.agent) \in completed

(* A request is told that a task is in progress, or has timed out, only if *)
(* no completion of it has been processed: neither the deadline nor a      *)
(* clear-tasks call makes a result disappear that had arrived.             *)
NoResultDenied ==
    [][\A r \in Requests : \A told \in answer'[r] \ answer[r] :
          told.kind \in {"in_progress", "timeout"} =>
              Dict(r, told.step, told.agent) \notin completed]_vars

(* center_node.py:776, agent_id_for_task: an answer names the agent of the *)
(* task for as long as the task is queued or its record is in the history; *)
(* afterwards it names nobody, but never another agent.                    *)
AnswerNamesAgent ==
    [][\A r \in Requests : \A told \in answer'[r] \ answer[r] :
          LET d == Dict(r, told.step, told.agent)
          IN \/ told.named = d.agent
             \/ /\ told.named = None
                /\ d \notin queue
                /\ \A i \in DOMAIN history : history[i] # d]_vars

(* README.md:416, "Steps execute sequentially": while a task of a step of  *)
(* a pipeline is queued, waits for its agent or is run by it, every step   *)
(* before it is over: its task has left the queue, or the answer says that *)
(* it timed out.  Nothing is said of the steps of one parallel group.      *)
StepsInOrder ==
    \A r \in Requests : \A e \in queue \cup commands \cup running :
        \A i \in 1..Steps :
            e.req = r /\ e.step > 0 /\ Group[i] < Group[e.step] =>
                \E told \in answer[r] :
                    /\ told.step = i
                    /\ \/ told.kind = "timeout"
                       \/ \A d \in queue : d.req = r => d.step # i

Open(r) == Waiting(r) \/ phase[r] = "relaying"

(* A request is answered, whatever becomes of its tasks; but a broadcast   *)
(* that finds a dashboard which has stopped to read never sets its         *)
(* deadline and is never answered, whatever its "timeout" or "wait" says.  *)
RequestAnswered ==
    \A r \in Requests :
        Open(r) ~> \/ phase[r] = "answered"
                   \/ stalled /\ phase[r] = "relaying"

=============================================================================

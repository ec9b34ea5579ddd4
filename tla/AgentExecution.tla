---------------------------- MODULE AgentExecution ----------------------------
(***************************************************************************)
(* How an agent loads models and executes the tasks it has received        *)
(* (systems/user_agent.py, core/orchestrator.py, core/local_worker.py and  *)
(* the backends).                                                          *)
(*                                                                         *)
(* Every command becomes a coroutine of its own.  A coroutine hands the    *)
(* load of a model, and inference, to a thread and awaits it, so loads and *)
(* inferences of several commands overlap; only inference takes the lock.  *)
(* A local worker has one backend object, and a load is skipped when the   *)
(* current worker has a model, whichever that is.  Without ONNX Runtime,   *)
(* an optional extra, the first load creates the worker.                   *)
(*                                                                         *)
(* Abstractions.  An orchestrator is wired, without an ONNX model and      *)
(* without a cloud worker, as UserAgent.start does it; the router is given *)
(* a new worker in the step in which the orchestrator gets it.  All models *)
(* are for the same backend.  The text of an answer is the model it comes  *)
(* from.  Tasks are generative: speech tasks, which have a backend of      *)
(* their own, and continuous tasks are left out.  A report is              *)
(* OfflineBuffer's: here a task is done when it is reported.               *)
(***************************************************************************)
EXTENDS Naturals, Sequences

CONSTANTS
    Tasks,          \* run_task commands
    Loads,          \* set_model commands
    Models,         \* model ids
    Wants,          \* the model_id of each command
    Streamed,       \* tasks with metadata.stream
    FirstWorker,    \* the worker of __init__, where ONNX Runtime is there
    None,           \* Python's None
    MaxFailures     \* loads and inferences that fail in a run (bound)

Commands == Tasks \cup Loads

(* Any other worker is named after the command whose load creates it. *)
Workers == Commands \cup {FirstWorker}

ASSUME ExecutionAssumption ==
    /\ Tasks \cap Loads = {}
    /\ FirstWorker \notin Commands
    /\ None \notin Models \cup Workers
    /\ Wants \in [Commands -> Models \cup {None}]
    /\ \A c \in Loads : Wants[c] # None
    /\ Streamed \subseteq Tasks
    /\ MaxFailures \in Nat

VARIABLES
    phase,          \* where the coroutine of a command is
    worker,         \* NPUOrchestrator.local_worker
    llm,            \* the model in the backend object of each worker
    active,         \* workers with _active_backend set
    target,         \* the worker a command's thread is using
    displaced,      \* history: workers another one was assigned over
    loadedModel,    \* UserAgent._loaded_model_id
    ready,          \* UserAgent._model_ready is set
    lock,           \* _inference_lock: its holder, then those who wait
    streaming,      \* tasks that took the streaming path
    ranOn,          \* the model an answer comes from
    outcome,        \* the success reported for a task
    failures

workerVars == <<worker, displaced>>
modelVars == <<workerVars, llm, active, target>>
agentVars == <<loadedModel, ready>>
answerVars == <<streaming, ranOn, outcome>>
vars == <<phase, modelVars, agentVars, lock, answerVars, failures>>

(* The path of a command: received, its load looks for a model and for a   *)
(* worker, creates one, loads into the current one, makes the backend the  *)
(* active one and returns, well or badly; then, for a task, the wait for a *)
(* model, the lock, inference, the report.                                 *)
InLoad == {"preparing", "creating", "wired", "loading", "publishing"}

Phases == {"waiting", "checking", "loaded", "failed", "unready", "locking",
           "inferring", "done"} \cup InLoad

Fails == failures < MaxFailures /\ failures' = failures + 1

Advance(c, to) == phase' = [phase EXCEPT ![c] = to]

LeaveWorker(c) == target' = [target EXCEPT ![c] = None]

(* is_generative_model_loaded *)
ModelLoaded == worker \in active /\ llm[worker] # None

Init ==
    /\ phase = [c \in Commands |-> "waiting"]
    /\ worker \in {None, FirstWorker}
    /\ llm = [w \in Workers |-> None]
    /\ active = {}
    /\ target = [c \in Commands |-> None]
    /\ displaced = {}
    /\ loadedModel = None
    /\ ready = FALSE
    /\ lock = <<>>
    /\ streaming = {}
    /\ ranOn = [t \in Tasks |-> None]
    /\ outcome = [t \in Tasks |-> None]
    /\ failures = 0

-----------------------------------------------------------------------------
(* execute_task up to its lock *)

(* The streaming path is chosen before the lock is asked for. *)
QueueForInference(t) ==
    /\ Advance(t, "locking")
    /\ lock' = Append(lock, t)
    /\ streaming' = IF t \in Streamed /\ ModelLoaded
                    THEN streaming \cup {t} ELSE streaming

EnterExecution(t) ==
    IF ready
    THEN QueueForInference(t)
    ELSE Advance(t, "unready") /\ UNCHANGED <<lock, streaming>>

(* The model became ready, or 30 s have passed: it goes on in either case. *)
WaitForModelEnds(t) ==
    /\ phase[t] = "unready"
    /\ QueueForInference(t)
    /\ UNCHANGED <<modelVars, agentVars, ranOn, outcome, failures>>

-----------------------------------------------------------------------------
(* Commands and loads *)

(* _run_task_with_model goes straight on when the agent thinks that the    *)
(* model the task wants is the one it has.                                 *)
Receive(c) ==
    /\ phase[c] = "waiting"
    /\ IF c \in Loads \/ (Wants[c] # None /\ ~(ModelLoaded /\ loadedModel = Wants[c]))
       THEN Advance(c, "checking") /\ UNCHANGED <<lock, streaming>>
       ELSE EnterExecution(c)
    /\ UNCHANGED <<modelVars, agentVars, ranOn, outcome, failures>>

(* Faulty: the model in the backend does not keep a load from starting. *)
LoadNeverSkips(c) ==
    /\ phase[c] = "checking"
    /\ Advance(c, "preparing")
    /\ UNCHANGED <<modelVars, agentVars, lock, answerVars, failures>>

(* NPUOrchestrator.load_generative_model: any model will do. *)
LoadChecks(c) ==
    /\ phase[c] = "checking"
    /\ Advance(c, IF ModelLoaded THEN "loaded" ELSE "preparing")
    /\ UNCHANGED <<modelVars, agentVars, lock, answerVars, failures>>

(* The quantization has been chosen; is there a worker? *)
LoadPrepares(c) ==
    /\ phase[c] = "preparing"
    /\ Advance(c, IF worker = None THEN "creating" ELSE "wired")
    /\ UNCHANGED <<modelVars, agentVars, lock, answerVars, failures>>

(* The new worker is assigned, over one that an overlapping load may have  *)
(* created meanwhile.                                                      *)
CreateWorker(c) ==
    /\ phase[c] = "creating"
    /\ worker' = c
    /\ displaced' = displaced \cup ({worker} \ {None})
    /\ Advance(c, "wired")
    /\ UNCHANGED <<llm, active, target, agentVars, lock, answerVars, failures>>

(* The load goes to the worker that is the current one by now. *)
LoadStarts(c) ==
    /\ phase[c] = "wired"
    /\ target' = [target EXCEPT ![c] = worker]
    /\ Advance(c, "loading")
    /\ UNCHANGED <<workerVars, llm, active, agentVars, lock, answerVars,
                   failures>>

(* Backend.load.  A load that is refused (no backend, too little memory,   *)
(* no file) leaves the backend as it is, one that fails later empties it.  *)
LoadSucceeds(c) ==
    /\ phase[c] = "loading"
    /\ llm' = [llm EXCEPT ![target[c]] = Wants[c]]
    /\ Advance(c, "publishing")
    /\ UNCHANGED <<workerVars, active, target, agentVars, lock, answerVars, failures>>

LoadRaises(c) ==
    /\ phase[c] = "loading"
    /\ llm' \in {llm, [llm EXCEPT ![target[c]] = None]}
    /\ Advance(c, "failed")
    /\ LeaveWorker(c)
    /\ Fails
    /\ UNCHANGED <<workerVars, active, agentVars, lock, answerVars>>

LoadPublishes(c) ==
    /\ phase[c] = "publishing"
    /\ active' = active \cup {target[c]}
    /\ Advance(c, "loaded")
    /\ LeaveWorker(c)
    /\ UNCHANGED <<workerVars, llm, agentVars, lock, answerVars, failures>>

(* Faulty: the agent is ready as soon as a load has been started. *)
LoadReturnsEarly(c) ==
    /\ phase[c] \in {"loading", "loaded"}
    /\ loadedModel' = Wants[c]
    /\ ready' = TRUE
    /\ IF c \in Tasks
       THEN QueueForInference(c)
       ELSE Advance(c, "done") /\ UNCHANGED <<lock, streaming>>
    /\ UNCHANGED <<modelVars, ranOn, outcome, failures>>

(* _load_model_async after its await; a task goes on to execute_task.      *)
LoadReturns(c) ==
    /\ phase[c] = "loaded"
    /\ loadedModel' = Wants[c]
    /\ ready' = TRUE
    /\ IF c \in Tasks
       THEN QueueForInference(c)
       ELSE Advance(c, "done") /\ UNCHANGED <<lock, streaming>>
    /\ UNCHANGED <<modelVars, ranOn, outcome, failures>>

(* Faulty: a task whose model cannot be loaded is given up in silence. *)
LoadFailsSilently(c) ==
    /\ phase[c] = "failed"
    /\ c \in Loads
    /\ Advance(c, "done")
    /\ UNCHANGED <<modelVars, agentVars, lock, answerVars, failures>>

(* A task whose model cannot be loaded is reported as failed. *)
LoadFails(c) ==
    /\ phase[c] = "failed"
    /\ Advance(c, "done")
    /\ outcome' = IF c \in Tasks THEN [outcome EXCEPT ![c] = "error"]
                                 ELSE outcome
    /\ UNCHANGED <<modelVars, agentVars, lock, streaming, ranOn, failures>>

-----------------------------------------------------------------------------
(* Inference, by the holder of the lock *)

HoldsLock(t) == lock # <<>> /\ Head(lock) = t

(* LocalWorker.execute: the generative backend where it has a model. *)
RunsOn == IF ModelLoaded THEN llm[worker] ELSE None

(* execute_task_with_failover: with no model there is no ONNX session and  *)
(* no cloud worker either.                                                 *)
BlockingSucceeds == ModelLoaded

(* A streamed task that finds no model yields nothing, and succeeds. *)
InferenceStarts(t) ==
    /\ phase[t] = "locking"
    /\ HoldsLock(t)
    /\ Advance(t, "inferring")
    /\ target' = [target EXCEPT ![t] = worker]
    /\ ranOn' = [ranOn EXCEPT ![t] = RunsOn]
    /\ outcome' = [outcome EXCEPT ![t] =
                      IF BlockingSucceeds \/ t \in streaming
                      THEN "ok" ELSE "error"]
    /\ UNCHANGED <<workerVars, llm, active, agentVars, lock, streaming,
                   failures>>

InferenceRaises(t) ==
    /\ phase[t] = "inferring"
    /\ outcome[t] = "ok"
    /\ outcome' = [outcome EXCEPT ![t] = "error"]
    /\ Advance(t, "done")
    /\ lock' = Tail(lock)
    /\ LeaveWorker(t)
    /\ Fails
    /\ UNCHANGED <<workerVars, llm, active, agentVars, streaming, ranOn>>

InferenceEnds(t) ==
    /\ phase[t] = "inferring"
    /\ Advance(t, "done")
    /\ lock' = Tail(lock)
    /\ LeaveWorker(t)
    /\ UNCHANGED <<workerVars, llm, active, agentVars, answerVars, failures>>

-----------------------------------------------------------------------------

LoadStep(c) ==
    \/ LoadChecks(c) \/ LoadPrepares(c) \/ CreateWorker(c) \/ LoadStarts(c)
    \/ LoadSucceeds(c) \/ LoadRaises(c) \/ LoadPublishes(c)
    \/ LoadReturns(c) \/ LoadFails(c)

TaskStep(t) ==
    \/ WaitForModelEnds(t) \/ InferenceStarts(t) \/ InferenceRaises(t)
    \/ InferenceEnds(t)

Next ==
    \/ \E c \in Commands : Receive(c) \/ LoadStep(c)
    \/ \E t \in Tasks : TaskStep(t)

Spec == Init /\ [][Next]_vars

(* Threads end and the event loop runs the coroutines that can run; the    *)
(* lock is handed over in the order in which it was asked for.             *)
Fairness ==
    /\ \A c \in Commands : WF_vars(LoadStep(c))
    /\ \A t \in Tasks : WF_vars(TaskStep(t))

FairSpec == Spec /\ Fairness

-----------------------------------------------------------------------------
(* Properties *)

TypeOK ==
    /\ phase \in [Commands -> Phases]
    /\ worker \in Workers \cup {None}
    /\ llm \in [Workers -> Models \cup {None}]
    /\ active \subseteq Workers /\ displaced \subseteq Workers
    /\ target \in [Commands -> Workers \cup {None}]
    /\ loadedModel \in Models \cup {None}
    /\ ready \in BOOLEAN
    /\ lock \in Seq(Tasks)
    /\ streaming \subseteq Tasks
    /\ ranOn \in [Tasks -> Models \cup {None}]
    /\ outcome \in [Tasks -> {"ok", "error", None}]
    /\ failures \in 0..MaxFailures

(* What can take a model away: a load that failed, or a worker that was    *)
(* assigned over another one, its model with it.                           *)
Disturbed == failures > 0 \/ displaced # {}

(* Once the agent says that a model is ready there is one to run tasks on, *)
(* unless a load has failed or a worker has been displaced.                *)
ReadyMeansModel == ready => ModelLoaded \/ Disturbed

(* A task that asked for a model and is answered without one is so for one *)
(* of these two reasons only: loads that overlap within a worker, and the  *)
(* lock, take no model away from a task.                                   *)
FailureHasCause ==
    \A t \in Tasks :
        Wants[t] # None /\ outcome[t] # None /\ ranOn[t] = None => Disturbed

(* A model is in place and no load that found none is left. *)
Settled == ModelLoaded /\ \A c \in Commands : phase[c] \notin InLoad

(* "Call unload_generative_model() first": from then on the model is never *)
(* replaced, whatever the commands ask for.                                *)
SettledModelStays ==
    [][Settled => Settled' /\ llm'[worker'] = llm[worker]]_vars

(* Every task that is received is reported, whatever its model, its load   *)
(* and the tasks before it in the lock do.                                 *)
EveryTaskAnswered ==
    \A t \in Tasks : phase[t] # "waiting" ~> phase[t] = "done"

=============================================================================

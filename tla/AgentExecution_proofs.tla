------------------------ MODULE AgentExecution_proofs ------------------------
(***************************************************************************)
(* Proofs about AgentExecution, for any commands, models and number of     *)
(* failures.                                                               *)
(*                                                                         *)
(* ReadyMeansModel and FailureHasCause need to know what the loads under   *)
(* way will do: Undisturbed says that as long as nothing has failed and no *)
(* worker has been displaced, every load works on the current worker, and  *)
(* whoever relies on a model has one.                                      *)
(***************************************************************************)
EXTENDS AgentExecution, SequenceTheorems, TLAPS

(* Whoever infers holds the lock; a load that has failed was counted; once *)
(* a load is past creating a worker there is one, and then it has it; only *)
(* a command that names a model loads.                                     *)
PhasesMean ==
    /\ \A t \in Tasks : phase[t] = "inferring" => HoldsLock(t)
    /\ \A c \in Commands :
          /\ phase[c] = "failed" => failures > 0
          /\ phase[c] = "wired" => worker # None
          /\ phase[c] \in {"loading", "publishing"} => target[c] # None
          /\ phase[c] \in InLoad \cup {"checking"} => Wants[c] # None

NeedsModel(c) ==
    \/ phase[c] = "loaded"
    \/ /\ phase[c] \in {"unready", "locking", "inferring"}
       /\ Wants[c] # None

Undisturbed ==
    ~Disturbed =>
        /\ \A c \in Commands :
              /\ phase[c] \in {"loading", "publishing"} =>
                    worker # None /\ target[c] = worker
              /\ phase[c] = "publishing" => llm[worker] # None
              /\ NeedsModel(c) => ModelLoaded
        /\ ready => ModelLoaded

ExecutionInv ==
    /\ TypeOK
    /\ PhasesMean
    /\ Undisturbed
    /\ FailureHasCause

-----------------------------------------------------------------------------
(* Types *)

(* A task that joins the lock's queue changes neither its type nor its     *)
(* head: whoever infers still holds the lock.                              *)
LEMMA Queueing ==
    ASSUME NEW t \in Tasks, TypeOK, PhasesMean, QueueForInference(t)
    PROVE  /\ phase' \in [Commands -> Phases]
           /\ lock' \in Seq(Tasks)
           /\ streaming' \subseteq Tasks
           /\ \A u \in Tasks : phase'[u] = "inferring" => HoldsLock(u)'
<1>1. lock' = Append(lock, t) /\ lock \in Seq(Tasks)
      BY DEF QueueForInference, TypeOK
<1>2. lock' \in Seq(Tasks) /\ lock' # <<>>
      BY <1>1, AppendProperties
<1>3. lock # <<>> => Head(lock') = Head(lock)
      BY <1>1, HeadTailAppend
<1>4. t \in Commands /\ phase' = [phase EXCEPT ![t] = "locking"]
      BY DEF QueueForInference, Advance, Commands
<1>5. phase' \in [Commands -> Phases]
      BY <1>4 DEF TypeOK, Phases
<1>6. \A u \in Tasks : phase'[u] = "inferring" => HoldsLock(u)'
      BY <1>2, <1>3, <1>4 DEF TypeOK, PhasesMean, HoldsLock, Commands
<1>7. streaming' \subseteq Tasks
      BY DEF QueueForInference, TypeOK
<1> QED
    BY <1>2, <1>5, <1>6, <1>7

(* The initial state is well typed. *)
LEMMA TypeInit == Init => TypeOK
<1> SUFFICES ASSUME Init PROVE TypeOK
    OBVIOUS
<1>1. phase \in [Commands -> Phases]
      BY DEF Init, Phases
<1>2. worker \in Workers \cup {None} /\ llm \in [Workers -> Models \cup {None}]
      BY DEF Init, Workers
<1>3. lock \in Seq(Tasks)
      BY DEF Init
<1>4. failures \in 0..MaxFailures
      BY ExecutionAssumption DEF Init
<1>5. /\ target \in [Commands -> Workers \cup {None}]
      /\ ranOn \in [Tasks -> Models \cup {None}]
      /\ outcome \in [Tasks -> {"ok", "error", None}]
      BY DEF Init
<1> QED
    BY <1>1, <1>2, <1>3, <1>4, <1>5 DEF Init, TypeOK

(* A step keeps the types and what the phases mean. *)
LEMMA TypeStep == TypeOK /\ PhasesMean /\ [Next]_vars => TypeOK' /\ PhasesMean'
<1> SUFFICES ASSUME TypeOK, PhasesMean, [Next]_vars
             PROVE  TypeOK' /\ PhasesMean'
    OBVIOUS
<1> USE ExecutionAssumption DEF TypeOK, PhasesMean, HoldsLock, Phases, InLoad,
        Workers, Commands, Advance, Fails, LeaveWorker, workerVars, modelVars,
        agentVars, answerVars
<1>1. ASSUME NEW c \in Commands, Receive(c)
      PROVE  TypeOK' /\ PhasesMean'
  <2>1. CASE phase' = [phase EXCEPT ![c] = "checking"] /\ UNCHANGED lock
        BY <1>1, <2>1 DEF Receive, EnterExecution, QueueForInference
  <2>2. CASE phase' = [phase EXCEPT ![c] = "unready"] /\ UNCHANGED lock
        BY <1>1, <2>2 DEF Receive, EnterExecution, QueueForInference
  <2>3. CASE c \in Tasks /\ QueueForInference(c)
    <3>1. phase' = [phase EXCEPT ![c] = "locking"]
          BY <2>3 DEF QueueForInference
    <3> QED
        BY <1>1, <2>3, <3>1, Queueing DEF Receive
  <2> QED
      BY <1>1, <2>1, <2>2, <2>3 DEF Receive, EnterExecution
<1>2. ASSUME NEW c \in Commands, LoadChecks(c)
      PROVE  TypeOK' /\ PhasesMean'
      BY <1>2 DEF LoadChecks
<1>3. ASSUME NEW c \in Commands, LoadPrepares(c)
      PROVE  TypeOK' /\ PhasesMean'
      BY <1>3 DEF LoadPrepares
<1>4. ASSUME NEW c \in Commands, CreateWorker(c)
      PROVE  TypeOK' /\ PhasesMean'
      BY <1>4 DEF CreateWorker
<1>5. ASSUME NEW c \in Commands, LoadStarts(c)
      PROVE  TypeOK' /\ PhasesMean'
      BY <1>5 DEF LoadStarts
<1>6. ASSUME NEW c \in Commands, LoadSucceeds(c)
      PROVE  TypeOK' /\ PhasesMean'
      BY <1>6 DEF LoadSucceeds
<1>7. ASSUME NEW c \in Commands, LoadRaises(c)
      PROVE  TypeOK' /\ PhasesMean'
      BY <1>7 DEF LoadRaises
<1>8. ASSUME NEW c \in Commands, LoadPublishes(c)
      PROVE  TypeOK' /\ PhasesMean'
      BY <1>8 DEF LoadPublishes
<1>9. ASSUME NEW c \in Commands, LoadReturns(c)
      PROVE  TypeOK' /\ PhasesMean'
  <2>1. CASE c \in Tasks
    <3>1. QueueForInference(c)
          BY <1>9, <2>1 DEF LoadReturns
    <3>2. phase' = [phase EXCEPT ![c] = "locking"]
          BY <3>1 DEF QueueForInference
    <3> QED
        BY <1>9, <2>1, <3>1, <3>2, Queueing DEF LoadReturns
  <2>2. CASE c \notin Tasks
        BY <1>9, <2>2 DEF LoadReturns
  <2> QED
      BY <2>1, <2>2
<1>10. ASSUME NEW c \in Commands, LoadFails(c)
       PROVE  TypeOK' /\ PhasesMean'
       BY <1>10 DEF LoadFails
<1>11. ASSUME NEW t \in Tasks, WaitForModelEnds(t)
       PROVE  TypeOK' /\ PhasesMean'
  <2>1. QueueForInference(t) /\ t \in Tasks
        BY <1>11 DEF WaitForModelEnds
  <2>2. phase' = [phase EXCEPT ![t] = "locking"]
        BY <2>1 DEF QueueForInference
  <2> QED
      BY <1>11, <2>1, <2>2, Queueing DEF WaitForModelEnds
<1>12. ASSUME NEW t \in Tasks, InferenceStarts(t)
       PROVE  TypeOK' /\ PhasesMean'
       BY <1>12 DEF InferenceStarts, RunsOn, BlockingSucceeds, ModelLoaded
<1>13. ASSUME NEW t \in Tasks, InferenceRaises(t)
       PROVE  TypeOK' /\ PhasesMean'
  <2>1. lock' = Tail(lock) /\ lock # <<>> /\ Head(lock) = t
        BY <1>13 DEF InferenceRaises
  <2>2. lock' \in Seq(Tasks)
        BY <2>1, HeadTailProperties
  <2> QED
      BY <1>13, <2>1, <2>2 DEF InferenceRaises
<1>14. ASSUME NEW t \in Tasks, InferenceEnds(t)
       PROVE  TypeOK' /\ PhasesMean'
  <2>1. lock' = Tail(lock) /\ lock # <<>> /\ Head(lock) = t
        BY <1>14 DEF InferenceEnds
  <2>2. lock' \in Seq(Tasks)
        BY <2>1, HeadTailProperties
  <2> QED
      BY <1>14, <2>1, <2>2 DEF InferenceEnds
<1>15. CASE UNCHANGED vars
       BY <1>15 DEF vars
<1> QED
    BY <1>1, <1>2, <1>3, <1>4, <1>5, <1>6, <1>7, <1>8, <1>9, <1>10, <1>11,
       <1>12, <1>13, <1>14, <1>15 DEF Next, LoadStep, TaskStep

(* Every variable of the agent's execution keeps its type. *)
THEOREM TypeCorrect == Spec => []TypeOK
<1>1. Init => TypeOK /\ PhasesMean
      BY TypeInit, ExecutionAssumption DEF Init, PhasesMean, Commands, InLoad
<1>2. TypeOK /\ PhasesMean /\ [Next]_vars => (TypeOK /\ PhasesMean)'
      BY TypeStep
<1> QED
    BY <1>1, <1>2, PTL DEF Spec

-----------------------------------------------------------------------------
(* Models *)

LEMMA UndisturbedStep == ExecutionInv /\ [Next]_vars => Undisturbed'
<1> SUFFICES ASSUME ExecutionInv, [Next]_vars
             PROVE  Undisturbed'
    OBVIOUS
<1> USE ExecutionAssumption DEF ExecutionInv, TypeOK, PhasesMean, Undisturbed,
        Disturbed, NeedsModel, ModelLoaded, Workers, Commands, Advance, Fails,
        LeaveWorker, workerVars, modelVars, agentVars, answerVars, InLoad,
        QueueForInference
<1>1. ASSUME NEW c \in Commands, Receive(c)
      PROVE  Undisturbed'
      BY <1>1 DEF Receive, EnterExecution
<1>2. ASSUME NEW c \in Commands, LoadChecks(c)
      PROVE  Undisturbed'
      BY <1>2 DEF LoadChecks
<1>3. ASSUME NEW c \in Commands, LoadPrepares(c)
      PROVE  Undisturbed'
      BY <1>3 DEF LoadPrepares
<1>4. ASSUME NEW c \in Commands, CreateWorker(c)
      PROVE  Undisturbed'
      BY <1>4 DEF CreateWorker
<1>5. ASSUME NEW c \in Commands, LoadStarts(c)
      PROVE  Undisturbed'
      BY <1>5 DEF LoadStarts
<1>6. ASSUME NEW c \in Commands, LoadSucceeds(c)
      PROVE  Undisturbed'
      BY <1>6 DEF LoadSucceeds
<1>7. ASSUME NEW c \in Commands, LoadRaises(c)
      PROVE  Undisturbed'
      BY <1>7 DEF LoadRaises
<1>8. ASSUME NEW c \in Commands, LoadPublishes(c)
      PROVE  Undisturbed'
      BY <1>8 DEF LoadPublishes
<1>9. ASSUME NEW c \in Commands, LoadReturns(c)
      PROVE  Undisturbed'
      BY <1>9 DEF LoadReturns
<1>10. ASSUME NEW c \in Commands, LoadFails(c)
       PROVE  Undisturbed'
       BY <1>10 DEF LoadFails
<1>11. ASSUME NEW t \in Tasks, WaitForModelEnds(t)
       PROVE  Undisturbed'
       BY <1>11 DEF WaitForModelEnds
<1>12. ASSUME NEW t \in Tasks, InferenceStarts(t)
       PROVE  Undisturbed'
       BY <1>12 DEF InferenceStarts, RunsOn
<1>13. ASSUME NEW t \in Tasks, InferenceRaises(t)
       PROVE  Undisturbed'
       BY <1>13 DEF InferenceRaises
<1>14. ASSUME NEW t \in Tasks, InferenceEnds(t)
       PROVE  Undisturbed'
       BY <1>14 DEF InferenceEnds
<1>15. CASE UNCHANGED vars
       BY <1>15 DEF vars
<1> QED
    BY <1>1, <1>2, <1>3, <1>4, <1>5, <1>6, <1>7, <1>8, <1>9, <1>10, <1>11,
       <1>12, <1>13, <1>14, <1>15 DEF Next, LoadStep, TaskStep

(* An answer without a model is given, or a model taken away, only in a    *)
(* disturbed state, and a disturbed state stays one.                       *)
LEMMA FailureStep == ExecutionInv /\ [Next]_vars => FailureHasCause'
<1> SUFFICES ASSUME ExecutionInv, [Next]_vars,
                    NEW t \in Tasks, Wants[t] # None, outcome'[t] # None,
                    ranOn'[t] = None
             PROVE  Disturbed'
    BY DEF FailureHasCause
<1> USE ExecutionAssumption DEF ExecutionInv, TypeOK, FailureHasCause
<1>1. Disturbed => Disturbed'
      BY DEF Disturbed, Next, LoadStep, TaskStep, Receive, LoadChecks,
         LoadPrepares, CreateWorker, LoadStarts, LoadSucceeds, LoadRaises,
         LoadPublishes, LoadReturns, LoadFails, WaitForModelEnds,
         InferenceStarts, InferenceRaises, InferenceEnds, Fails, vars,
         modelVars, workerVars
<1>2. CASE outcome[t] # None /\ ranOn[t] = None
      BY <1>1, <1>2
<1>3. CASE LoadFails(t)
  <2>1. failures > 0
        BY <1>3 DEF LoadFails, PhasesMean, Commands
  <2> QED
      BY <1>1, <2>1 DEF Disturbed
<1>4. CASE InferenceStarts(t)
  <2>1. phase[t] = "locking" /\ (ModelLoaded => ranOn'[t] = llm[worker])
        BY <1>4 DEF InferenceStarts, RunsOn
  <2>2. ~ModelLoaded
        BY <2>1 DEF ModelLoaded
  <2> QED
      BY <1>1, <2>1, <2>2 DEF Undisturbed, NeedsModel, Commands
<1>5. CASE InferenceRaises(t)
      BY <1>5 DEF InferenceRaises, Fails, Disturbed
<1> QED
  <2>1. ~LoadFails(t) /\ ~InferenceStarts(t) /\ ~InferenceRaises(t)
            => outcome'[t] = outcome[t] /\ ranOn'[t] = ranOn[t]
        BY DEF Next, LoadStep, TaskStep, Receive, LoadChecks,
           LoadPrepares, CreateWorker, LoadStarts, LoadSucceeds, LoadRaises,
           LoadPublishes, LoadReturns, LoadFails, WaitForModelEnds,
           InferenceStarts, InferenceRaises, InferenceEnds, vars, answerVars
  <2> QED
      BY <1>2, <1>3, <1>4, <1>5, <2>1

(* The inductive invariant. *)
THEOREM ExecutionIsSound == Spec => []ExecutionInv
<1>1. Init => ExecutionInv
  <2> SUFFICES ASSUME Init PROVE ExecutionInv
      OBVIOUS
  <2>1. TypeOK
        BY TypeInit
  <2>2. PhasesMean /\ FailureHasCause
        BY DEF Init, PhasesMean, FailureHasCause, Commands, InLoad
  <2>3. Undisturbed
        BY DEF Init, Undisturbed, NeedsModel
  <2> QED
      BY <2>1, <2>2, <2>3 DEF ExecutionInv
<1>2. ExecutionInv /\ [Next]_vars => ExecutionInv'
      BY TypeStep, UndisturbedStep, FailureStep DEF ExecutionInv
<1> QED
    BY <1>1, <1>2, PTL DEF Spec

(* An agent that says a model is ready has one, unless a load has failed   *)
(* or a worker has been displaced.                                         *)
THEOREM ReadyIsReady == Spec => []ReadyMeansModel
<1>1. ExecutionInv => ReadyMeansModel
      BY DEF ExecutionInv, Undisturbed, ReadyMeansModel
<1> QED
    BY <1>1, ExecutionIsSound, PTL

(* A task that named a model is answered without one for a cause only. *)
THEOREM NoUncausedFailure == Spec => []FailureHasCause
<1>1. ExecutionInv => FailureHasCause
      BY DEF ExecutionInv
<1> QED
    BY <1>1, ExecutionIsSound, PTL

(* No step replaces a model once no load that found none is left. *)
THEOREM SettledModelIsKept == Spec => SettledModelStays
<1>1. ASSUME TypeOK, [Next]_vars, Settled
      PROVE  Settled' /\ llm'[worker'] = llm[worker]
  <2> USE <1>1 DEF TypeOK, Settled, ModelLoaded, InLoad, Commands, Advance,
          QueueForInference, LeaveWorker, workerVars, modelVars
  <2>1. ASSUME NEW c \in Commands, Receive(c) \/ LoadStep(c)
        PROVE  Settled' /\ llm'[worker'] = llm[worker]
        BY <2>1 DEF Receive, EnterExecution, LoadStep, LoadChecks,
           LoadPrepares, CreateWorker, LoadStarts, LoadSucceeds, LoadRaises,
           LoadPublishes, LoadReturns, LoadFails
  <2>2. ASSUME NEW t \in Tasks, TaskStep(t)
        PROVE  Settled' /\ llm'[worker'] = llm[worker]
        BY <2>2 DEF TaskStep, WaitForModelEnds, InferenceStarts,
           InferenceRaises, InferenceEnds
  <2>3. CASE UNCHANGED vars
        BY <2>3 DEF vars
  <2> QED
      BY <1>1, <2>1, <2>2, <2>3 DEF Next
<1>2. TypeOK /\ [Next]_vars
        => [Settled => Settled' /\ llm'[worker'] = llm[worker]]_vars
      BY <1>1
<1> QED
    BY <1>2, TypeCorrect, PTL DEF Spec, SettledModelStays

=============================================================================

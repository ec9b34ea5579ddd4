------------------------- MODULE TaskRequests_proofs -------------------------
(***************************************************************************)
(* Proofs about TaskRequests, for any agents, requests, steps, faults and  *)
(* clear-tasks calls.                                                      *)
(*                                                                         *)
(* A result is never denied because it cannot disappear: _clear_tasks      *)
(* drops the results of queued tasks, and a task that has completed is not *)
(* queued (CompletedIsDone).  That no later dispatch queues its id again   *)
(* follows from SentEarlier: whatever is about of a request was sent by it *)
(* in this step or in an earlier one.  The steps of a pipeline are in      *)
(* order because whatever is about of a step was sent when the answer had  *)
(* been told of all steps before it (StepsReached), and a task that is     *)
(* still queued was told of as timed out (StepsTold).                      *)
(***************************************************************************)
EXTENDS TaskRequests, SequenceTheorems, FiniteSetTheorems,
        WellFoundedInduction, TLAPS

(* Whatever there is of a request: queued, waiting for the agent, with the *)
(* agent, or reported.                                                     *)
Sent == queue \cup commands \cup running \cup completed

SentEarlier ==
    \A d \in Sent :
        /\ phase[d.req] # "new"
        /\ phase[d.req] = "pipeline" =>
              \A e \in awaited[d.req] : d.step <= e.step

AwaitedOwn ==
    \A r \in Requests : \A d \in awaited[r] :
        d.req = r /\ (phase[r] = "pipeline" => d.step \in 1..Steps)

CompletedIsDone ==
    \A d \in completed :
        /\ HasResult(d)
        /\ \A q \in queue : Id(q) # Id(d)

RequestInv ==
    /\ TypeOK
    /\ SentEarlier
    /\ AwaitedOwn
    /\ CompletedIsDone

-----------------------------------------------------------------------------
(* Types *)

(* The history stays a sequence of dicts within its limit. *)
LEMMA RecordedType ==
    ASSUME NEW d \in Dicts, TypeOK
    PROVE  Recorded(d) \in Seq(Dicts) /\ Len(Recorded(d)) <= HistoryLimit
<1>1. history \in Seq(Dicts) /\ Len(history) <= HistoryLimit
      BY DEF TypeOK
<1>2. HistoryLimit \in Nat \ {0}
      BY RequestAssumption
<1>3. CASE Len(history) < HistoryLimit
  <2>1. /\ Append(history, d) \in Seq(Dicts)
        /\ Len(Append(history, d)) = Len(history) + 1
        BY <1>1, AppendProperties
  <2> QED
      BY <1>1, <1>2, <1>3, <2>1, LenProperties DEF Recorded
<1>4. CASE ~(Len(history) < HistoryLimit)
  <2>1. Len(history) = HistoryLimit /\ history # << >>
        BY <1>1, <1>2, <1>4, LenProperties, EmptySeq
  <2>2. Tail(history) \in Seq(Dicts) /\ Len(Tail(history)) = Len(history) - 1
        BY <1>1, <2>1, HeadTailProperties
  <2>3. /\ Append(Tail(history), d) \in Seq(Dicts)
        /\ Len(Append(Tail(history), d)) = Len(Tail(history)) + 1
        BY <2>2, AppendProperties
  <2> QED
      BY <1>2, <1>4, <2>1, <2>2, <2>3, LenProperties DEF Recorded
<1> QED
    BY <1>3, <1>4

(* A dict's id is among the ids, and names a request and a step. *)
LEMMA IdType ==
    \A d \in Dicts : Id(d) \in Ids
BY DEF Ids

LEMMA TypeInit == Init => TypeOK
<1> SUFFICES ASSUME Init PROVE TypeOK
    OBVIOUS
<1>1. history \in Seq(Dicts) /\ Len(history) <= HistoryLimit
      BY RequestAssumption, EmptySeq DEF Init
<1>2. alive \in [Requests -> Seq(Agents)]
      BY EmptySeq DEF Init
<1>3. /\ phase \in [Requests -> {"new", "relaying", "broadcast", "pipeline",
                                "answered"}]
      /\ \A r \in Requests : phase[r] # "pipeline"
      BY DEF Init
<1>4. /\ presence \in [Agents -> Presence]
      /\ queue \subseteq Dicts /\ commands \subseteq Dicts
      /\ running \subseteq Dicts /\ completed \subseteq Dicts
      /\ results \in [Ids -> Agents \cup {None}]
      BY DEF Init, Presence
<1>5. /\ awaited \in [Requests -> SUBSET Dicts] /\ expired \subseteq Requests
      /\ answer \in [Requests -> SUBSET Answers] /\ stalled \in BOOLEAN
      BY DEF Init
<1>6. faults \in 0..MaxFaults /\ clears \in 0..MaxClears
      BY RequestAssumption DEF Init
<1> QED
    BY <1>1, <1>2, <1>3, <1>4, <1>5, <1>6 DEF TypeOK

(* The place of a step in its group is a number, so that a list of agents  *)
(* that is not empty has one for the step.                                 *)
LEMMA StepAgent ==
    ASSUME NEW agents \in Seq(Agents), agents # << >>, NEW step \in Nat
    PROVE  AgentOfStep(agents, step) \in Agents
<1>1. SubIdx(step) \in Nat
  <2> DEFINE before == {i \in 1..step - 1 : Group[i] = Group[step]}
  <2>1. IsFiniteSet(1..step - 1) /\ before \subseteq 1..step - 1
        BY FS_Interval
  <2>2. IsFiniteSet(before)
        BY <2>1, FS_Subset
  <2> QED
      BY <2>2, FS_CardinalityType DEF SubIdx
<1>2. Len(agents) \in Nat \ {0}
      BY EmptySeq, LenProperties
<1>3. SubIdx(step) % Len(agents) \in 0..Len(agents) - 1
      BY <1>1, <1>2
<1>4. 1 + (SubIdx(step) % Len(agents)) \in 1..Len(agents)
      BY <1>2, <1>3
<1> QED
    BY <1>4, ElementOfSeq DEF AgentOfStep

(* A pipeline starts with a list of agents, and its first step. *)
LEMMA StartDispatches ==
    ASSUME TypeOK, NEW r \in Requests, StartPipeline(r)
    PROVE  /\ \E a \in Agents : DispatchPipelineStep(r, 1, a)
           /\ \E agents \in Seq(Agents) :
                 agents # << >> /\ alive' = [alive EXCEPT ![r] = agents]
<1>1. PICK agents \in Orders(Alive) :
          /\ alive' = [alive EXCEPT ![r] = agents]
          /\ DispatchPipelineStep(r, 1, AgentOfStep(agents, 1))
      BY DEF StartPipeline
<1>2. Cardinality(Alive) \in Nat \ {0}
  <2>1. IsFiniteSet(Alive) /\ Alive # {}
        BY RequestAssumption, FS_Subset DEF Alive, StartPipeline
  <2> QED
      BY <2>1, FS_CardinalityType, FS_EmptySet
<1>3. agents \in [1..Cardinality(Alive) -> Agents]
      BY <1>1 DEF Orders, Alive
<1>4. agents \in Seq(Agents)
      BY <1>2, <1>3, IsASeq
<1>5. agents # << >>
  <2>1. 1 \in DOMAIN agents
        BY <1>2, <1>3
  <2>2. DOMAIN << >> = {}
        OBVIOUS
  <2> QED
      BY <2>1, <2>2
<1>6. AgentOfStep(agents, 1) \in Agents
      BY <1>4, <1>5, StepAgent
<1> QED
    BY <1>1, <1>4, <1>5, <1>6

(* A pipeline goes on with its next step, or is answered. *)
LEMMA GoesOnDispatches ==
    ASSUME TypeOK, NEW r \in Requests, PipelineGoesOn(r)
    PROVE  \E d \in awaited[r] :
              /\ answer' = [answer EXCEPT ![r] = @ \cup {StepTold(d)}]
              /\ \/ /\ d.step < Steps
                    /\ \E a \in Agents : DispatchPipelineStep(r, d.step + 1, a)
                    /\ UNCHANGED phase
                 \/ /\ d.step = Steps
                    /\ phase' = [phase EXCEPT ![r] = "answered"]
                    /\ awaited' = [awaited EXCEPT ![r] = {}]
                    /\ UNCHANGED <<presence, centerVars, running, expired,
                                   stalled, faults, clears>>
<1>1. alive[r] \in Seq(Agents) /\ alive[r] # << >>
      BY DEF TypeOK, PipelineGoesOn
<1>2. \A d \in awaited[r] : d.step + 1 \in Nat
      BY RequestAssumption DEF TypeOK, Dicts
<1>3. \A d \in awaited[r] : AgentOfStep(alive[r], d.step + 1) \in Agents
      BY <1>1, <1>2, StepAgent
<1> QED
    BY <1>3 DEF PipelineGoesOn

(* A set of positions that is not empty has a first one. *)
LEMMA LeastNatural ==
    ASSUME NEW S, S \subseteq Nat, S # {}
    PROVE  \E i \in S : \A j \in S : i <= j
<1> DEFINE Less == {pair \in Nat \X Nat : pair[1] < pair[2]}
<1>1. IsWellFoundedOn(Less, Nat)
      BY NatLessThanWellFounded DEF OpToRel
<1>2. PICK i \in S : \A j \in S : <<j, i>> \notin Less
  <2> HIDE DEF Less
  <2> QED
      BY <1>1, WFMin
<1>3. ASSUME NEW j \in S, ~(i <= j)
      PROVE  FALSE
  <2>1. i \in Nat /\ j \in Nat /\ j < i
        BY <1>3
  <2>2. <<j, i>> \in Nat \X Nat /\ <<j, i>>[1] = j /\ <<j, i>>[2] = i
        BY <2>1
  <2>3. <<j, i>> \in Less
        BY <2>1, <2>2, Zenon
  <2> QED
      BY <1>2, <2>3
<1> QED
    BY <1>3

(* The agent an answer names is that of a queued dict, or of a record in   *)
(* the history, with the id of the task; or nobody.                        *)
LEMMA NamedAgentIs ==
    ASSUME NEW d, TypeOK
    PROVE  \/ \E q \in queue : Id(q) = Id(d) /\ NamedAgent(d) = q.agent
           \/ /\ \A q \in queue : Id(q) # Id(d)
              /\ \E i \in DOMAIN history : /\ Id(history[i]) = Id(d)
                                         /\ NamedAgent(d) = history[i].agent
           \/ /\ \A q \in queue : Id(q) # Id(d)
              /\ \A i \in DOMAIN history : Id(history[i]) # Id(d)
              /\ NamedAgent(d) = None
<1> DEFINE queued == {q \in queue : Id(q) = Id(d)}
           recorded == {i \in DOMAIN history : Id(history[i]) = Id(d)}
<1>1. CASE queued # {}
  <2>1. (CHOOSE q \in queued : TRUE) \in queued
        BY <1>1
  <2>2. NamedAgent(d) = (CHOOSE q \in queued : TRUE).agent
        BY <1>1 DEF NamedAgent
  <2> QED
      BY <2>1, <2>2
<1>2. CASE queued = {} /\ recorded # {}
  <2> DEFINE first == CHOOSE i \in recorded : \A j \in recorded : i <= j
  <2>1. recorded \subseteq Nat
        BY LenProperties DEF TypeOK
  <2>2. first \in recorded
        BY <1>2, <2>1, LeastNatural
  <2>3. NamedAgent(d) = history[first].agent
        BY <1>2 DEF NamedAgent
  <2> QED
      BY <1>2, <2>2, <2>3
<1>3. CASE queued = {} /\ recorded = {}
  <2>1. NamedAgent(d) = None
        BY <1>3 DEF NamedAgent
  <2> QED
      BY <1>3, <2>1
<1> QED
    BY <1>1, <1>2, <1>3

LEMMA NamedAgentType ==
    ASSUME TypeOK
    PROVE  /\ \A i \in DOMAIN history : history[i] \in Dicts
           /\ \A d : NamedAgent(d) \in Agents \cup {None}
<1>1. history \in Seq(Dicts) /\ queue \subseteq Dicts
      BY DEF TypeOK
<1>2. \A i \in DOMAIN history : history[i] \in Dicts
      BY <1>1, LenProperties
<1>3. \A d \in Dicts : d.agent \in Agents
      BY DEF Dicts
<1> QED
    BY <1>1, <1>2, <1>3, NamedAgentIs

LEMMA TypeStep == TypeOK /\ AwaitedOwn /\ [Next]_vars => TypeOK' /\ AwaitedOwn'
<1> SUFFICES ASSUME TypeOK, AwaitedOwn, [Next]_vars
             PROVE  TypeOK' /\ AwaitedOwn'
    OBVIOUS
<1> USE RequestAssumption
    DEF TypeOK, AwaitedOwn, Presence, Dicts, Dict, Alive, Offline, Known, Fault,
        Waiting, centerVars, requestVars
<1>1. ASSUME NEW r \in Requests, BroadcastTask(r)
      PROVE  TypeOK' /\ AwaitedOwn'
  <2>1. {Dict(r, 0, a) : a \in Alive \cup Offline} \subseteq Dicts
        OBVIOUS
  <2>2. queue' \subseteq Dicts /\ commands' \subseteq Dicts
        BY <1>1, <2>1 DEF BroadcastTask, Dispatch
  <2>3. {Told("queued", Dict(r, 0, a), a, None) : a \in Offline}
            \subseteq Answers
        BY DEF Told, Answers
  <2>4. answer' \in [Requests -> SUBSET Answers]
        BY <1>1, <2>3 DEF BroadcastTask
  <2>5. awaited' \in [Requests -> SUBSET Dicts]
        BY <1>1 DEF BroadcastTask
  <2>6. phase' \in [Requests -> {"new", "relaying", "broadcast", "pipeline",
                                 "answered"}]
        /\ \A q \in Requests : phase'[q] = "pipeline" => alive'[q] # << >>
        BY <1>1 DEF BroadcastTask
  <2>7. AwaitedOwn'
        BY <1>1 DEF BroadcastTask
  <2> QED
      BY <1>1, <2>2, <2>4, <2>5, <2>6, <2>7 DEF BroadcastTask, Dispatch
<1>2. ASSUME NEW r \in Requests, BroadcastAnswered(r)
      PROVE  TypeOK' /\ AwaitedOwn'
  <2>1. \A d \in awaited[r] : NamedAgent(d) \in Agents \cup {None}
        BY NamedAgentType
  <2>2. {Told(IF HasResult(d) THEN "output" ELSE "in_progress",
              d, NamedAgent(d), results[Id(d)]) : d \in awaited[r]}
            \subseteq Answers
        BY <2>1, IdType DEF Told, Answers
  <2>3. answer' \in [Requests -> SUBSET Answers]
        BY <1>2, <2>2 DEF BroadcastAnswered
  <2> QED
      BY <1>2, <2>3 DEF BroadcastAnswered
<1>3. ASSUME NEW r \in Requests, StartPipeline(r)
      PROVE  TypeOK' /\ AwaitedOwn'
  <2>1. PICK a \in Agents : DispatchPipelineStep(r, 1, a)
        BY <1>3, StartDispatches
  <2>2. /\ phase' = [phase EXCEPT ![r] = "pipeline"]
        /\ \E agents \in Seq(Agents) :
              agents # << >> /\ alive' = [alive EXCEPT ![r] = agents]
        /\ UNCHANGED answer
        BY <1>3, StartDispatches DEF StartPipeline
  <2>3. /\ alive' \in [Requests -> Seq(Agents)]
        /\ \A q \in Requests : phase'[q] = "pipeline" => alive'[q] # << >>
        BY <2>2
  <2>4. Dict(r, 1, a) \in Dicts
        OBVIOUS
  <2>5. AwaitedOwn'
        BY <2>1, <2>2 DEF DispatchPipelineStep
  <2> QED
      BY <2>1, <2>2, <2>3, <2>4, <2>5 DEF DispatchPipelineStep, Dispatch
<1>4. ASSUME NEW r \in Requests, PipelineGoesOn(r)
      PROVE  TypeOK' /\ AwaitedOwn'
  <2>1. phase[r] = "pipeline"
        BY <1>4 DEF PipelineGoesOn
  <2>2. PICK d \in awaited[r] :
          /\ answer' = [answer EXCEPT ![r] = @ \cup {StepTold(d)}]
          /\ \/ /\ d.step < Steps
                /\ \E a \in Agents : DispatchPipelineStep(r, d.step + 1, a)
                /\ UNCHANGED phase
             \/ /\ d.step = Steps
                /\ phase' = [phase EXCEPT ![r] = "answered"]
                /\ awaited' = [awaited EXCEPT ![r] = {}]
                /\ UNCHANGED <<presence, centerVars, running, expired,
                               stalled, faults, clears>>
        BY <1>4, GoesOnDispatches
  <2>3. d \in Dicts /\ d.step \in 1..Steps
        BY <2>1
  <2>4. StepTold(d) \in Answers
        BY <2>3, IdType DEF StepTold, Told, Answers
  <2>5. answer' \in [Requests -> SUBSET Answers]
        BY <2>2, <2>4
  <2>6. CASE /\ d.step < Steps
             /\ \E a \in Agents : DispatchPipelineStep(r, d.step + 1, a)
             /\ UNCHANGED phase
    <3>1. PICK a \in Agents : DispatchPipelineStep(r, d.step + 1, a)
          BY <2>6
    <3>2. Dict(r, d.step + 1, a) \in Dicts /\ d.step + 1 \in 1..Steps
          BY <2>3, <2>6
    <3>3. alive' = alive /\ phase' = phase
          BY <1>4, <2>6 DEF PipelineGoesOn
    <3>4. AwaitedOwn'
          BY <3>1, <3>2, <3>3 DEF DispatchPipelineStep
    <3> QED
        BY <2>5, <3>1, <3>2, <3>3, <3>4 DEF DispatchPipelineStep, Dispatch
  <2>7. CASE /\ d.step = Steps
             /\ phase' = [phase EXCEPT ![r] = "answered"]
             /\ awaited' = [awaited EXCEPT ![r] = {}]
             /\ UNCHANGED <<presence, centerVars, running, expired, stalled,
                            faults, clears>>
        BY <1>4, <2>5, <2>7 DEF PipelineGoesOn
  <2> QED
      BY <2>2, <2>6, <2>7
<1>5. ASSUME NEW r \in Requests, DeadlinePasses(r)
      PROVE  TypeOK' /\ AwaitedOwn'
      BY <1>5 DEF DeadlinePasses
<1>6. ASSUME NEW a \in Agents, HeardOf(a) \/ GrowsStale(a) \/ GoesOffline(a)
      PROVE  TypeOK' /\ AwaitedOwn'
      BY <1>6 DEF HeardOf, GrowsStale, GoesOffline, PresenceBecomes
<1>7. ASSUME NEW a \in Agents, PurgeAgent(a) \/ RevokeAgent(a)
      PROVE  TypeOK' /\ AwaitedOwn'
      BY <1>7 DEF PurgeAgent, RevokeAgent
<1>8. ASSUME NEW a \in Agents, PollCommands(a) \/ PollLost(a) \/ StopAgent(a)
      PROVE  TypeOK' /\ AwaitedOwn'
      BY <1>8 DEF PollCommands, PollLost, StopAgent
<1>9. ASSUME NEW d \in running, TaskCompletion(d) \/ CompletionAnswerLost(d)
      PROVE  TypeOK' /\ AwaitedOwn'
  <2>1. CompletionHandled(d) /\ d \in Dicts
        BY <1>9 DEF TaskCompletion, CompletionAnswerLost
  <2>2. history' \in Seq(Dicts) /\ Len(history') <= HistoryLimit
        BY <2>1, RecordedType DEF CompletionHandled
  <2>3. results' \in [Ids -> Agents \cup {None}]
        BY <2>1 DEF CompletionHandled
  <2>4. running' \subseteq Dicts /\ faults' \in 0..MaxFaults
        BY <1>9 DEF TaskCompletion, CompletionAnswerLost
  <2> QED
      BY <2>1, <2>2, <2>3, <2>4 DEF CompletionHandled
<1>10. ASSUME ClearTasks
       PROVE  TypeOK' /\ AwaitedOwn'
       BY <1>10 DEF ClearTasks
<1>11. CASE UNCHANGED vars
       BY <1>11 DEF vars
<1>12. ASSUME NEW r \in Requests, NEW wait \in BOOLEAN, RelayReturns(r, wait)
       PROVE  TypeOK' /\ AwaitedOwn'
  <2>1. /\ phase' \in [Requests -> {"new", "relaying", "broadcast",
                                    "pipeline", "answered"}]
        /\ \A q \in Requests : phase'[q] = "pipeline" => alive'[q] # << >>
        BY <1>12 DEF RelayReturns
  <2>2. /\ answer' \in [Requests -> SUBSET Answers]
        /\ awaited' \in [Requests -> SUBSET Dicts]
        BY <1>12 DEF RelayReturns
  <2>3. AwaitedOwn'
        BY <1>12 DEF RelayReturns
  <2> QED
      BY <1>12, <2>1, <2>2, <2>3 DEF RelayReturns
<1>13. ASSUME DashboardStalls
       PROVE  TypeOK' /\ AwaitedOwn'
       BY <1>13 DEF DashboardStalls
<1>14. CASE Next
  <2> HIDE DEF TypeOK, AwaitedOwn
  <2> QED
      BY <1>1, <1>2, <1>3, <1>4, <1>5, <1>6, <1>7, <1>8, <1>9, <1>10, <1>12,
         <1>13, <1>14
      DEF Next
<1> QED
    BY <1>11, <1>14

-----------------------------------------------------------------------------
(* What is sent, and what has completed *)

(* A dispatch of dicts whose ids are not those of completed tasks keeps    *)
(* what has completed done.                                                *)
LEMMA DispatchKeepsDone ==
    ASSUME NEW dicts, CompletedIsDone, Dispatch(dicts),
           \A d \in dicts, e \in completed : d.req = e.req => d.step # e.step
    PROVE  CompletedIsDone'
<1>1. \A d \in dicts, e \in completed : Id(e) # Id(d)
      BY DEF Id
<1> QED
    BY <1>1 DEF Dispatch, CompletedIsDone, HasResult

(* A step keeps everything about having been sent, and results in place.   *)
LEMMA InvStep == RequestInv /\ [Next]_vars => RequestInv'
<1> SUFFICES ASSUME RequestInv, [Next]_vars
             PROVE  RequestInv'
    OBVIOUS
<1>1. TypeOK' /\ AwaitedOwn'
      BY TypeStep DEF RequestInv
<1>2. /\ TypeOK /\ SentEarlier /\ AwaitedOwn /\ CompletedIsDone
      /\ \A d \in Sent : d \in Dicts /\ d.req \in Requests /\ d.step \in 0..Steps
      BY DEF RequestInv, TypeOK, Sent, Dicts
<1> SUFFICES SentEarlier' /\ CompletedIsDone'
    BY <1>1 DEF RequestInv
<1>3. ASSUME NEW r \in Requests, BroadcastTask(r)
      PROVE  SentEarlier' /\ CompletedIsDone'
  <2> DEFINE dicts == {Dict(r, 0, a) : a \in Alive \cup Offline}
  <2>1. Dispatch(dicts) /\ phase[r] = "new"
        BY <1>3 DEF BroadcastTask
  <2>2. \A d \in dicts : d.req = r /\ d.step = 0
        BY DEF Dict
  <2>3. CompletedIsDone'
    <3>1. \A e \in completed : e.req # r
          BY <1>2, <2>1 DEF SentEarlier, Sent
    <3> QED
        BY <1>2, <2>1, <2>2, <3>1, DispatchKeepsDone
  <2>4. /\ phase'[r] = "relaying"
        /\ \A q \in Requests : q # r => /\ phase'[q] = phase[q]
                                       /\ awaited'[q] = awaited[q]
        BY <1>2, <1>3 DEF BroadcastTask, TypeOK
  <2>5. Sent' = Sent \cup dicts
        BY <2>1 DEF Dispatch, Sent
  <2>6. SentEarlier'
        BY <1>2, <2>2, <2>4, <2>5 DEF SentEarlier
  <2> QED
      BY <2>3, <2>6
<1>4. ASSUME NEW r \in Requests, BroadcastAnswered(r)
      PROVE  SentEarlier' /\ CompletedIsDone'
      BY <1>2, <1>4 DEF BroadcastAnswered, SentEarlier, CompletedIsDone, Sent,
                        HasResult, TypeOK, centerVars
<1>5. ASSUME NEW r \in Requests, StartPipeline(r)
      PROVE  SentEarlier' /\ CompletedIsDone'
  <2>1. PICK a \in Agents : DispatchPipelineStep(r, 1, a)
        BY <1>2, <1>5, StartDispatches
  <2> DEFINE dict == Dict(r, 1, a)
  <2>2. /\ Dispatch({dict}) /\ phase[r] = "new"
        /\ awaited' = [awaited EXCEPT ![r] = {dict}]
        /\ phase' = [phase EXCEPT ![r] = "pipeline"]
        BY <1>5, <2>1 DEF StartPipeline, DispatchPipelineStep
  <2>3. dict.req = r /\ dict.step = 1
        BY DEF Dict
  <2>4. \A e \in Sent : e.req # r
        BY <1>2, <2>2 DEF SentEarlier
  <2>5. CompletedIsDone'
    <3>1. \A e \in completed : e.req # r
          BY <2>4 DEF Sent
    <3> QED
        BY <1>2, <2>2, <2>3, <3>1, DispatchKeepsDone
  <2>6. Sent' = Sent \cup {dict}
        BY <2>2 DEF Dispatch, Sent
  <2>7. SentEarlier'
    <3> HIDE DEF dict
    <3> QED
        BY <1>2, <2>2, <2>3, <2>4, <2>6 DEF SentEarlier, TypeOK
  <2> QED
      BY <2>5, <2>7
<1>6. ASSUME NEW r \in Requests, PipelineGoesOn(r)
      PROVE  SentEarlier' /\ CompletedIsDone'
  <2>1. phase[r] = "pipeline"
        BY <1>6 DEF PipelineGoesOn
  <2>2. CASE \E d \in awaited[r] :
                /\ \E a \in Agents : DispatchPipelineStep(r, d.step + 1, a)
                /\ UNCHANGED phase
    <3>1. PICK d \in awaited[r], a \in Agents :
              DispatchPipelineStep(r, d.step + 1, a) /\ UNCHANGED phase
          BY <2>2
    <3> DEFINE dict == Dict(r, d.step + 1, a)
    <3>2. Dispatch({dict}) /\ awaited' = [awaited EXCEPT ![r] = {dict}]
          BY <3>1 DEF DispatchPipelineStep
    <3>3. dict.req = r /\ dict.step = d.step + 1 /\ d.step \in 1..Steps
          BY <1>2, <2>1 DEF Dict, AwaitedOwn
    <3>4. \A e \in Sent : e.req = r => e.step <= d.step
          BY <1>2, <2>1 DEF SentEarlier
    <3>5. CompletedIsDone'
      <4>1. \A e \in completed : dict.req = e.req => dict.step # e.step
            BY <1>2, <3>3, <3>4 DEF Sent
      <4> HIDE DEF dict
      <4> QED
          BY <1>2, <3>2, <4>1, DispatchKeepsDone
    <3>6. Sent' = Sent \cup {dict}
          BY <3>2 DEF Dispatch, Sent
    <3>7. \A e \in Sent : e.req = r => e.step <= dict.step
          BY <1>2, <3>3, <3>4
    <3>8. SentEarlier'
      <4> HIDE DEF dict
      <4> QED
          BY <1>2, <2>1, <3>1, <3>2, <3>3, <3>6, <3>7 DEF SentEarlier, TypeOK
    <3> QED
        BY <3>5, <3>8
  <2>3. CASE /\ phase' = [phase EXCEPT ![r] = "answered"]
             /\ awaited' = [awaited EXCEPT ![r] = {}]
             /\ UNCHANGED <<centerVars, running>>
        BY <1>2, <2>3 DEF SentEarlier, CompletedIsDone, Sent, HasResult, TypeOK,
                          centerVars
  <2> QED
      BY <1>2, <1>6, <2>2, <2>3, GoesOnDispatches
<1>7. ASSUME NEW r \in Requests, DeadlinePasses(r)
      PROVE  SentEarlier' /\ CompletedIsDone'
      BY <1>2, <1>7 DEF DeadlinePasses, SentEarlier, CompletedIsDone, Sent,
                        HasResult, centerVars
<1>8. ASSUME NEW a \in Agents, HeardOf(a) \/ GrowsStale(a) \/ GoesOffline(a)
      PROVE  SentEarlier' /\ CompletedIsDone'
      BY <1>2, <1>8 DEF HeardOf, GrowsStale, GoesOffline, PresenceBecomes, Sent,
                        SentEarlier, CompletedIsDone, HasResult, centerVars,
                        requestVars
<1>9. ASSUME NEW a \in Agents,
             \/ PurgeAgent(a) \/ RevokeAgent(a) \/ PollCommands(a)
             \/ PollLost(a) \/ StopAgent(a)
      PROVE  SentEarlier' /\ CompletedIsDone'
      BY <1>2, <1>9 DEF PurgeAgent, RevokeAgent, PollCommands, PollLost,
                        StopAgent, SentEarlier, CompletedIsDone, Sent, HasResult,
                        centerVars, requestVars
<1>10. ASSUME NEW d \in running, TaskCompletion(d) \/ CompletionAnswerLost(d)
       PROVE  SentEarlier' /\ CompletedIsDone'
  <2>1. CompletionHandled(d) /\ running' \subseteq running
        BY <1>10 DEF TaskCompletion, CompletionAnswerLost
  <2>2. d \in Dicts /\ d.agent \in Agents /\ Id(d) \in Ids
        BY <1>2, IdType DEF Sent, Dicts
  <2>3. \A e \in completed' : e \in Dicts /\ Id(e) \in Ids
        BY <1>2, <2>1, <2>2, IdType DEF CompletionHandled, Sent
  <2>4. results' = [results EXCEPT ![Id(d)] = d.agent]
        /\ results \in [Ids -> Agents \cup {None}]
        BY <1>2, <2>1 DEF CompletionHandled, TypeOK
  <2>5. \A e \in completed' : HasResult(e)'
        BY <1>2, <2>1, <2>2, <2>3, <2>4, RequestAssumption
        DEF CompletionHandled, CompletedIsDone, HasResult
  <2>6. \A e \in completed' : \A q \in queue' : Id(q) # Id(e)
        BY <1>2, <2>1 DEF CompletionHandled, CompletedIsDone
  <2>7. Sent' \subseteq Sent
        BY <2>1 DEF CompletionHandled, Sent
  <2>8. SentEarlier'
        BY <1>2, <2>1, <2>7 DEF CompletionHandled, SentEarlier, requestVars
  <2> QED
      BY <2>5, <2>6, <2>8 DEF CompletedIsDone
<1>11. ASSUME ClearTasks
       PROVE  SentEarlier' /\ CompletedIsDone'
  <2>1. \A d \in completed : Id(d) \in Ids /\ Id(d) \notin {Id(q) : q \in queue}
        BY <1>2, IdType DEF CompletedIsDone, Sent
  <2>2. CompletedIsDone'
        BY <1>2, <1>11, <2>1 DEF ClearTasks, CompletedIsDone, HasResult
  <2>3. SentEarlier'
        BY <1>2, <1>11 DEF ClearTasks, SentEarlier, Sent, requestVars
  <2> QED
      BY <2>2, <2>3
<1>12. ASSUME NEW r \in Requests, NEW wait \in BOOLEAN, RelayReturns(r, wait)
       PROVE  SentEarlier' /\ CompletedIsDone'
  <2>1. /\ phase'[r] \notin {"new", "pipeline"}
        /\ \A q \in Requests : q # r => /\ phase'[q] = phase[q]
                                       /\ awaited'[q] = awaited[q]
        /\ UNCHANGED <<queue, commands, running, completed, results>>
        BY <1>2, <1>12 DEF RelayReturns, TypeOK, centerVars
  <2> QED
      BY <1>2, <2>1 DEF SentEarlier, CompletedIsDone, Sent, HasResult
<1>13. CASE DashboardStalls \/ UNCHANGED vars
       BY <1>2, <1>13 DEF DashboardStalls, vars, SentEarlier, CompletedIsDone,
                          Sent, HasResult, centerVars, requestVars
<1>14. CASE Next
       BY <1>3, <1>4, <1>5, <1>6, <1>7, <1>8, <1>9, <1>10, <1>11, <1>12, <1>13,
          <1>14 DEF Next
<1> QED
    BY <1>13, <1>14

LEMMA InvInit == Init => RequestInv
BY TypeInit DEF Init, RequestInv, SentEarlier, AwaitedOwn, CompletedIsDone, Sent

(* Every state is well typed, whatever agents and operators do while       *)
(* requests wait: the history stays within its limit, and so on.           *)
THEOREM TypeCorrect == Spec => []TypeOK
<1>1. RequestInv => TypeOK
      BY DEF RequestInv
<1> QED
    BY <1>1, InvInit, InvStep, PTL DEF Spec

(* No request is told that a task is in progress, or has timed out, after  *)
(* the center has processed its completion.                                *)
THEOREM NeverDenied == Spec => NoResultDenied
<1> DEFINE Denied == \E r \in Requests : \E told \in answer'[r] \ answer[r] :
                        /\ told.kind \in {"in_progress", "timeout"}
                        /\ Dict(r, told.step, told.agent) \in completed
<1>1. RequestInv /\ [Next]_vars => ~Denied
  <2> SUFFICES ASSUME RequestInv, [Next]_vars, NEW r \in Requests,
                      NEW told \in answer'[r] \ answer[r],
                      told.kind \in {"in_progress", "timeout"},
                      Dict(r, told.step, told.agent) \in completed
               PROVE  FALSE
      OBVIOUS
  <2>1. /\ TypeOK /\ AwaitedOwn /\ \A d \in completed : HasResult(d)
        /\ \A q \in Requests : \A d \in awaited[q] : Dict(q, d.step, d.agent) = d
        BY DEF RequestInv, CompletedIsDone, TypeOK, AwaitedOwn, Dict, Dicts
  <2>2. ASSUME NEW q \in Requests, BroadcastTask(q)
        PROVE  FALSE
        BY <2>1, <2>2 DEF BroadcastTask, TypeOK, Told
  <2>3. ASSUME NEW q \in Requests, BroadcastAnswered(q)
        PROVE  FALSE
    <3>1. r = q /\ told \in {Told(IF HasResult(d) THEN "output"
                                                ELSE "in_progress",
                                 d, NamedAgent(d), results[Id(d)]) :
                                    d \in awaited[q]}
          BY <2>1, <2>3 DEF BroadcastAnswered, TypeOK
    <3>2. PICK d \in awaited[q] :
              /\ told.kind = IF HasResult(d) THEN "output" ELSE "in_progress"
              /\ told.step = d.step /\ told.agent = d.agent
          BY <3>1 DEF Told
    <3> QED
        BY <2>1, <3>1, <3>2
  <2>4. ASSUME NEW q \in Requests, PipelineGoesOn(q)
        PROVE  FALSE
    <3>1. PICK d \in awaited[q] :
              answer' = [answer EXCEPT ![q] = @ \cup {StepTold(d)}]
          BY <2>4 DEF PipelineGoesOn
    <3>2. r = q /\ told = StepTold(d)
          BY <2>1, <3>1 DEF TypeOK
    <3>3. told.kind = "timeout" => ~HasResult(d)
          BY <3>2 DEF StepTold, Told
    <3>4. told.step = d.step /\ told.agent = d.agent /\ told.kind # "in_progress"
          BY <3>2 DEF StepTold, Told
    <3> QED
        BY <2>1, <3>2, <3>3, <3>4
  <2>5. CASE UNCHANGED answer
        BY <2>5
  <2>6. ASSUME NEW q \in Requests, NEW wait \in BOOLEAN, RelayReturns(q, wait)
        PROVE  FALSE
        BY <2>1, <2>6 DEF RelayReturns, TypeOK
  <2> QED
      BY <2>2, <2>3, <2>4, <2>5, <2>6
      DEF Next, vars, requestVars, StartPipeline, DeadlinePasses, HeardOf,
          GrowsStale, GoesOffline, PresenceBecomes, PurgeAgent, RevokeAgent,
          PollCommands, PollLost, StopAgent, TaskCompletion,
          CompletionAnswerLost, CompletionHandled, ClearTasks, DashboardStalls
<1>2. RequestInv /\ [Next]_vars =>
          [\A r \in Requests : \A told \in answer'[r] \ answer[r] :
              told.kind \in {"in_progress", "timeout"} =>
                  Dict(r, told.step, told.agent) \notin completed]_vars
      BY <1>1
<1> QED
    BY <1>2, InvInit, InvStep, PTL DEF Spec, NoResultDenied

-----------------------------------------------------------------------------
(* Whose outputs are told *)

(* A result is that of the agent its id was sent to, and of this task.     *)
ResultIsOwn ==
    \A d \in Dicts : HasResult(d) => results[Id(d)] = d.agent /\ d \in completed

OwnInv == RequestInv /\ ResultIsOwn /\ OutputIsOwn

LEMMA IdInjective ==
    ASSUME DistinctPrefixes, NEW d \in Dicts, NEW e \in Dicts, Id(d) = Id(e)
    PROVE  d = e
<1>1. d.req = e.req /\ d.step = e.step /\ Prefix[d.agent] = Prefix[e.agent]
      BY DEF Id
<1>2. d.agent = e.agent
      BY <1>1 DEF DistinctPrefixes, Dicts
<1> QED
    BY <1>1, <1>2 DEF Dicts

LEMMA OwnInit == Init => OwnInv
<1>1. Init => RequestInv
      BY InvInit
<1>2. Init => ResultIsOwn
      BY IdType DEF Init, ResultIsOwn, HasResult
<1>3. Init => OutputIsOwn
      BY DEF Init, OutputIsOwn
<1> QED
    BY <1>1, <1>2, <1>3 DEF OwnInv

LEMMA OwnStep ==
    ASSUME DistinctPrefixes, OwnInv, [Next]_vars
    PROVE  OwnInv'
<1>1. RequestInv' /\ TypeOK /\ AwaitedOwn
      BY InvStep DEF OwnInv, RequestInv
<1>2. ResultIsOwn /\ OutputIsOwn
      BY DEF OwnInv
<1>3. completed \subseteq completed'
      BY DEF Next, vars, centerVars, BroadcastTask, Dispatch, BroadcastAnswered,
             StartPipeline, DispatchPipelineStep, PipelineGoesOn, DeadlinePasses,
             HeardOf, GrowsStale, GoesOffline, PresenceBecomes, PurgeAgent,
             RevokeAgent, PollCommands, PollLost, StopAgent, TaskCompletion,
             CompletionAnswerLost, CompletionHandled, ClearTasks, RelayReturns,
             DashboardStalls
<1>4. ResultIsOwn'
  <2>1. ASSUME NEW d \in running, CompletionHandled(d)
        PROVE  ResultIsOwn'
    <3>1. d \in Dicts
          BY <1>1, <2>1 DEF TypeOK
    <3>2. results' = [results EXCEPT ![Id(d)] = d.agent]
          /\ completed' = completed \cup {d}
          BY <2>1 DEF CompletionHandled
    <3> SUFFICES ASSUME NEW e \in Dicts, HasResult(e)'
                 PROVE  results'[Id(e)] = e.agent /\ e \in completed'
        BY DEF ResultIsOwn
    <3>3. CASE Id(e) = Id(d)
      <4>1. e = d
            BY <3>1, <3>3, IdInjective
      <4> QED
          BY <1>1, <3>1, <3>2, <4>1, IdType DEF TypeOK
    <3>4. CASE Id(e) # Id(d)
          BY <1>1, <1>2, <3>2, <3>4, IdType DEF ResultIsOwn, HasResult, TypeOK
    <3> QED
        BY <3>3, <3>4
  <2>2. CASE ClearTasks
        BY <1>2, <2>2, IdType DEF ClearTasks, ResultIsOwn, HasResult
  <2>3. CASE UNCHANGED <<results, completed>>
        BY <1>2, <2>3 DEF ResultIsOwn, HasResult
  <2> QED
      BY <2>1, <2>2, <2>3
      DEF Next, vars, centerVars, BroadcastTask, Dispatch, BroadcastAnswered,
          StartPipeline, DispatchPipelineStep, PipelineGoesOn, DeadlinePasses,
          HeardOf, GrowsStale, GoesOffline, PresenceBecomes, PurgeAgent,
          RevokeAgent, PollCommands, PollLost, StopAgent, TaskCompletion,
          CompletionAnswerLost, RelayReturns, DashboardStalls
<1>5. OutputIsOwn'
  <2>1. \A r \in Requests : \A d \in awaited[r] :
            d \in Dicts /\ Dict(r, d.step, d.agent) = d
        BY <1>1 DEF TypeOK, AwaitedOwn, Dict, Dicts
  <2> SUFFICES ASSUME NEW r \in Requests, NEW told \in answer'[r],
                      told.kind = "output"
               PROVE  /\ told.by = told.agent
                      /\ Dict(r, told.step, told.agent) \in completed'
      BY DEF OutputIsOwn
  <2>2. CASE told \in answer[r]
        BY <1>2, <1>3, <2>2 DEF OutputIsOwn
  <2>3. CASE \E d \in awaited[r] :
                /\ HasResult(d) /\ told.by = results[Id(d)]
                /\ told.step = d.step /\ told.agent = d.agent
        BY <1>2, <1>3, <2>1, <2>3 DEF ResultIsOwn
  <2>4. ASSUME NEW q \in Requests,
               \/ BroadcastTask(q)
               \/ \E wait \in BOOLEAN : RelayReturns(q, wait)
        PROVE  told \in answer[r]
        BY <1>1, <2>4 DEF BroadcastTask, RelayReturns, TypeOK, Told
  <2>5. ASSUME NEW q \in Requests, BroadcastAnswered(q), told \notin answer[r]
        PROVE  \E d \in awaited[r] :
                  /\ HasResult(d) /\ told.by = results[Id(d)]
                  /\ told.step = d.step /\ told.agent = d.agent
    <3>1. r = q /\ told \in {Told(IF HasResult(d) THEN "output"
                                                ELSE "in_progress",
                                 d, NamedAgent(d), results[Id(d)]) :
                                    d \in awaited[q]}
          BY <1>1, <2>5 DEF BroadcastAnswered, TypeOK
    <3> QED
        BY <3>1 DEF Told
  <2>6. ASSUME NEW q \in Requests, PipelineGoesOn(q), told \notin answer[r]
        PROVE  \E d \in awaited[r] :
                  /\ HasResult(d) /\ told.by = results[Id(d)]
                  /\ told.step = d.step /\ told.agent = d.agent
    <3>1. PICK d \in awaited[q] :
              answer' = [answer EXCEPT ![q] = @ \cup {StepTold(d)}]
          BY <2>6 DEF PipelineGoesOn
    <3>2. r = q /\ told = StepTold(d)
          BY <1>1, <2>6, <3>1 DEF TypeOK
    <3> QED
        BY <3>1, <3>2 DEF StepTold, Told
  <2>7. CASE UNCHANGED answer
        BY <2>2, <2>7
  <2> QED
      BY <2>2, <2>3, <2>4, <2>5, <2>6, <2>7
      DEF Next, vars, requestVars, StartPipeline, DeadlinePasses, HeardOf,
          GrowsStale, GoesOffline, PresenceBecomes, PurgeAgent, RevokeAgent,
          PollCommands, PollLost, StopAgent, TaskCompletion,
          CompletionAnswerLost, CompletionHandled, ClearTasks, DashboardStalls
<1> QED
    BY <1>1, <1>4, <1>5 DEF OwnInv

(* An output a request is told for a step and an agent was computed by     *)
(* that agent, for that step of that request, however many requests wait   *)
(* at once: their results do not mix.                                      *)
THEOREM OutputsAreOwn ==
    ASSUME DistinctPrefixes
    PROVE  Spec => []OutputIsOwn
<1>1. OwnInv /\ [Next]_vars => OwnInv'
      BY OwnStep
<1>2. OwnInv => OutputIsOwn
      BY DEF OwnInv
<1> QED
    BY <1>1, <1>2, OwnInit, PTL DEF Spec

(* An answer names the agent of a task, or nobody once the task has left   *)
(* the queue and the history.                                              *)
THEOREM AnswersNameTheirAgent ==
    ASSUME DistinctPrefixes
    PROVE  Spec => AnswerNamesAgent
<1> DEFINE Named(r, told) ==
        LET d == Dict(r, told.step, told.agent)
        IN \/ told.named = d.agent
           \/ /\ told.named = None
              /\ d \notin queue
              /\ \A i \in DOMAIN history : history[i] # d
<1>1. ASSUME RequestInv, [Next]_vars, NEW r \in Requests,
             NEW told \in answer'[r] \ answer[r]
      PROVE  Named(r, told)
  <2>1. /\ TypeOK
        /\ \A q \in Requests : \A d \in awaited[q] :
              d \in Dicts /\ Dict(q, d.step, d.agent) = d
        BY <1>1 DEF RequestInv, TypeOK, AwaitedOwn, Dict, Dicts
  <2>2. ASSUME NEW q \in Requests, BroadcastTask(q)
        PROVE  Named(r, told)
    <3>1. told \in {Told("queued", Dict(q, 0, a), a, None) : a \in Offline}
          BY <1>1, <2>1, <2>2 DEF BroadcastTask, TypeOK
    <3>2. told.named = told.agent
          BY <3>1 DEF Told, Dict
    <3> QED
        BY <3>2 DEF Dict
  <2>3. ASSUME NEW q \in Requests, BroadcastAnswered(q)
        PROVE  Named(r, told)
    <3>1. r = q /\ told \in {Told(IF HasResult(d) THEN "output"
                                                ELSE "in_progress",
                                 d, NamedAgent(d), results[Id(d)]) :
                                    d \in awaited[q]}
          BY <1>1, <2>1, <2>3 DEF BroadcastAnswered, TypeOK
    <3>2. PICK d \in awaited[q] :
              /\ told.named = NamedAgent(d)
              /\ told.step = d.step /\ told.agent = d.agent
          BY <3>1 DEF Told
    <3>3. /\ \A e \in queue : e \in Dicts
          /\ \A i \in DOMAIN history : history[i] \in Dicts
          BY <2>1, NamedAgentType DEF TypeOK
    <3>4. \A e \in Dicts : Id(e) = Id(d) => e = d
          BY <2>1, IdInjective
    <3>5. \/ NamedAgent(d) = d.agent
          \/ /\ NamedAgent(d) = None
             /\ d \notin queue
             /\ \A i \in DOMAIN history : history[i] # d
          BY <2>1, <3>3, <3>4, NamedAgentIs
    <3> QED
        BY <2>1, <3>1, <3>2, <3>5
  <2>4. ASSUME NEW q \in Requests, PipelineGoesOn(q)
        PROVE  Named(r, told)
    <3>1. PICK d \in awaited[q] :
              answer' = [answer EXCEPT ![q] = @ \cup {StepTold(d)}]
          BY <2>4 DEF PipelineGoesOn
    <3>2. told = StepTold(d)
          BY <1>1, <2>1, <3>1 DEF TypeOK
    <3> QED
        BY <3>2 DEF StepTold, Told, Dict
  <2>5. CASE UNCHANGED answer
        BY <1>1, <2>5
  <2>6. ASSUME NEW q \in Requests, NEW wait \in BOOLEAN, RelayReturns(q, wait)
        PROVE  Named(r, told)
        BY <1>1, <2>1, <2>6 DEF RelayReturns, TypeOK
  <2> QED
      BY <1>1, <2>2, <2>3, <2>4, <2>5, <2>6
      DEF Next, vars, requestVars, StartPipeline, DeadlinePasses, HeardOf,
          GrowsStale, GoesOffline, PresenceBecomes, PurgeAgent, RevokeAgent,
          PollCommands, PollLost, StopAgent, TaskCompletion,
          CompletionAnswerLost, CompletionHandled, ClearTasks, DashboardStalls
<1>2. RequestInv /\ [Next]_vars =>
          [\A r \in Requests : \A told \in answer'[r] \ answer[r] :
              LET d == Dict(r, told.step, told.agent)
              IN \/ told.named = d.agent
                 \/ /\ told.named = None
                    /\ d \notin queue
                    /\ \A i \in DOMAIN history : history[i] # d]_vars
      BY <1>1
<1> QED
    BY <1>2, InvInit, InvStep, PTL DEF Spec, AnswerNamesAgent

-----------------------------------------------------------------------------
(* The steps of a pipeline are in order *)

StepDicts(r) == {d \in queue : d.req = r /\ d.step > 0}
Timeouts(r) == {told \in answer[r] : told.kind = "timeout"}

(* The answer has been told of a step. *)
TellsOf(r, i) == \E told \in answer[r] : told.step = i

(* What is queued has no result, and every result is of a completed task.  *)
ResultsMean ==
    /\ \A d \in queue : results[Id(d)] = None
    /\ \A id \in Ids : results[id] # None => \E e \in completed : Id(e) = id

(* A pipeline waits for one task, and nothing else waits for a step.       *)
OneAwaited ==
    \A r \in Requests :
        /\ phase[r] = "pipeline" => \A d, e \in awaited[r] : d = e
        /\ phase[r] # "pipeline" => \A d \in awaited[r] : d.step = 0

(* A queued task of a step that is over has timed out. *)
StepsTold ==
    \A r \in Requests : \A d \in StepDicts(r) :
        d \in awaited[r] \/ \E told \in Timeouts(r) : told.step = d.step

(* Of whatever is about of a step, all steps before it have been told of;  *)
(* nothing is about of a step while a broadcast relays its update.         *)
ReachedOf(r) ==
    \A e \in Sent \cup awaited[r] :
        e.req = r =>
            /\ phase[r] = "relaying" => e.step = 0
            /\ \A i \in 1..Steps : i < e.step => TellsOf(r, i)

StepsReached == \A r \in Requests : ReachedOf(r)

StepInv == ResultsMean /\ OneAwaited /\ StepsTold /\ StepsReached

(* Dicts of steps that nothing has been sent of have no result yet.        *)
LEMMA DispatchMeans ==
    ASSUME TypeOK, ResultsMean, NEW dicts \in SUBSET Dicts, Dispatch(dicts),
           \A d \in dicts, e \in Sent : e.req = d.req => e.step # d.step
    PROVE  ResultsMean'
<1>1. \A d \in dicts : results[Id(d)] = None
  <2> SUFFICES ASSUME NEW d \in dicts, results[Id(d)] # None PROVE FALSE
      OBVIOUS
  <2>1. PICK e \in completed : Id(e) = Id(d)
        BY IdType DEF ResultsMean
  <2>2. e \in Sent /\ e.req = d.req /\ e.step = d.step
        BY <2>1 DEF Sent, Id
  <2> QED
      BY <2>2
<1> QED
    BY <1>1 DEF ResultsMean, Dispatch

(* Tasks may disappear while requests stay as they are.                    *)
LEMMA TasksGo ==
    ASSUME OneAwaited, StepsTold, StepsReached, Sent' \subseteq Sent,
           queue' \subseteq queue, awaited' = awaited, phase' = phase,
           answer' = answer
    PROVE  OneAwaited' /\ StepsTold' /\ StepsReached'
<1>1. \A r \in Requests : /\ StepDicts(r)' \subseteq StepDicts(r)
                          /\ Timeouts(r)' = Timeouts(r)
      BY DEF StepDicts, Timeouts
<1>2. OneAwaited' /\ StepsTold'
      BY <1>1 DEF OneAwaited, StepsTold
<1>3. StepsReached'
      BY DEF StepsReached, ReachedOf, TellsOf
<1> QED
    BY <1>2, <1>3

(* The other requests keep what they wait for and what they were told, and *)
(* nothing is sent of them.                                                *)
LEMMA OthersKeep ==
    ASSUME OneAwaited, StepsTold, StepsReached, NEW r \in Requests,
           \A q \in Requests \ {r} :
               /\ awaited'[q] = awaited[q] /\ phase'[q] = phase[q]
               /\ answer'[q] = answer[q],
           \A e \in Sent' : e \in Sent \/ e.req = r,
           phase'[r] = "pipeline" => \A d, e \in awaited'[r] : d = e,
           phase'[r] # "pipeline" => \A d \in awaited'[r] : d.step = 0,
           \A q \in Requests \ {r} : StepDicts(q)' \subseteq StepDicts(q),
           \A d \in StepDicts(r)' :
               d \in awaited'[r] \/ \E told \in Timeouts(r)' : told.step = d.step,
           ReachedOf(r)'
    PROVE  OneAwaited' /\ StepsTold' /\ StepsReached'
<1>1. \A q \in Requests \ {r} : Timeouts(q)' = Timeouts(q)
      BY DEF Timeouts
<1>2. OneAwaited'
      BY DEF OneAwaited
<1>3. StepsTold'
      BY <1>1 DEF StepsTold
<1>4. ASSUME NEW q \in Requests \ {r} PROVE ReachedOf(q)'
  <2>1. \A e \in Sent' \cup awaited'[q] : e.req = q => e \in Sent \cup awaited[q]
        OBVIOUS
  <2>2. \A i : TellsOf(q, i)' <=> TellsOf(q, i)
        BY DEF TellsOf
  <2> QED
      BY <2>1, <2>2 DEF StepsReached, ReachedOf
<1> QED
    BY <1>2, <1>3, <1>4 DEF StepsReached

LEMMA StepsBroadcast ==
    ASSUME RequestInv, StepInv, NEW r \in Requests, BroadcastTask(r)
    PROVE  StepInv'
<1> DEFINE dicts == {Dict(r, 0, a) : a \in Alive \cup Offline}
<1>0. /\ TypeOK /\ SentEarlier
      /\ ResultsMean /\ OneAwaited /\ StepsTold /\ StepsReached
      BY DEF RequestInv, StepInv
<1>1. Dispatch(dicts) /\ phase[r] = "new"
      BY DEF BroadcastTask
<1>2. dicts \in SUBSET Dicts /\ \A d \in dicts : d.req = r /\ d.step = 0
      BY RequestAssumption DEF Dict, Dicts, Alive, Offline
<1>3. \A e \in Sent : e.req # r
      BY <1>0, <1>1 DEF SentEarlier
<1>4. ResultsMean'
      BY <1>0, <1>1, <1>2, <1>3, DispatchMeans
<1>5. /\ phase'[r] = "relaying"
      /\ \A q \in Requests \ {r} : /\ awaited'[q] = awaited[q]
                                   /\ phase'[q] = phase[q]
                                   /\ answer'[q] = answer[q]
      BY <1>0 DEF BroadcastTask, TypeOK
<1>6. \A d \in awaited'[r] : d.step = 0
      BY <1>0 DEF BroadcastTask, TypeOK, Dict
<1>7. Sent' = Sent \cup dicts
      BY <1>1 DEF Dispatch, Sent
<1>8. \A q \in Requests : StepDicts(q)' = StepDicts(q)
      BY <1>1, <1>2 DEF Dispatch, StepDicts
<1>9. StepDicts(r) = {}
      BY <1>3 DEF StepDicts, Sent
<1> HIDE DEF dicts
<1>10. ReachedOf(r)'
  <2>1. \A e \in Sent' \cup awaited'[r] : e.req = r => e.step = 0
        BY <1>2, <1>3, <1>6, <1>7
  <2>2. \A i \in 1..Steps : ~(i < 0)
        BY RequestAssumption
  <2> QED
      BY <2>1, <2>2 DEF ReachedOf
<1>11. OneAwaited' /\ StepsTold' /\ StepsReached'
  <2>1. \A e \in Sent' : e \in Sent \/ e.req = r
        BY <1>2, <1>7
  <2> QED
      BY <1>0, <1>5, <1>6, <1>8, <1>9, <1>10, <2>1, OthersKeep
<1> QED
    BY <1>4, <1>11 DEF StepInv

(* What a broadcast that does not wait forgets is of no step. *)
LEMMA StepsRelay ==
    ASSUME RequestInv, StepInv, NEW r \in Requests, NEW wait \in BOOLEAN,
           RelayReturns(r, wait)
    PROVE  StepInv'
<1>0. TypeOK /\ ResultsMean /\ OneAwaited /\ StepsTold /\ StepsReached
      BY DEF RequestInv, StepInv
<1>1. ResultsMean'
      BY <1>0 DEF RelayReturns, centerVars, ResultsMean
<1>2. /\ phase[r] = "relaying" /\ phase'[r] \in {"broadcast", "answered"}
      /\ awaited'[r] \subseteq awaited[r]
      /\ \A q \in Requests \ {r} : /\ awaited'[q] = awaited[q]
                                   /\ phase'[q] = phase[q]
                                   /\ answer'[q] = answer[q]
      BY <1>0 DEF RelayReturns, TypeOK
<1>3. Sent' = Sent /\ \A q \in Requests : StepDicts(q)' = StepDicts(q)
      BY DEF RelayReturns, centerVars, Sent, StepDicts
<1>4. \A e \in Sent \cup awaited[r] : e.req = r => e.step = 0
      BY <1>0, <1>2 DEF StepsReached, ReachedOf
<1>5. StepDicts(r) = {}
      BY <1>4 DEF StepDicts, Sent
<1>6. ReachedOf(r)'
  <2>1. \A i \in 1..Steps : ~(i < 0)
        BY RequestAssumption
  <2> QED
      BY <1>2, <1>3, <1>4, <2>1 DEF ReachedOf
<1>7. \A d \in awaited'[r] : d.step = 0
      BY <1>0, <1>2 DEF OneAwaited
<1>8. OneAwaited' /\ StepsTold' /\ StepsReached'
      BY <1>0, <1>2, <1>3, <1>5, <1>6, <1>7, OthersKeep
<1> QED
    BY <1>1, <1>8 DEF StepInv

LEMMA StepsAnswered ==
    ASSUME RequestInv, StepInv, NEW r \in Requests, BroadcastAnswered(r)
    PROVE  StepInv'
<1>0. TypeOK /\ ResultsMean /\ OneAwaited /\ StepsTold /\ StepsReached
      BY DEF RequestInv, StepInv
<1>1. ResultsMean'
      BY <1>0 DEF BroadcastAnswered, centerVars, ResultsMean
<1>2. /\ phase[r] = "broadcast" /\ phase'[r] = "answered" /\ awaited'[r] = {}
      /\ \A q \in Requests \ {r} : /\ awaited'[q] = awaited[q]
                                   /\ phase'[q] = phase[q]
                                   /\ answer'[q] = answer[q]
      BY <1>0 DEF BroadcastAnswered, TypeOK
<1>3. Sent' = Sent /\ \A q \in Requests : StepDicts(q)' = StepDicts(q)
      BY DEF BroadcastAnswered, centerVars, Sent, StepDicts
<1>4. answer[r] \subseteq answer'[r]
      BY <1>0 DEF BroadcastAnswered, TypeOK
<1>5. \A d \in StepDicts(r) : d \notin awaited[r]
      BY <1>0, <1>2 DEF OneAwaited, StepDicts
<1>6. \A d \in StepDicts(r)' : \E told \in Timeouts(r)' : told.step = d.step
      BY <1>0, <1>3, <1>4, <1>5 DEF StepsTold, Timeouts
<1>7. ReachedOf(r)'
      BY <1>0, <1>2, <1>3, <1>4 DEF StepsReached, ReachedOf, TellsOf
<1>8. OneAwaited' /\ StepsTold' /\ StepsReached'
      BY <1>0, <1>2, <1>3, <1>6, <1>7, OthersKeep
<1> QED
    BY <1>1, <1>8 DEF StepInv

LEMMA StepsStart ==
    ASSUME RequestInv, StepInv, NEW r \in Requests, StartPipeline(r)
    PROVE  StepInv'
<1>0. /\ TypeOK /\ SentEarlier
      /\ ResultsMean /\ OneAwaited /\ StepsTold /\ StepsReached
      BY DEF RequestInv, StepInv
<1>1. PICK a \in Agents : DispatchPipelineStep(r, 1, a)
      BY <1>0, StartDispatches
<1> DEFINE dict == Dict(r, 1, a)
<1>2. dict \in Dicts /\ dict.req = r /\ dict.step = 1
      BY RequestAssumption DEF Dict, Dicts
<1>3. /\ Dispatch({dict})
      /\ phase[r] = "new" /\ phase'[r] = "pipeline" /\ awaited'[r] = {dict}
      /\ \A q \in Requests \ {r} : /\ awaited'[q] = awaited[q]
                                   /\ phase'[q] = phase[q]
      /\ answer' = answer
      BY <1>0, <1>1 DEF StartPipeline, DispatchPipelineStep, TypeOK
<1> HIDE DEF dict
<1>4. \A e \in Sent : e.req # r
      BY <1>0, <1>3 DEF SentEarlier
<1>5. ResultsMean'
      BY <1>0, <1>2, <1>3, <1>4, DispatchMeans
<1>6. /\ StepDicts(r)' = {dict}
      /\ \A q \in Requests \ {r} : StepDicts(q)' = StepDicts(q)
      BY <1>2, <1>3, <1>4 DEF Dispatch, StepDicts, Sent
<1>7. Sent' = Sent \cup {dict}
      BY <1>3 DEF Dispatch, Sent
<1>8. ReachedOf(r)'
  <2>1. \A e \in Sent' \cup awaited'[r] : e.req = r => e.step = 1
        BY <1>2, <1>3, <1>4, <1>7
  <2>2. \A i \in 1..Steps : ~(i < 1)
        BY RequestAssumption
  <2> QED
      BY <1>3, <2>1, <2>2 DEF ReachedOf
<1>9. OneAwaited' /\ StepsTold' /\ StepsReached'
  <2>1. \A e \in Sent' : e \in Sent \/ e.req = r
        BY <1>2, <1>7
  <2> QED
      BY <1>0, <1>3, <1>6, <1>8, <2>1, OthersKeep
<1> QED
    BY <1>5, <1>9 DEF StepInv

LEMMA StepsGoOn ==
    ASSUME RequestInv, StepInv, NEW r \in Requests, PipelineGoesOn(r)
    PROVE  StepInv'
<1>0. /\ TypeOK /\ SentEarlier /\ AwaitedOwn
      /\ ResultsMean /\ OneAwaited /\ StepsTold /\ StepsReached
      BY DEF RequestInv, StepInv
<1>1. phase[r] = "pipeline"
      BY DEF PipelineGoesOn
<1>2. PICK d \in awaited[r] :
          /\ answer' = [answer EXCEPT ![r] = @ \cup {StepTold(d)}]
          /\ \/ /\ \E a \in Agents : DispatchPipelineStep(r, d.step + 1, a)
                /\ d.step < Steps /\ UNCHANGED phase
             \/ /\ phase' = [phase EXCEPT ![r] = "answered"]
                /\ awaited' = [awaited EXCEPT ![r] = {}]
                /\ UNCHANGED <<centerVars, running>>
      BY <1>0, GoesOnDispatches
<1>3. d.step \in 1..Steps /\ d.req = r
      BY <1>0, <1>1 DEF AwaitedOwn
<1>4. /\ answer'[r] = answer[r] \cup {StepTold(d)}
      /\ \A q \in Requests \ {r} : answer'[q] = answer[q]
      BY <1>0, <1>2 DEF TypeOK
<1>5. Timeouts(r) \subseteq Timeouts(r)'
      BY <1>4 DEF Timeouts
<1>6. /\ \A i : TellsOf(r, i) => TellsOf(r, i)'
      /\ TellsOf(r, d.step)'
  <2>1. StepTold(d).step = d.step /\ StepTold(d) \in answer'[r]
        BY <1>4 DEF StepTold, Told
  <2>2. answer[r] \subseteq answer'[r]
        BY <1>4
  <2> QED
      BY <2>1, <2>2 DEF TellsOf
<1>7. ASSUME NEW e \in StepDicts(r)
      PROVE  \E told \in Timeouts(r)' : told.step = e.step
  <2>1. CASE e \in awaited[r]
    <3>1. e = d /\ ~HasResult(d)
          BY <1>0, <1>1, <1>7, <2>1
          DEF OneAwaited, ResultsMean, StepDicts, HasResult
    <3>2. StepTold(d).kind = "timeout" /\ StepTold(d).step = d.step
          BY <3>1 DEF StepTold, Told
    <3> QED
        BY <1>4, <3>1, <3>2 DEF Timeouts
  <2>2. CASE e \notin awaited[r]
        BY <1>0, <1>5, <1>7, <2>2 DEF StepsTold
  <2> QED
      BY <2>1, <2>2
<1>8. \A i \in 1..Steps : i < d.step => TellsOf(r, i)
      BY <1>0, <1>3 DEF StepsReached, ReachedOf
<1>9. CASE /\ \E a \in Agents : DispatchPipelineStep(r, d.step + 1, a)
           /\ d.step < Steps /\ UNCHANGED phase
  <2>1. PICK a \in Agents : DispatchPipelineStep(r, d.step + 1, a)
        BY <1>9
  <2> DEFINE dict == Dict(r, d.step + 1, a)
  <2>2. dict \in Dicts /\ dict.req = r /\ dict.step = d.step + 1
        BY <1>0, <1>3, <1>9, RequestAssumption DEF Dict, Dicts
  <2>3. /\ Dispatch({dict}) /\ awaited'[r] = {dict}
        /\ \A q \in Requests \ {r} : awaited'[q] = awaited[q]
        /\ phase' = phase
        BY <1>0, <1>9, <2>1 DEF DispatchPipelineStep, TypeOK
  <2> HIDE DEF dict
  <2>4. \A e \in Sent : e.req = r => e.step <= d.step /\ e.step \in Nat
        BY <1>0, <1>1, RequestAssumption DEF SentEarlier, TypeOK, Sent, Dicts
  <2>5. \A e \in Sent : e.req = r => e.step # dict.step
        BY <1>3, <2>2, <2>4
  <2>6. ResultsMean'
        BY <1>0, <2>2, <2>3, <2>5, DispatchMeans
  <2>7. /\ StepDicts(r)' \subseteq StepDicts(r) \cup {dict}
        /\ \A q \in Requests \ {r} : StepDicts(q)' = StepDicts(q)
        BY <1>3, <2>2, <2>3 DEF Dispatch, StepDicts
  <2>8. Sent' = Sent \cup {dict}
        BY <2>3 DEF Dispatch, Sent
  <2>9. ReachedOf(r)'
    <3>1. \A i \in 1..Steps : i < dict.step => TellsOf(r, i)'
          BY <1>3, <1>6, <1>8, <2>2, RequestAssumption
    <3>2. \A e \in Sent' \cup awaited'[r] :
              e.req = r => e \in Sent \/ e = dict
          BY <2>3, <2>8
    <3>3. \A e \in Sent : e.req = r =>
              \A i \in 1..Steps : i < e.step => TellsOf(r, i)'
          BY <1>0, <1>6 DEF StepsReached, ReachedOf
    <3>4. phase'[r] # "relaying"
          BY <1>1, <2>3
    <3> QED
        BY <3>1, <3>2, <3>3, <3>4 DEF ReachedOf
  <2>10. OneAwaited' /\ StepsTold' /\ StepsReached'
    <3>1. \A e \in Sent' : e \in Sent \/ e.req = r
          BY <2>2, <2>8
    <3> QED
        BY <1>0, <1>1, <1>4, <1>7, <2>3, <2>7, <2>9, <3>1, OthersKeep
  <2> QED
      BY <2>6, <2>10 DEF StepInv
<1>10. CASE /\ phase' = [phase EXCEPT ![r] = "answered"]
            /\ awaited' = [awaited EXCEPT ![r] = {}]
            /\ UNCHANGED <<centerVars, running>>
  <2>1. /\ phase'[r] = "answered" /\ awaited'[r] = {}
        /\ \A q \in Requests \ {r} : /\ awaited'[q] = awaited[q]
                                     /\ phase'[q] = phase[q]
        BY <1>0, <1>10 DEF TypeOK
  <2>2. ResultsMean'
        BY <1>0, <1>10 DEF centerVars, ResultsMean
  <2>3. Sent' = Sent /\ \A q \in Requests : StepDicts(q)' = StepDicts(q)
        BY <1>10 DEF centerVars, Sent, StepDicts
  <2>4. ReachedOf(r)'
        BY <1>0, <1>6, <2>1, <2>3 DEF StepsReached, ReachedOf
  <2>5. OneAwaited' /\ StepsTold' /\ StepsReached'
        BY <1>0, <1>4, <1>7, <2>1, <2>3, <2>4, OthersKeep
  <2> QED
      BY <2>2, <2>5 DEF StepInv
<1> QED
    BY <1>2, <1>9, <1>10

(* Nobody else does anything to a request but take its tasks.              *)
LEMMA StepsElse ==
    ASSUME RequestInv, StepInv,
           \/ \E r \in Requests : DeadlinePasses(r)
           \/ \E a \in Agents :
                 \/ HeardOf(a) \/ GrowsStale(a) \/ GoesOffline(a)
                 \/ PurgeAgent(a) \/ RevokeAgent(a)
                 \/ PollCommands(a) \/ PollLost(a) \/ StopAgent(a)
           \/ \E d \in running : TaskCompletion(d) \/ CompletionAnswerLost(d)
           \/ ClearTasks
           \/ DashboardStalls
           \/ UNCHANGED vars
    PROVE  StepInv'
<1>0. TypeOK /\ ResultsMean /\ OneAwaited /\ StepsTold /\ StepsReached
      BY DEF RequestInv, StepInv
<1> SUFFICES /\ ResultsMean' /\ queue' \subseteq queue /\ Sent' \subseteq Sent
             /\ awaited' = awaited /\ phase' = phase /\ answer' = answer
    BY <1>0, TasksGo DEF StepInv
<1>1. CASE \/ \E r \in Requests : DeadlinePasses(r)
           \/ \E a \in Agents :
                 \/ HeardOf(a) \/ GrowsStale(a) \/ GoesOffline(a)
                 \/ PurgeAgent(a) \/ RevokeAgent(a)
                 \/ PollCommands(a) \/ PollLost(a) \/ StopAgent(a)
           \/ DashboardStalls
           \/ UNCHANGED vars
  <2>1. /\ results' = results /\ completed' = completed
        /\ queue' \subseteq queue /\ Sent' \subseteq Sent
        /\ awaited' = awaited /\ phase' = phase /\ answer' = answer
        BY <1>1 DEF DeadlinePasses, HeardOf, GrowsStale, GoesOffline,
                    PresenceBecomes, PurgeAgent, RevokeAgent, PollCommands,
                    PollLost, StopAgent, DashboardStalls, vars, centerVars,
                    requestVars, Sent
  <2> QED
      BY <1>0, <2>1 DEF ResultsMean
<1>2. CASE \E d \in running : TaskCompletion(d) \/ CompletionAnswerLost(d)
  <2>1. PICK d \in running : CompletionHandled(d) /\ running' \subseteq running
        BY <1>2 DEF TaskCompletion, CompletionAnswerLost
  <2>2. /\ results' = [results EXCEPT ![Id(d)] = d.agent]
        /\ queue' = {q \in queue : Id(q) # Id(d)}
        /\ completed' = completed \cup {d} /\ commands' = commands
        /\ awaited' = awaited /\ phase' = phase /\ answer' = answer
        BY <2>1 DEF CompletionHandled, requestVars
  <2>3. results \in [Ids -> Agents \cup {None}] /\ \A q \in queue : Id(q) \in Ids
        BY <1>0, IdType DEF TypeOK
  <2>4. \A q \in queue' : results'[Id(q)] = None
        BY <1>0, <2>2, <2>3 DEF ResultsMean
  <2>5. \A id \in Ids :
            results'[id] # None => \E e \in completed' : Id(e) = id
        BY <1>0, <2>2, <2>3 DEF ResultsMean
  <2>6. Sent' \subseteq Sent
        BY <2>1, <2>2 DEF Sent
  <2> QED
      BY <2>2, <2>4, <2>5, <2>6 DEF ResultsMean
<1>3. CASE ClearTasks
  <2>1. /\ queue' = {} /\ completed' = completed /\ running' = running
        /\ commands' \subseteq commands
        /\ \A id \in Ids : results'[id] \in {None, results[id]}
        /\ awaited' = awaited /\ phase' = phase /\ answer' = answer
        BY <1>3 DEF ClearTasks, requestVars
  <2> QED
      BY <1>0, <2>1 DEF ResultsMean, Sent
<1> QED
    BY <1>1, <1>2, <1>3

LEMMA StepsNext == RequestInv /\ StepInv /\ [Next]_vars => StepInv'
BY StepsBroadcast, StepsRelay, StepsAnswered, StepsStart, StepsGoOn, StepsElse
DEF Next

(* Of a step of an earlier group than that of a task which is about, the   *)
(* answer has been told, and what is still queued of it has timed out.     *)
LEMMA EarlierStepsAreOver ==
    ASSUME RequestInv, StepInv, NEW r \in Requests,
           NEW e \in queue \cup commands \cup running, NEW i \in 1..Steps,
           e.req = r, e.step > 0, Group[i] < Group[e.step]
    PROVE  \E told \in answer[r] :
              /\ told.step = i
              /\ \/ told.kind = "timeout"
                 \/ \A d \in queue : d.req = r => d.step # i
<1>0. TypeOK /\ SentEarlier /\ OneAwaited /\ StepsTold /\ StepsReached
      BY DEF RequestInv, StepInv
<1>1. e \in Sent /\ e.step \in 1..Steps
      BY <1>0, RequestAssumption DEF Sent, TypeOK, Dicts
<1>2. i < e.step
  <2>1. ~(e.step <= i)
    <3> SUFFICES ASSUME e.step <= i PROVE FALSE
        OBVIOUS
    <3>1. Group[e.step] <= Group[i]
          BY <1>1, RequestAssumption
    <3>2. Group[e.step] \in Nat /\ Group[i] \in Nat
          BY <1>1, RequestAssumption
    <3> QED
        BY <3>1, <3>2
  <2> QED
      BY <1>1, <2>1, RequestAssumption
<1>3. PICK first \in answer[r] : first.step = i
      BY <1>0, <1>1, <1>2 DEF StepsReached, ReachedOf, TellsOf
<1>4. CASE \A d \in queue : d.req = r => d.step # i
      BY <1>3, <1>4
<1>5. ASSUME NEW d \in queue, d.req = r, d.step = i
      PROVE  \E told \in answer[r] : told.step = i /\ told.kind = "timeout"
  <2>1. d \in StepDicts(r)
        BY <1>5, RequestAssumption DEF StepDicts
  <2>2. d \notin awaited[r]
    <3> SUFFICES ASSUME d \in awaited[r] PROVE FALSE
        OBVIOUS
    <3>1. phase[r] = "pipeline"
          BY <1>0, <1>5, RequestAssumption DEF OneAwaited
    <3>2. e.step <= d.step
          BY <1>0, <1>1, <3>1 DEF SentEarlier
    <3> QED
        BY <1>1, <1>2, <1>5, <3>2, RequestAssumption
  <2> QED
      BY <1>0, <1>5, <2>1, <2>2 DEF StepsTold, Timeouts
<1> QED
    BY <1>4, <1>5

(* While a task of a step of a pipeline is about, every step of an earlier *)
(* group is over: for any number of requests, steps and agents, however    *)
(* steps are grouped, whatever the characters agent ids begin with.        *)
THEOREM StepsAreInOrder == Spec => []StepsInOrder
<1>1. Init => StepInv
  <2> SUFFICES ASSUME Init PROVE StepInv
      OBVIOUS
  <2>1. \A r \in Requests : StepDicts(r) = {} /\ awaited[r] = {}
        BY DEF Init, StepDicts
  <2>2. ResultsMean /\ Sent = {}
        BY DEF Init, ResultsMean, Sent
  <2> QED
      BY <2>1, <2>2 DEF StepInv, OneAwaited, StepsTold, StepsReached, ReachedOf
<1>2. RequestInv /\ StepInv => StepsInOrder
      BY EarlierStepsAreOver DEF StepsInOrder
<1> QED
    BY <1>1, <1>2, InvInit, InvStep, StepsNext, PTL DEF Spec

=============================================================================

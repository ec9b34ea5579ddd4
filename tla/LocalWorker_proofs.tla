------------------------- MODULE LocalWorker_proofs -------------------------
(***************************************************************************)
(* Proofs about LocalWorker and the rules of Routing, for any files,       *)
(* models, tasks and readings.                                             *)
(*                                                                         *)
(* A task that fails on the worker has a cause because a worker whose model*)
(* was not taken away has one (ServesUnlessSpoiled), and is fed with what  *)
(* its session asks for (DummiesFit).  The type a model was taken for is   *)
(* its own until there is a hot swap, since the constructor detects it     *)
(* before there is any tokenizer and the standby is a variant of the same  *)
(* model (OwnTypeUntilSwap).                                               *)
(*                                                                         *)
(* The spans of a text are a recursive function over its tokens, from the  *)
(* last one back.  That it exists and what it has are shown by induction   *)
(* over the tokens left: the spans from a token on are in order, begin at  *)
(* or after it, and hold exactly what is sensitive from it on (SpansFit).  *)
(***************************************************************************)
EXTENDS LocalWorker, SequenceTheorems, WellFoundedInduction, TLAPS

StandbyIsVariant ==
    shadow # None => modelPath # None /\ shadow = Quantized[modelPath]

NothingBeforeBuilt == ~built => tokenizer = None /\ swaps = 0 /\ session = None
                                /\ dummies = None /\ shadow = None /\ call = None

OwnTypeUntilSwap ==
    swaps = 0 =>
        /\ session # None => /\ modelPath # None
                             /\ session \in {modelPath, Quantized[modelPath]}
        /\ modelType = "ner" => modelPath # None /\ Shape[modelPath] = "labels"

ServesUnlessSpoiled == built /\ ~spoiled => modelLoaded /\ session # None

DummiesFit ==
    dummies # None =>
        /\ session # None
        /\ dummies = Inputs[session] \/ (promoted /\ swaps > 0)

NameFits ==
    backend = None /\ modelLoaded /\ session # None /\ ~promoted
        => modelName = session

TargetHasReason ==
    call # None /\ ~call.answered /\ ~cloud
        => call.target = "local" \/ call.task.preferred = "cloud"

WorkerInv ==
    /\ TypeOK
    /\ StandbyIsVariant
    /\ NothingBeforeBuilt
    /\ OwnTypeUntilSwap
    /\ ServesUnlessSpoiled
    /\ DummiesFit
    /\ NameFits
    /\ TargetHasReason
    /\ FailureHasCause
    /\ PiiLeakHasCause
    /\ RecordNamesModel

-----------------------------------------------------------------------------
(* The rules *)

LEMMA HotIsKept ==
    ASSUME NEW m \in Metrics, NEW n \in Metrics, Better(m, n), TooHot(m)
    PROVE  TooHot(n)
BY DEF Metrics, Better, TooHot, ThrottleTemp

LEMMA LowBatteryIsKept ==
    ASSUME NEW m \in Metrics, NEW n \in Metrics, Better(m, n), OnLowBattery(m)
    PROVE  OnLowBattery(n)
BY DEF Metrics, Better, OnLowBattery, LowBattery

LEMMA RamType == \A size : ModelRam(size) \in Int
BY DEF ModelRam

(* A better machine refuses nothing a worse one accepts. *)
LEMMA RefusalIsKept ==
    ASSUME NEW m \in Metrics, NEW n \in Metrics, NEW size, Better(m, n),
           Refused(size, m)
    PROVE  Refused(size, n)
<1>1. ModelRam(size) \in Int
      BY RamType
<1>2. /\ m.cpu \in Int /\ n.cpu \in Int /\ m.ram \in Int /\ n.ram \in Int
      /\ m.cpu <= n.cpu /\ m.ram >= n.ram
      BY DEF Metrics, Better
<1>3. CASE TooHot(m) \/ OnLowBattery(m)
      BY <1>3, HotIsKept, LowBatteryIsKept DEF Refused
<1>4. CASE TooLittleRam(size, m)
      BY <1>1, <1>2, <1>4 DEF Refused, TooLittleRam, RamMargin
<1>5. CASE m.cpu > ProxyCpu \/ m.cpu > MaxCpu
      BY <1>2, <1>5 DEF Refused, ProxyCpu, MaxCpu
<1> QED
    BY <1>3, <1>4, <1>5 DEF Refused

(* The rules of the router do not contradict each other, whatever the      *)
(* readings: what runs on a machine runs on a better one.                  *)
THEOREM RulesAreMonotone == \A m, n \in Metrics : KeepsWork(m, n)
<1> SUFFICES ASSUME NEW m \in Metrics, NEW n \in Metrics, Better(m, n),
                    NEW c \in Complexities, NEW size \in ModelSizes,
                    ShouldRouteLocal(c, size, n)
             PROVE  ShouldRouteLocal(c, size, m)
    BY DEF KeepsWork
<1>1. ~Refused(size, m)
      BY RefusalIsKept DEF ShouldRouteLocal
<1>2. /\ m.cpu \in Int /\ n.cpu \in Int /\ m.ram \in Int /\ n.ram \in Int
      /\ m.cpu <= n.cpu /\ m.ram >= n.ram /\ (n.npu => m.npu)
      BY DEF Metrics, Better
<1> QED
    BY <1>1, <1>2 DEF ShouldRouteLocal, MinRam, MaxCpu

-----------------------------------------------------------------------------
(* Types *)

LEMMA TypeInit == Init => TypeOK
<1> SUFFICES ASSUME Init PROVE TypeOK
    OBVIOUS
<1>1. log \in Seq(RecordSet) /\ Len(log) <= MaxRecords
      BY WorkerAssumption, EmptySeq DEF Init
<1>2. swaps \in 0..MaxSwaps
      BY WorkerAssumption DEF Init
<1>3. dummies \in {Inputs[f] : f \in Files} \cup {None}
      BY DEF Init
<1> QED
    BY <1>1, <1>2, <1>3 DEF Init, TypeOK

(* The log stays a sequence of records within its limit. *)
LEMMA AppendedType ==
    ASSUME TypeOK, NEW r \in RecordSet
    PROVE  Appended(r) \in Seq(RecordSet) /\ Len(Appended(r)) <= MaxRecords
<1>1. log \in Seq(RecordSet) /\ Len(log) <= MaxRecords /\ MaxRecords \in Nat \ {0}
      BY WorkerAssumption DEF TypeOK
<1>2. /\ Append(log, r) \in Seq(RecordSet)
      /\ Len(Append(log, r)) = Len(log) + 1
      BY <1>1, AppendProperties
<1>3. CASE Len(Append(log, r)) > MaxRecords
  <2>1. Append(log, r) # << >>
        BY <1>1, AppendProperties
  <2>2. /\ Tail(Append(log, r)) \in Seq(RecordSet)
        /\ Len(Tail(Append(log, r))) = Len(log)
        BY <1>1, <1>2, <2>1, HeadTailProperties, LenProperties
  <2> QED
      BY <1>1, <1>3, <2>2 DEF Appended
<1>4. CASE ~(Len(Append(log, r)) > MaxRecords)
      BY <1>1, <1>2, <1>4, LenProperties DEF Appended
<1> QED
    BY <1>3, <1>4

(* A record that is appended is the only new one. *)
LEMMA AppendedRecords ==
    ASSUME TypeOK, NEW r \in RecordSet, NEW i \in DOMAIN Appended(r)
    PROVE  Appended(r)[i] = r \/ \E j \in DOMAIN log : Appended(r)[i] = log[j]
<1> DEFINE longer == Append(log, r)
<1>1. log \in Seq(RecordSet) /\ Len(log) \in Nat
      BY LenProperties DEF TypeOK
<1>2. /\ longer \in Seq(RecordSet)
      /\ Len(longer) = Len(log) + 1
      /\ \A j \in 1..Len(log) : longer[j] = log[j]
      /\ longer[Len(log) + 1] = r
      BY <1>1, AppendProperties
<1>3. \A j \in 1..Len(longer) :
         longer[j] = r \/ \E k \in DOMAIN log : longer[j] = log[k]
      BY <1>1, <1>2
<1>4. CASE Appended(r) = longer
      BY <1>2, <1>3, <1>4
<1>5. CASE Appended(r) = Tail(longer)
  <2>1. longer # << >>
        BY <1>1, AppendProperties
  <2>2. /\ Len(Tail(longer)) = Len(longer) - 1
        /\ Tail(longer) \in Seq(RecordSet)
        /\ \A j \in 1..(Len(longer) - 1) : Tail(longer)[j] = longer[j + 1]
        BY <1>2, <2>1, HeadTailProperties
  <2>3. i \in 1..(Len(longer) - 1) /\ i + 1 \in 1..Len(longer)
        BY <1>1, <1>2, <1>5, <2>2
  <2> QED
      BY <1>3, <1>5, <2>2, <2>3
<1> QED
    BY <1>4, <1>5 DEF Appended

LEMMA PendingCall ==
    ASSUME TypeOK, call # None, ~call.answered
    PROVE  /\ call.task \in Tasks
           /\ call.target \in {"local", "cloud"}
           /\ call.reading \in Readings
BY DEF TypeOK, Calls

OutcomeSet == [ok : BOOLEAN, how : Hows \cup {None}]

LEMMA ResultTypes ==
    ASSUME NEW t, NEW raises, NEW silent, NEW target, NEW cloudFails
    PROVE  /\ LocalResult(t, raises, silent) \in OutcomeSet
           /\ Outcome(target, LocalResult(t, raises, silent), cloudFails) \in OutcomeSet
           /\ Outcome(target, Failure, cloudFails) \in OutcomeSet
<1>1. Failure \in OutcomeSet /\ \A how \in Hows : Answer(how) \in OutcomeSet
      BY DEF Failure, Answer, OutcomeSet
<1>2. \A f : MaskedBy(f, t) \in OutcomeSet
      BY <1>1 DEF MaskedBy, Hows
<1>3. \A f : Decoded(f, t, silent) \in OutcomeSet
      BY <1>1 DEF Decoded, Hows
<1>4. OnnxResult(t, raises, silent) \in OutcomeSet
      BY <1>1, <1>2, <1>3 DEF OnnxResult
<1>5. LocalResult(t, raises, silent) \in OutcomeSet
      BY <1>1, <1>4 DEF LocalResult, Hows
<1> QED
    BY <1>1, <1>5 DEF Outcome, Hows

(* Only a session that is loaded answers without a generative model. *)
LEMMA AnswerNeedsSession ==
    ASSUME NEW t, NEW raises, NEW silent,
           backend = None, LocalResult(t, raises, silent).ok
    PROVE  modelLoaded /\ session # None
BY DEF LocalResult, OnnxResult, Failure

LEMMA LoadModelTypes ==
    ASSUME TypeOK, NEW f \in Files, NEW p \in AllProviders, NEW tokenized \in BOOLEAN,
           LoadModel(f, p, tokenized)
    PROVE  /\ session' \in Files \cup {None}
           /\ modelLoaded' \in BOOLEAN
           /\ provider' \in AllProviders \cup {None}
           /\ modelName' \in Files \cup Llms \cup {None}
           /\ tokenizer' \in Files \cup {None}
           /\ modelType' \in {"ner", "causal", "encoder"}
           /\ promoted' \in BOOLEAN
<1>1. DetectType(f) \in {"ner", "causal", "encoder"}
      BY DEF DetectType
<1> QED
    BY <1>1 DEF LoadModel, TypeOK

LEMMA TypeConstruct == TypeOK /\ (Construct \/ ConstructEmpty) => TypeOK'
<1>1. ASSUME TypeOK, Construct PROVE TypeOK'
  <2>1. /\ modelPath \in Files
        /\ shadow' \in Files \cup {None}
        BY <1>1, WorkerAssumption DEF TypeOK, Construct
  <2>2. /\ session' \in Files \cup {None}
        /\ modelLoaded' \in BOOLEAN
        /\ provider' \in AllProviders \cup {None}
        /\ modelName' \in Files \cup Llms \cup {None}
        /\ tokenizer' \in Files \cup {None}
        /\ modelType' \in {"ner", "causal", "encoder"}
        /\ promoted' \in BOOLEAN
    <3>1. CASE \E p \in AllProviders, tokenized \in BOOLEAN :
                  LoadModel(modelPath, p, tokenized)
          BY <1>1, <2>1, <3>1, LoadModelTypes
    <3>2. CASE UNCHANGED <<sessionVars, promoted>>
          BY <1>1, <3>2 DEF sessionVars, TypeOK
    <3> QED
        BY <1>1, <3>1, <3>2 DEF Construct
  <2>3. spoiled' \in BOOLEAN /\ built' \in BOOLEAN
        BY <1>1 DEF Construct, TypeOK
  <2> QED
      BY <1>1, <2>1, <2>2, <2>3 DEF TypeOK, Construct
<1>2. ASSUME TypeOK, ConstructEmpty PROVE TypeOK'
      BY <1>2 DEF TypeOK, ConstructEmpty, sessionVars
<1> QED
    BY <1>1, <1>2

LEMMA TypeHotSwap == TypeOK /\ (\E f \in Files : HotSwap(f)) => TypeOK'
<1> SUFFICES ASSUME TypeOK, NEW f \in Files, HotSwap(f) PROVE TypeOK'
    OBVIOUS
<1>1. /\ session' \in Files \cup {None}
      /\ modelLoaded' \in BOOLEAN
      /\ provider' \in AllProviders \cup {None}
      /\ modelName' \in Files \cup Llms \cup {None}
      /\ tokenizer' \in Files \cup {None}
      /\ modelType' \in {"ner", "causal", "encoder"}
      /\ promoted' \in BOOLEAN
  <2>1. CASE \E p \in AllProviders, tokenized \in BOOLEAN : LoadModel(f, p, tokenized)
        BY <2>1, LoadModelTypes
  <2>2. CASE /\ session' = None /\ modelLoaded' = FALSE /\ promoted' = FALSE
             /\ UNCHANGED <<provider, modelName, tokenizer, modelType>>
        BY <2>2 DEF TypeOK
  <2> QED
      BY <2>1, <2>2 DEF HotSwap
<1>2. swaps' \in 0..MaxSwaps
      BY WorkerAssumption DEF HotSwap, TypeOK
<1>3. dummies' = None /\ spoiled' \in BOOLEAN
      BY DEF HotSwap
<1> QED
    BY <1>1, <1>2, <1>3 DEF TypeOK, HotSwap

LEMMA TypeLlm ==
    TypeOK /\ (UnloadLlm \/ \E l \in Llms, m \in Readings, fails \in BOOLEAN :
                                LoadLlm(l, m.ram, fails)) => TypeOK'
<1>1. ASSUME TypeOK, UnloadLlm PROVE TypeOK'
  <2>1. /\ backend' = None /\ modelLoaded' = FALSE /\ spoiled' = TRUE
        /\ UNCHANGED <<modelPath, built, session, provider, modelName, tokenizer,
                       modelType, shadow, dummies, cloud, log, call, promoted, swaps>>
        BY <1>1 DEF UnloadLlm
  <2>2. dummies' \in {Inputs[f] : f \in Files} \cup {None}
        BY <1>1, <2>1 DEF TypeOK
  <2>3. log' \in Seq(RecordSet) /\ Len(log') <= MaxRecords /\ swaps' \in 0..MaxSwaps
        BY <1>1, <2>1 DEF TypeOK
  <2>4. backend' \in Llms \cup {None} /\ modelLoaded' \in BOOLEAN /\ spoiled' \in BOOLEAN
        BY <1>1, <2>1 DEF TypeOK
  <2>5. /\ modelPath' \in Files \cup {None} /\ session' \in Files \cup {None}
        /\ shadow' \in Files \cup {None} /\ tokenizer' \in Files \cup {None}
        /\ modelName' \in Files \cup Llms \cup {None}
        /\ provider' \in AllProviders \cup {None}
        /\ modelType' \in {"ner", "causal", "encoder"}
        BY <1>1, <2>1 DEF TypeOK
  <2>6. built' \in BOOLEAN /\ cloud' \in BOOLEAN /\ promoted' \in BOOLEAN
        BY <1>1, <2>1 DEF TypeOK
  <2>7. call' \in Calls \cup {None}
        BY <1>1, <2>1 DEF TypeOK
  <2> QED
      BY <2>2, <2>3, <2>4, <2>5, <2>6, <2>7 DEF TypeOK
<1>2. ASSUME TypeOK, NEW l \in Llms, NEW ram, NEW fails, LoadLlm(l, ram, fails)
      PROVE  TypeOK'
  <2>1. /\ backend' = l /\ modelLoaded' = TRUE /\ modelName' = l
        /\ UNCHANGED <<modelPath, built, session, provider, tokenizer, modelType,
                       shadow, dummies, cloud, log, call, history>>
        BY <1>2 DEF LoadLlm
  <2> QED
      BY <1>2, <2>1 DEF TypeOK, history
<1> QED
    BY <1>1, <1>2

LEMMA TargetType ==
    ASSUME NEW t \in Tasks, NEW m
    PROVE  Decide(t.preferred, t.complexity, t.size, m, TRUE, cloud) \in {"local", "cloud"}
BY DEF Decide

LEMMA TypeRoute ==
    TypeOK /\ (\E t \in Tasks, m \in Readings, loads \in BOOLEAN : Route(t, m, loads))
        => TypeOK'
<1> SUFFICES ASSUME TypeOK, NEW t \in Tasks, NEW m \in Readings, NEW loads \in BOOLEAN,
                    Route(t, m, loads)
             PROVE  TypeOK'
    OBVIOUS
<1>1. shadow' \in Files \cup {None}
      BY WorkerAssumption DEF Route, Ensure, TypeOK
<1>2. session' \in Files \cup {None} /\ modelLoaded' \in BOOLEAN /\ promoted' \in BOOLEAN
      BY <1>1 DEF Route, Promote, TypeOK
<1>3. call' \in Calls
      BY TargetType DEF Route, Calls
<1> QED
    BY <1>1, <1>2, <1>3 DEF Route, TypeOK

LEMMA TypeExecute ==
    TypeOK /\ (\E raises, silent, cloudFails \in BOOLEAN :
                  ExecuteTask(raises, silent, cloudFails)) => TypeOK'
<1> SUFFICES ASSUME TypeOK, NEW raises \in BOOLEAN, NEW silent \in BOOLEAN,
                    NEW cloudFails \in BOOLEAN, ExecuteTask(raises, silent, cloudFails)
             PROVE  TypeOK'
    OBVIOUS
<1>1. call # None /\ ~call.answered
      BY DEF ExecuteTask
<1>2. call.task \in Tasks /\ call.target \in {"local", "cloud"}
      BY <1>1, PendingCall
<1>3. dummies' \in {Inputs[f] : f \in Files} \cup {None}
      BY DEF ExecuteTask, FeedsDummies, TypeOK
<1>4. log' \in Seq(RecordSet) /\ Len(log') <= MaxRecords
  <2>1. CASE log' = log
        BY <2>1 DEF TypeOK
  <2>2. CASE log' = Appended(Record) /\ session # None
    <3>1. Record \in RecordSet
          BY <2>2 DEF Record, RecordSet, TypeOK
    <3> QED
        BY <2>2, <3>1, AppendedType
  <2>3. log' # log => backend = None /\ log' = Appended(Record)
                      /\ LocalResult(call.task, raises, silent).ok
        BY DEF ExecuteTask, Failure
  <2> QED
      BY <2>1, <2>2, <2>3, AnswerNeedsSession
<1>5. call' \in Calls
  <2>1. PICK outcome \in OutcomeSet :
            call' = [task |-> call.task, answered |-> TRUE, target |-> call.target,
                     ok |-> outcome.ok, how |-> outcome.how,
                     read |-> UsesText(call.task), raised |-> raises,
                     silent |-> silent, cloudFailed |-> cloudFails]
        BY ResultTypes DEF ExecuteTask
  <2>2. UsesText(call.task) \in BOOLEAN
        BY <1>2, WorkerAssumption DEF UsesText, TaskSet
  <2>3. outcome.ok \in BOOLEAN /\ outcome.how \in Hows \cup {None}
        BY DEF OutcomeSet
  <2> QED
      BY <1>2, <2>1, <2>2, <2>3 DEF Calls
<1> QED
    BY <1>3, <1>4, <1>5 DEF ExecuteTask, TypeOK, sessionVars, history

LEMMA TypeNext == TypeOK /\ [Next]_vars => TypeOK'
<1> SUFFICES ASSUME TypeOK, [Next]_vars PROVE TypeOK'
    OBVIOUS
<1>1. CASE Return
      BY <1>1 DEF Return, TypeOK, sessionVars, history
<1>2. CASE UNCHANGED vars
      BY <1>2 DEF vars, sessionVars, history, TypeOK
<1> QED
    BY <1>1, <1>2, TypeConstruct, TypeHotSwap, TypeLlm, TypeRoute, TypeExecute
    DEF Next

(* Every variable keeps its type, and the log of inferences its bound. *)
THEOREM TypeCorrect == Spec => []TypeOK
<1> QED
    BY TypeInit, TypeNext, PTL DEF Spec

-----------------------------------------------------------------------------
(* The inductive invariant *)

LEMMA InvInit == Init => WorkerInv
<1> SUFFICES ASSUME Init PROVE WorkerInv
    OBVIOUS
<1>1. TypeOK
      BY TypeInit
<1>2. RecordNamesModel
      BY DEF Init, RecordNamesModel
<1> QED
    BY <1>1, <1>2 DEF Init, WorkerInv, StandbyIsVariant, NothingBeforeBuilt,
       OwnTypeUntilSwap, ServesUnlessSpoiled, DummiesFit, NameFits, TargetHasReason,
       FailureHasCause, PiiLeakHasCause, Answered

(* No call ends, and none begins: what is said of calls and of the log is  *)
(* kept.                                                                   *)
LEMMA IdleKeeps ==
    ASSUME WorkerInv, ~Answered, UNCHANGED <<call, log, cloud>>
    PROVE  /\ TargetHasReason' /\ FailureHasCause' /\ PiiLeakHasCause'
           /\ RecordNamesModel'
BY DEF WorkerInv, TargetHasReason, FailureHasCause, PiiLeakHasCause, Answered,
       RecordNamesModel

LEMMA InvConstruct ==
    ASSUME WorkerInv, Construct \/ ConstructEmpty
    PROVE  WorkerInv'
<1>1. TypeOK /\ TypeOK'
      BY TypeConstruct DEF WorkerInv
<1>2. /\ ~built /\ tokenizer = None /\ swaps = 0 /\ session = None
      /\ dummies = None /\ shadow = None /\ call = None
      BY DEF WorkerInv, NothingBeforeBuilt, Construct, ConstructEmpty
<1>3. TargetHasReason' /\ FailureHasCause' /\ PiiLeakHasCause' /\ RecordNamesModel'
      BY <1>2, IdleKeeps DEF Construct, ConstructEmpty, Answered
<1>4. built' = TRUE /\ swaps' = 0 /\ dummies' = None /\ modelPath' = modelPath
      BY <1>2 DEF Construct, ConstructEmpty
<1>5. CASE ConstructEmpty
  <2>1. /\ spoiled' = TRUE
        /\ UNCHANGED <<session, modelLoaded, modelName, modelType, shadow, backend,
                       promoted>>
        BY <1>5 DEF ConstructEmpty, sessionVars
  <2> QED
      BY <1>1, <1>2, <1>3, <1>4, <2>1 DEF WorkerInv, StandbyIsVariant,
         NothingBeforeBuilt, OwnTypeUntilSwap, ServesUnlessSpoiled, DummiesFit, NameFits
<1>6. CASE Construct
  <2>1. modelPath \in Files /\ shadow' \in {None, Quantized[modelPath]}
        BY <1>1, <1>6 DEF Construct, TypeOK
  <2>2. StandbyIsVariant' /\ NothingBeforeBuilt' /\ DummiesFit'
        BY <1>4, <2>1, WorkerAssumption
        DEF StandbyIsVariant, NothingBeforeBuilt, DummiesFit
  <2>3. CASE \E p \in AllProviders, tokenized \in BOOLEAN :
                  LoadModel(modelPath, p, tokenized)
    <3>1. /\ session' = modelPath /\ modelLoaded' = TRUE /\ modelName' = modelPath
          /\ modelType' = DetectType(modelPath)
          BY <2>3 DEF LoadModel
    <3>2. modelType' = "ner" => Shape[modelPath] = "labels"
          BY <1>2, <3>1 DEF DetectType
    <3> QED
        BY <1>1, <1>3, <1>4, <2>1, <2>2, <3>1, <3>2, WorkerAssumption
        DEF WorkerInv, OwnTypeUntilSwap, ServesUnlessSpoiled, NameFits
  <2>4. CASE spoiled' = TRUE /\ UNCHANGED <<sessionVars, promoted>>
    <3>1. session' = None /\ modelType' = modelType
          BY <1>2, <2>4 DEF sessionVars
    <3> QED
        BY <1>1, <1>2, <1>3, <1>4, <2>2, <2>4, <3>1
        DEF WorkerInv, OwnTypeUntilSwap, ServesUnlessSpoiled, NameFits
  <2> QED
      BY <1>6, <2>3, <2>4 DEF Construct
<1> QED
    BY <1>5, <1>6

LEMMA InvHotSwap ==
    ASSUME WorkerInv, NEW f \in Files, HotSwap(f)
    PROVE  WorkerInv'
<1>1. TypeOK /\ TypeOK'
      BY TypeHotSwap DEF WorkerInv
<1>2. /\ built /\ built' /\ ~Answered /\ swaps' # 0 /\ dummies' = None
      /\ UNCHANGED <<modelPath, shadow, call, log, backend, cloud>>
      BY <1>1 DEF HotSwap, TypeOK
<1>3. TargetHasReason' /\ FailureHasCause' /\ PiiLeakHasCause' /\ RecordNamesModel'
      BY <1>2, IdleKeeps
<1>4. /\ StandbyIsVariant' /\ NothingBeforeBuilt' /\ OwnTypeUntilSwap' /\ DummiesFit'
      BY <1>2 DEF WorkerInv, StandbyIsVariant, NothingBeforeBuilt, OwnTypeUntilSwap,
                  DummiesFit
<1>5. CASE (\E p \in AllProviders, tokenized \in BOOLEAN : LoadModel(f, p, tokenized))
           /\ spoiled' = FALSE
      BY <1>1, <1>3, <1>4, <1>5, WorkerAssumption
      DEF WorkerInv, LoadModel, ServesUnlessSpoiled, NameFits
<1>6. CASE session' = None /\ spoiled' = TRUE
      BY <1>1, <1>3, <1>4, <1>6 DEF WorkerInv, ServesUnlessSpoiled, NameFits
<1> QED
    BY <1>5, <1>6 DEF HotSwap

LEMMA InvLlm ==
    ASSUME WorkerInv, UnloadLlm \/ \E l \in Llms, m \in Readings, fails \in BOOLEAN :
                                        LoadLlm(l, m.ram, fails)
    PROVE  WorkerInv'
<1>1. TypeOK /\ TypeOK'
      BY TypeLlm DEF WorkerInv
<1>2. /\ ~Answered
      /\ UNCHANGED <<modelPath, built, session, shadow, dummies, tokenizer, modelType,
                     call, cloud, log, swaps, promoted>>
      BY DEF UnloadLlm, LoadLlm, history
<1>3. TargetHasReason' /\ FailureHasCause' /\ PiiLeakHasCause' /\ RecordNamesModel'
      BY <1>2, IdleKeeps
<1>4. StandbyIsVariant' /\ NothingBeforeBuilt' /\ OwnTypeUntilSwap' /\ DummiesFit'
      BY <1>2 DEF WorkerInv, StandbyIsVariant, NothingBeforeBuilt, OwnTypeUntilSwap,
                  DummiesFit
<1>5. CASE UnloadLlm
      BY <1>1, <1>3, <1>4, <1>5
      DEF UnloadLlm, WorkerInv, ServesUnlessSpoiled, NameFits
<1>6. CASE \E l \in Llms, m \in Readings, fails \in BOOLEAN : LoadLlm(l, m.ram, fails)
  <2>1. backend' \in Llms /\ modelLoaded' = TRUE /\ UNCHANGED spoiled
        BY <1>6 DEF LoadLlm, history
  <2>2. backend' # None
        BY <2>1, WorkerAssumption
  <2> QED
      BY <1>1, <1>2, <1>3, <1>4, <2>1, <2>2
      DEF WorkerInv, ServesUnlessSpoiled, NameFits
<1> QED
    BY <1>5, <1>6

(* Promotion puts a variant of the same model in the place of the session. *)
LEMMA InvRoute ==
    ASSUME WorkerInv, NEW t \in Tasks, NEW m \in Readings, NEW loads \in BOOLEAN,
           Route(t, m, loads)
    PROVE  WorkerInv'
<1>1. TypeOK /\ TypeOK'
      BY TypeRoute DEF WorkerInv
<1>2. /\ built /\ built'
      /\ UNCHANGED <<modelPath, modelName, modelType, dummies, backend, cloud, log,
                     swaps, spoiled>>
      BY DEF Route
<1>3. StandbyIsVariant'
      BY DEF WorkerInv, StandbyIsVariant, Route, Ensure
<1>4. \/ session' = shadow' /\ shadow' # None /\ modelLoaded' = TRUE /\ promoted' = TRUE
      \/ UNCHANGED <<session, modelLoaded, promoted>>
      BY DEF Route, Promote
<1>5. /\ call' # None /\ ~call'.answered /\ call'.task = t
      /\ call'.target = Decide(t.preferred, t.complexity, t.size, m, TRUE, cloud)
  <2>1. call' # None
    <3>1. call' \in Calls
          BY <1>1, TargetType DEF Route, Calls
    <3> QED
        BY <3>1, CallAssumption
  <2>2. call'.answered = FALSE
        BY DEF Route
  <2>3. /\ call'.task = t
        /\ call'.target = Decide(t.preferred, t.complexity, t.size, m, TRUE, cloud)
        BY DEF Route
  <2> QED
      BY <2>1, <2>2, <2>3
<1>6. TargetHasReason' /\ FailureHasCause' /\ PiiLeakHasCause'
      BY <1>2, <1>5 DEF TargetHasReason, FailureHasCause, PiiLeakHasCause, Answered,
                        Decide
<1>7. RecordNamesModel' /\ NothingBeforeBuilt'
      BY <1>2 DEF WorkerInv, RecordNamesModel, NothingBeforeBuilt
<1>8. ServesUnlessSpoiled' /\ NameFits'
      BY <1>2, <1>4 DEF WorkerInv, ServesUnlessSpoiled, NameFits
<1>9. OwnTypeUntilSwap'
      BY <1>2, <1>3, <1>4 DEF WorkerInv, OwnTypeUntilSwap, StandbyIsVariant
<1>10. DummiesFit'
  <2>1. CASE UNCHANGED <<session, modelLoaded, promoted>>
        BY <1>2, <2>1 DEF WorkerInv, DummiesFit
  <2>2. CASE /\ session' = shadow' /\ shadow' # None /\ promoted' = TRUE
             /\ swaps # 0
    <3>1. swaps' > 0
          BY <1>1, <1>2, <2>2 DEF TypeOK
    <3> QED
        BY <1>1, <1>2, <2>2, <3>1 DEF WorkerInv, DummiesFit, TypeOK
  <2>3. CASE session' = shadow' /\ shadow' # None /\ swaps = 0 /\ dummies # None
    <3>1. /\ session # None /\ dummies = Inputs[session]
          /\ modelPath \in Files /\ session \in {modelPath, Quantized[modelPath]}
          BY <1>1, <2>3 DEF WorkerInv, DummiesFit, OwnTypeUntilSwap, TypeOK
    <3>2. session' = Quantized[modelPath] /\ Quantized[modelPath] # None
          BY <1>2, <1>3, <2>3 DEF StandbyIsVariant
    <3>3. Inputs[Quantized[modelPath]] = Inputs[modelPath]
          BY <3>1, <3>2, WorkerAssumption
    <3> QED
        BY <1>2, <2>3, <3>1, <3>2, <3>3 DEF DummiesFit
  <2> QED
      BY <1>2, <1>4, <2>1, <2>2, <2>3 DEF DummiesFit
<1> QED
    BY <1>1, <1>3, <1>6, <1>7, <1>8, <1>9, <1>10 DEF WorkerInv

(* What the worker does with a task it was given, by what it finds.        *)
LEMMA WorkerFailure ==
    ASSUME WorkerInv, call # None, ~call.answered, NEW raises, NEW silent,
           backend = None => FeedsDummies(call.task),
           ~LocalResult(call.task, raises, silent).ok
    PROVE  \/ raises
           \/ spoiled
           \/ call.task.kind = "pii" /\ ~UsesText(call.task)
           \/ swaps > 0 /\ promoted
<1>1. \A how : Answer(how).ok
      BY DEF Answer
<1>2. \A f : Decoded(f, call.task, silent).ok
      BY <1>1 DEF Decoded
<1>3. built
      BY DEF WorkerInv, NothingBeforeBuilt
<1>4. CASE backend # None
      BY <1>1, <1>4 DEF LocalResult
<1>5. CASE backend = None /\ (~modelLoaded \/ session = None)
      BY <1>3, <1>5 DEF WorkerInv, ServesUnlessSpoiled
<1>6. CASE /\ backend = None /\ modelLoaded /\ session # None
           /\ ~UsesText(call.task) /\ dummies' # Inputs[session]
      BY <1>6 DEF WorkerInv, DummiesFit, FeedsDummies
<1>7. CASE /\ backend = None /\ modelLoaded /\ session # None
           /\ UsesText(call.task) \/ dummies' = Inputs[session]
  <2>1. CASE raises
        BY <2>1
  <2>2. CASE ~raises /\ call.task.kind = "pii" /\ ~UsesText(call.task)
        BY <2>2
  <2>3. CASE ~raises /\ UsesText(call.task)
    <3>1. MaskedBy(session, call.task).ok
          BY <1>1, <2>3 DEF MaskedBy
    <3> QED
        BY <1>2, <1>7, <2>3, <3>1 DEF LocalResult, OnnxResult
  <2>4. CASE ~raises /\ call.task.kind # "pii"
        BY <1>2, <1>7, <2>4 DEF LocalResult, OnnxResult
  <2> QED
      BY <2>1, <2>2, <2>3, <2>4
<1> QED
    BY <1>4, <1>5, <1>6, <1>7

(* What is made of a text. *)
LEMMA WorkerAnswer ==
    ASSUME WorkerInv, NEW t, NEW raises, NEW silent
    PROVE  /\ LocalResult(t, raises, silent).how = "raw" => silent
           /\ LocalResult(t, raises, silent).how = "guess" => swaps > 0
<1> DEFINE Fine(r) == /\ r.how = "raw" => silent
                      /\ r.how = "guess" => swaps > 0
<1>1. Fine(Failure) /\ \A how \in Hows \ {"raw", "guess"} : Fine(Answer(how))
      BY CallAssumption DEF Failure, Answer, Hows
<1>2. \A f : Fine(Decoded(f, t, silent))
  <2>1. silent => Fine(Answer("raw"))
        BY DEF Answer
  <2> QED
      BY <1>1, <2>1 DEF Decoded, Hows
<1>3. modelType = "ner" /\ session # None => Fine(MaskedBy(session, t))
  <2>1. CASE swaps = 0 /\ modelType = "ner" /\ session # None
    <3>1. Shape[session] = "labels"
          BY <2>1, WorkerAssumption DEF WorkerInv, TypeOK, OwnTypeUntilSwap
    <3> QED
        BY <1>1, <3>1 DEF MaskedBy, Hows
  <2>2. CASE swaps # 0
    <3>1. swaps > 0
          BY <2>2, WorkerAssumption DEF WorkerInv, TypeOK
    <3>2. Fine(Answer("guess"))
          BY <3>1 DEF Answer
    <3> QED
        BY <1>1, <3>2 DEF MaskedBy, Hows
  <2> QED
      BY <2>1, <2>2
<1>4. Fine(OnnxResult(t, raises, silent))
      BY <1>1, <1>2, <1>3 DEF OnnxResult
<1>5. Fine(LocalResult(t, raises, silent))
      BY <1>1, <1>4 DEF LocalResult, Hows
<1> QED
    BY <1>5

LEMMA InvExecute ==
    ASSUME WorkerInv, NEW raises \in BOOLEAN, NEW silent \in BOOLEAN,
           NEW cloudFails \in BOOLEAN, ExecuteTask(raises, silent, cloudFails)
    PROVE  WorkerInv'
<1> DEFINE local == IF call.target = "local"
                    THEN LocalResult(call.task, raises, silent) ELSE Failure
           outcome == Outcome(call.target, local, cloudFails)
<1>1. TypeOK /\ TypeOK'
      BY TypeExecute DEF WorkerInv
<1>2. /\ UNCHANGED <<modelPath, built, session, modelLoaded, modelName, tokenizer,
                     modelType, shadow, backend, cloud, promoted, swaps, spoiled>>
      /\ call # None /\ ~call.answered
      BY DEF ExecuteTask, sessionVars, history
<1>3. /\ call'.task = call.task /\ call'.ok = outcome.ok /\ call'.how = outcome.how
      /\ call'.read = UsesText(call.task) /\ call'.raised = raises
      /\ call'.silent = silent /\ call'.cloudFailed = cloudFails
      /\ call'.answered = TRUE
      BY DEF ExecuteTask
<1>4. FailureHasCause'
  <2> SUFFICES ASSUME ~outcome.ok
               PROVE  IF cloud THEN cloudFails
                      ELSE \/ call.task.preferred = "cloud"
                           \/ raises
                           \/ spoiled
                           \/ call.task.kind = "pii" /\ ~UsesText(call.task)
                           \/ swaps > 0 /\ promoted
      BY <1>2, <1>3 DEF FailureHasCause
  <2>1. CASE cloud
        BY <2>1 DEF Outcome, Answer
  <2>2. CASE ~cloud /\ call.target = "local"
    <3>1. ~LocalResult(call.task, raises, silent).ok
          BY <2>2 DEF Outcome
    <3>2. backend = None => FeedsDummies(call.task)
          BY <2>2 DEF ExecuteTask
    <3> QED
        BY <1>2, <2>2, <3>1, <3>2, WorkerFailure
  <2>3. CASE ~cloud /\ call.target # "local"
        BY <1>2, <2>3 DEF WorkerInv, TargetHasReason
  <2> QED
      BY <2>1, <2>2, <2>3
<1>5. PiiLeakHasCause'
  <2>1. /\ outcome.how = "raw" => silent
        /\ outcome.how = "guess" => swaps > 0
    <3>1. /\ local.how = "raw" => silent
          /\ local.how = "guess" => swaps > 0
          BY WorkerAnswer, CallAssumption DEF Failure, Hows
    <3>2. /\ Failure.how \notin {"raw", "guess"}
          /\ Answer("cloud").how \notin {"raw", "guess"}
          BY CallAssumption DEF Failure, Answer, Hows
    <3> QED
        BY <3>1, <3>2 DEF Outcome
  <2> QED
      BY <1>2, <1>3, <2>1 DEF PiiLeakHasCause
<1>6. RecordNamesModel'
  <2>1. CASE log' = log
        BY <2>1 DEF WorkerInv, RecordNamesModel
  <2>2. CASE log' # log
    <3>1. log' = Appended(Record) /\ backend = None
          BY <2>2 DEF ExecuteTask, Failure
    <3>2. LocalResult(call.task, raises, silent).ok
          BY <2>2 DEF ExecuteTask, Failure
    <3>3. modelLoaded /\ session # None
          BY <3>1, <3>2, AnswerNeedsSession
    <3>4. Record \in RecordSet
          BY <1>1, <3>3 DEF TypeOK, Record, RecordSet
    <3>5. Record.name = Record.ran \/ Record.promoted
          BY <3>1, <3>3 DEF WorkerInv, NameFits, Record
    <3> QED
        BY <1>1, <3>1, <3>4, <3>5, AppendedRecords DEF WorkerInv, RecordNamesModel
  <2> QED
      BY <2>1, <2>2
<1>7. DummiesFit'
  <2>1. CASE dummies' = dummies
        BY <1>2, <2>1 DEF WorkerInv, DummiesFit
  <2>2. CASE dummies' # dummies
    <3>1. session # None /\ dummies' = Inputs[session]
          BY <2>2 DEF ExecuteTask, FeedsDummies
    <3> QED
        BY <1>2, <3>1 DEF DummiesFit
  <2> QED
      BY <2>1, <2>2
<1>8. StandbyIsVariant' /\ OwnTypeUntilSwap' /\ ServesUnlessSpoiled' /\ NameFits'
      BY <1>2 DEF WorkerInv, StandbyIsVariant, OwnTypeUntilSwap, ServesUnlessSpoiled,
                  NameFits
<1>9. NothingBeforeBuilt' /\ TargetHasReason'
      BY <1>2, <1>3 DEF WorkerInv, NothingBeforeBuilt, TargetHasReason
<1> QED
    BY <1>1, <1>4, <1>5, <1>6, <1>7, <1>8, <1>9 DEF WorkerInv

LEMMA InvNext == WorkerInv /\ [Next]_vars => WorkerInv'
<1> SUFFICES ASSUME WorkerInv, [Next]_vars PROVE WorkerInv'
    OBVIOUS
<1>1. TypeOK'
      BY TypeNext DEF WorkerInv
<1>2. CASE Return
  <2>1. /\ call' = None
        /\ UNCHANGED <<modelPath, built, session, modelLoaded, modelName, tokenizer,
                       modelType, shadow, dummies, backend, log, promoted, swaps, spoiled>>
        BY <1>2 DEF Return, sessionVars, history
  <2> QED
      BY <1>1, <2>1
      DEF WorkerInv, StandbyIsVariant, NothingBeforeBuilt, OwnTypeUntilSwap,
          ServesUnlessSpoiled, DummiesFit, NameFits, TargetHasReason, FailureHasCause,
          PiiLeakHasCause, RecordNamesModel, Answered
<1>3. CASE UNCHANGED vars
      BY <1>1, <1>3
      DEF vars, sessionVars, history, WorkerInv, StandbyIsVariant, NothingBeforeBuilt,
          OwnTypeUntilSwap, ServesUnlessSpoiled, DummiesFit, NameFits, TargetHasReason,
          FailureHasCause, PiiLeakHasCause, RecordNamesModel, Answered
<1> QED
    BY <1>2, <1>3, InvConstruct, InvHotSwap, InvLlm, InvRoute, InvExecute DEF Next

LEMMA WorkerInvHolds == Spec => []WorkerInv
<1> QED
    BY InvInit, InvNext, PTL DEF Spec

-----------------------------------------------------------------------------
(* Induction, and the least and the greatest of some naturals              *)

(* Induction over the naturals, for a set of them. *)
LEMMA NaturalsOf ==
    ASSUME NEW Q, 0 \in Q, \A n \in Nat : n \in Q => n + 1 \in Q
    PROVE  Nat \subseteq Q
<1> DEFINE Less == {pair \in Nat \X Nat : pair[1] < pair[2]}
<1>1. IsWellFoundedOn(Less, Nat)
  BY NatLessThanWellFounded DEF OpToRel
<1>2. SUFFICES ASSUME Nat \ Q # {} PROVE FALSE
  OBVIOUS
<1>3. PICK i \in Nat \ Q : \A j \in Nat \ Q : <<j, i>> \notin Less
  <2> HIDE DEF Less
  <2> QED
    BY <1>1, <1>2, WFMin
<1>4. i - 1 \in Nat \ Q
  BY <1>3
<1>5. /\ <<i - 1, i>> \in Nat \X Nat
      /\ <<i - 1, i>>[1] = i - 1 /\ <<i - 1, i>>[2] = i
  BY <1>4
<1>6. <<i - 1, i>> \in Less
  BY <1>4, <1>5
<1> QED
  BY <1>3, <1>4, <1>6

(* A set of naturals that is not empty has a least member.                 *)
LEMMA LeastNatural ==
    ASSUME NEW S, S \subseteq Nat, S # {}
    PROVE  Min(S) \in S /\ \A j \in S : Min(S) <= j
<1> DEFINE Q == {n \in Nat : \A j \in S : n <= j}
<1>1. \E i \in S : \A j \in S : i <= j
  <2> SUFFICES ASSUME \A i \in S : \E j \in S : ~(i <= j) PROVE FALSE
    OBVIOUS
  <2>1. 0 \in Q
    OBVIOUS
  <2>2. \A n \in Nat : n \in Q => n + 1 \in Q
    <3> SUFFICES ASSUME NEW n \in Nat, n \in Q, NEW j \in S PROVE n + 1 <= j
      OBVIOUS
    <3>1. n # j
      BY DEF Q
    <3> QED
      BY <3>1
  <2>3. Nat \subseteq Q
    <3> HIDE DEF Q
    <3> QED
      BY <2>1, <2>2, NaturalsOf
  <2>4. PICK i \in S : TRUE
    OBVIOUS
  <2>5. i + 1 \in Q
    BY <2>3
  <2> QED
    BY <2>5
<1> QED
  BY <1>1 DEF Min

(* One that is bounded has a greatest.                                     *)
LEMMA GreatestNatural ==
    ASSUME NEW b \in Nat, NEW S, S \subseteq 0..b, S # {}
    PROVE  Max(S) \in S /\ \A j \in S : j <= Max(S)
<1> DEFINE T == {k \in Nat : b - k \in S}
<1>1. /\ T \subseteq Nat /\ T # {}
      /\ \A j \in S : j \in Nat /\ b - j \in T
  <2>1. \A j \in S : j \in Nat /\ b - j \in Nat /\ b - (b - j) = j
    OBVIOUS
  <2>2. \A j \in S : b - (b - j) \in S
    BY <2>1, Zenon
  <2> QED
    BY <2>1, <2>2
<1>2. Min(T) \in T /\ \A j \in T : Min(T) <= j
  <2> HIDE DEF T
  <2> QED
    BY <1>1, LeastNatural
<1>3. b - Min(T) \in S /\ \A j \in S : j <= b - Min(T)
  BY <1>1, <1>2
<1> QED
  BY <1>3, Zenon DEF Max

-----------------------------------------------------------------------------
(* The inner loop                                                          *)

Stops(tokens, i) ==
    {j \in (i + 1)..Len(tokens) :
        /\ ~Blank(tokens[j])
        /\ ~IsEntity(tokens[j]) \/ Entity(tokens[j]) # Entity(tokens[i])}

(* A span that starts at token i takes in tokens of its entity and blank   *)
(* ones, and the token that stops it is neither.                           *)
LEMMA SpanStopIs ==
    ASSUME NEW S, NEW tokens \in Seq(S), NEW i \in DOMAIN tokens
    PROVE  LET stop == SpanStop(tokens, i)
           IN  /\ stop \in (i + 1)..(Len(tokens) + 1)
               /\ \A j \in (i + 1)..(stop - 1) :
                    \/ Blank(tokens[j])
                    \/ IsEntity(tokens[j]) /\ Entity(tokens[j]) = Entity(tokens[i])
               /\ stop <= Len(tokens) =>
                    /\ ~Blank(tokens[stop])
                    /\ ~(IsEntity(tokens[stop]) /\ Entity(tokens[stop]) = Entity(tokens[i]))
<1> DEFINE stop == SpanStop(tokens, i)  n == Len(tokens)
<1>1. n \in Nat /\ i \in 1..n
  BY LenProperties
<1>2. stop = IF Stops(tokens, i) = {} THEN n + 1 ELSE Min(Stops(tokens, i))
  BY DEF SpanStop, Stops
<1>3. CASE Stops(tokens, i) = {}
  BY <1>1, <1>2, <1>3 DEF Stops
<1>4. CASE Stops(tokens, i) # {}
  <2>1. /\ stop \in Stops(tokens, i)
        /\ \A j \in Stops(tokens, i) : stop <= j
    <3>1. Stops(tokens, i) \subseteq Nat
      BY <1>1 DEF Stops
    <3> QED
      BY <1>2, <1>4, <3>1, LeastNatural
  <2> HIDE DEF stop
  <2>2. /\ stop \in (i + 1)..n /\ ~Blank(tokens[stop])
        /\ ~(IsEntity(tokens[stop]) /\ Entity(tokens[stop]) = Entity(tokens[i]))
    BY <2>1 DEF Stops
  <2>3. \A j \in (i + 1)..(stop - 1) : j \notin Stops(tokens, i) /\ j \in (i + 1)..n
    BY <1>1, <2>1, <2>2
  <2> QED
    BY <1>1, <2>2, <2>3 DEF Stops, stop
<1> QED
  BY <1>3, <1>4

(* Its end is that of the last token that has a place.                     *)
LEMMA SpanEndIs ==
    ASSUME NEW S, NEW tokens \in Seq(S), NEW i \in DOMAIN tokens, ~Blank(tokens[i])
    PROVE  \E last \in i..(SpanStop(tokens, i) - 1) :
              /\ ~Blank(tokens[last])
              /\ \A j \in i..(SpanStop(tokens, i) - 1) : ~Blank(tokens[j]) => j <= last
              /\ SpanEnd(tokens, i) = tokens[last].place[2]
<1> DEFINE stop == SpanStop(tokens, i)
           inSpan == {j \in i..(stop - 1) : ~Blank(tokens[j])}
<1>1. Len(tokens) \in Nat /\ i \in 1..Len(tokens) /\ stop \in (i + 1)..(Len(tokens) + 1)
  BY LenProperties, SpanStopIs
<1> HIDE DEF stop
<1>2. i \in inSpan /\ inSpan \subseteq 0..stop
  BY <1>1
<1>3. Max(inSpan) \in inSpan /\ \A j \in inSpan : j <= Max(inSpan)
  <2> HIDE DEF inSpan
  <2> QED
    BY <1>1, <1>2, GreatestNatural
<1>4. SpanEnd(tokens, i) = tokens[Max(inSpan)].place[2]
  BY DEF SpanEnd, stop
<1>5. /\ Max(inSpan) \in i..(stop - 1) /\ ~Blank(tokens[Max(inSpan)])
      /\ \A j \in i..(stop - 1) : ~Blank(tokens[j]) => j <= Max(inSpan)
  BY <1>3
<1> HIDE DEF inSpan
<1> QED
  BY <1>4, <1>5 DEF stop

-----------------------------------------------------------------------------
(* The outer loop                                                          *)

SpanSet == [start : Nat, end : Nat]

SpanAt(tokens, i) == [start |-> tokens[i].place[1], end |-> SpanEnd(tokens, i)]

(* The function that the definition of Spans speaks of. *)
SpansStep(f, tokens, i) ==
    IF i > Len(tokens) THEN <<>>
    ELSE IF Blank(tokens[i]) \/ ~IsEntity(tokens[i]) THEN f[i + 1]
    ELSE <<SpanAt(tokens, i)>> \o f[SpanStop(tokens, i)]

(* It is defined from the last token back. *)
LEMMA SpansExist ==
    ASSUME NEW S, NEW tokens \in Seq(S)
    PROVE  \E f : f = [i \in 1..(Len(tokens) + 1) |-> SpansStep(f, tokens, i)]
<1> DEFINE n == Len(tokens)
           From(f, m) == f = [i \in (n + 1 - m)..(n + 1) |-> SpansStep(f, tokens, i)]
           Q == {m \in Nat : m <= n => \E f : From(f, m)}
<1>1. n \in Nat /\ DOMAIN tokens = 1..n
  BY LenProperties
<1>2. 0 \in Q
  <2>1. From([i \in (n + 1 - 0)..(n + 1) |-> <<>>], 0)
    BY <1>1 DEF SpansStep
  <2> QED
    BY <2>1
<1>3. ASSUME NEW m \in Nat, m \in Q
      PROVE  m + 1 \in Q
  <2> SUFFICES ASSUME m + 1 <= n
               PROVE  \E f : From(f, m + 1)
    OBVIOUS
  <2>1. PICK f : From(f, m)
    BY <1>1, <1>3
  <2> DEFINE g == [i \in (n + 1 - (m + 1))..(n + 1) |-> SpansStep(f, tokens, i)]
  <2>2. \A i \in (n + 1 - m)..(n + 1) : g[i] = f[i]
    BY <1>1, <2>1
  <2>3. ASSUME NEW i \in (n + 1 - (m + 1))..(n + 1)
        PROVE  SpansStep(f, tokens, i) = SpansStep(g, tokens, i)
    <3>1. i <= n => /\ i \in DOMAIN tokens
                    /\ i + 1 \in (n + 1 - m)..(n + 1)
                    /\ SpanStop(tokens, i) \in (n + 1 - m)..(n + 1)
      <4>1. i <= n => i \in DOMAIN tokens
        BY <1>1
      <4>2. i <= n => SpanStop(tokens, i) \in (i + 1)..(n + 1)
        BY <4>1, SpanStopIs
      <4> QED
        BY <1>1, <4>1, <4>2
    <3>2. i <= n => g[i + 1] = f[i + 1] /\ g[SpanStop(tokens, i)] = f[SpanStop(tokens, i)]
      BY <2>2, <3>1
    <3> HIDE DEF g
    <3> QED
      BY <1>1, <3>2 DEF SpansStep
  <2>4. From(g, m + 1)
    BY <2>3, Zenon
  <2> HIDE DEF g, From
  <2> QED
    BY <2>4
<1>4. n \in Q
  <2> HIDE DEF Q
  <2> QED
    BY <1>1, <1>2, <1>3, NaturalsOf
<1>5. PICK f : From(f, n)
  BY <1>1, <1>4
<1>6. n + 1 - n = 1
  BY <1>1
<1> QED
  BY <1>5, <1>6

(* Spans is its value at the first token.                                  *)
LEMMA SpansDef ==
    ASSUME NEW S, NEW tokens \in Seq(S)
    PROVE  \E f : /\ f = [i \in 1..(Len(tokens) + 1) |-> SpansStep(f, tokens, i)]
                  /\ Spans(tokens) = f[1]
<1> DEFINE From(f) == f = [i \in 1..(Len(tokens) + 1) |-> SpansStep(f, tokens, i)]
           from == CHOOSE f : From(f)
<1>1. From(from)
  <2>1. \E f : From(f)
    BY SpansExist
  <2> HIDE DEF From
  <2> QED
    BY <2>1
<1>2. Spans(tokens) = from[1]
  BY Zenon DEF Spans, SpansStep, SpanAt
<1> HIDE DEF from
<1> QED
  BY <1>1, <1>2

-----------------------------------------------------------------------------
(* What the spans from a token on mask                                     *)

SensitiveFrom(tokens, p, i) ==
    \/ \E j \in i..Len(tokens) : IsEntity(tokens[j]) /\ Covers(tokens[j], p)
    \/ \E j, k \in i..Len(tokens) : j < k /\ Between(tokens, j, k, p)

(* The places of two tokens, in the order of the tokens. *)
LEMMA PlacesRise ==
    ASSUME NEW tokens, NEW length, WellPlaced(tokens, length)
    PROVE  /\ Len(tokens) \in Nat /\ length \in Nat /\ DOMAIN tokens = 1..Len(tokens)
           /\ \A i \in 1..Len(tokens) :
                /\ tokens[i].place[1] \in Nat /\ tokens[i].place[2] \in Nat
                /\ ~Blank(tokens[i]) => /\ tokens[i].place[1] <= tokens[i].place[2]
                                        /\ tokens[i].place[2] <= length
           /\ \A i, j \in 1..Len(tokens) :
                ~Blank(tokens[i]) /\ ~Blank(tokens[j]) /\ i < j =>
                    tokens[i].place[2] <= tokens[j].place[1]
<1>1. tokens \in Seq(Tokens) /\ length \in Nat
  BY DEF WellPlaced
<1>2. Len(tokens) \in Nat /\ DOMAIN tokens = 1..Len(tokens)
  BY <1>1, LenProperties
<1>3. \A i \in 1..Len(tokens) : tokens[i] \in Tokens
  BY <1>1, <1>2, ElementOfSeq
<1>4. \A i \in 1..Len(tokens) : tokens[i].place[1] \in Nat /\ tokens[i].place[2] \in Nat
  BY <1>3 DEF Tokens
<1> QED
  BY <1>1, <1>2, <1>4 DEF WellPlaced

(* A token the outer loop skips has nothing to mask.                       *)
LEMMA SkippedToken ==
    ASSUME NEW tokens, NEW length, WellPlaced(tokens, length), NEW p,
           NEW i \in 1..Len(tokens), Blank(tokens[i]) \/ ~IsEntity(tokens[i])
    PROVE  SensitiveFrom(tokens, p, i) <=> SensitiveFrom(tokens, p, i + 1)
<1>1. Len(tokens) \in Nat
  BY PlacesRise
<1>2. \A j \in i..Len(tokens) : j = i \/ j \in (i + 1)..Len(tokens)
  BY <1>1
<1>3. \A j \in (i + 1)..Len(tokens) : j \in i..Len(tokens)
  BY <1>1
<1>4. ~(IsEntity(tokens[i]) /\ Covers(tokens[i], p))
  BY DEF Covers
<1>5. \A k \in i..Len(tokens) : ~Between(tokens, i, k, p)
  BY DEF Between
<1>6. \A j, k \in i..Len(tokens) : j < k => k # i
  BY <1>1
<1> QED
  BY <1>2, <1>3, <1>4, <1>5, <1>6 DEF SensitiveFrom

(* A span masks its tokens and what is between them, and nothing else.     *)
LEMMA SpanMasks ==
    ASSUME NEW tokens, NEW length, WellPlaced(tokens, length), NEW p \in Nat,
           NEW i \in 1..Len(tokens), ~Blank(tokens[i]), IsEntity(tokens[i])
    PROVE  SensitiveFrom(tokens, p, i) <=>
                \/ tokens[i].place[1] <= p /\ p < SpanEnd(tokens, i)
                \/ SensitiveFrom(tokens, p, SpanStop(tokens, i))
<1> DEFINE n == Len(tokens)
           stop == SpanStop(tokens, i)
           S(j) == tokens[j].place[1]
           E(j) == tokens[j].place[2]
           here == S(i) <= p /\ p < SpanEnd(tokens, i)
<1>1. /\ n \in Nat /\ DOMAIN tokens = 1..n
      /\ \A j \in 1..n : /\ S(j) \in Nat /\ E(j) \in Nat
                         /\ ~Blank(tokens[j]) => S(j) <= E(j)
      /\ \A j, k \in 1..n :
            ~Blank(tokens[j]) /\ ~Blank(tokens[k]) /\ j < k => E(j) <= S(k)
  BY PlacesRise
<1>2. tokens \in Seq(Tokens) /\ i \in DOMAIN tokens
  BY <1>1 DEF WellPlaced
<1>3. /\ stop \in (i + 1)..(n + 1)
      /\ \A j \in i..(stop - 1) :
            ~Blank(tokens[j]) => /\ IsEntity(tokens[j])
                                 /\ Entity(tokens[j]) = Entity(tokens[i])
      /\ stop <= n => /\ ~Blank(tokens[stop])
                      /\ ~(IsEntity(tokens[stop]) /\ Entity(tokens[stop]) = Entity(tokens[i]))
  <2>1. /\ stop \in (i + 1)..(n + 1)
        /\ \A j \in (i + 1)..(stop - 1) :
              \/ Blank(tokens[j])
              \/ IsEntity(tokens[j]) /\ Entity(tokens[j]) = Entity(tokens[i])
        /\ stop <= n =>
              /\ ~Blank(tokens[stop])
              /\ ~(IsEntity(tokens[stop]) /\ Entity(tokens[stop]) = Entity(tokens[i]))
    BY <1>2, SpanStopIs
  <2> HIDE DEF stop
  <2>2. \A j \in i..(stop - 1) : j = i \/ j \in (i + 1)..(stop - 1)
    BY <1>1, <2>1
  <2> QED
    BY <2>1, <2>2
<1>4. PICK last \in i..(stop - 1) :
            /\ ~Blank(tokens[last])
            /\ \A j \in i..(stop - 1) : ~Blank(tokens[j]) => j <= last
            /\ SpanEnd(tokens, i) = E(last)
  BY <1>2, SpanEndIs
<1>5. last \in 1..n /\ \A j \in i..(stop - 1) : j \in 1..n /\ j \in i..n
  BY <1>1, <1>3
<1> HIDE DEF stop
<1>6. ASSUME NEW j \in i..(stop - 1), ~Blank(tokens[j])
      PROVE  S(i) <= S(j) /\ E(j) <= E(last)
  <2>1. j \in 1..n /\ j <= last /\ i <= j
    BY <1>4, <1>5, <1>6
  <2>2. i \in 1..n /\ last \in 1..n /\ ~Blank(tokens[i]) /\ ~Blank(tokens[last])
    BY <1>1, <1>4, <1>5
  <2>3. i \in Int /\ j \in Int /\ last \in Int
    BY <1>1, <2>1, <2>2
  <2>4. S(i) <= S(j)
    <3>1. CASE j = i
      BY <1>1, <2>2, <3>1
    <3>2. CASE i < j
      BY <1>1, <1>6, <2>1, <2>2, <3>2
    <3> QED
      BY <2>1, <2>3, <3>1, <3>2
  <2>5. E(j) <= E(last)
    <3>1. CASE j = last
      BY <1>1, <2>2, <3>1
    <3>2. CASE j < last
      BY <1>1, <1>6, <2>1, <2>2, <3>2
    <3> QED
      BY <2>1, <2>3, <3>1, <3>2
  <2> QED
    BY <2>4, <2>5
<1>7. ASSUME NEW j \in i..n, IsEntity(tokens[j]), Covers(tokens[j], p)
      PROVE  here \/ SensitiveFrom(tokens, p, stop)
  <2>1. ~Blank(tokens[j]) /\ S(j) <= p /\ p < E(j) /\ j \in 1..n
    BY <1>1, <1>7 DEF Covers
  <2>2. CASE j \in i..(stop - 1)
    BY <1>1, <1>4, <1>5, <1>6, <2>1, <2>2
  <2>3. CASE j \in stop..n
    BY <1>7, <2>3 DEF SensitiveFrom
  <2> QED
    BY <1>1, <1>3, <2>2, <2>3
<1>8. ASSUME NEW j \in i..n, NEW k \in i..n, j < k, Between(tokens, j, k, p)
      PROVE  here \/ SensitiveFrom(tokens, p, stop)
  <2>1. /\ ~Blank(tokens[j]) /\ ~Blank(tokens[k])
        /\ IsEntity(tokens[k]) /\ Entity(tokens[j]) = Entity(tokens[k])
        /\ \A l \in (j + 1)..(k - 1) : Blank(tokens[l])
        /\ E(j) <= p /\ p < S(k) /\ j \in 1..n /\ k \in 1..n
    BY <1>1, <1>8 DEF Between
  <2>2. CASE j >= stop
    <3>1. j \in stop..n /\ k \in stop..n
      BY <1>1, <1>3, <1>8, <2>2
    <3> QED
      BY <1>8, <3>1 DEF SensitiveFrom
  <2>3. CASE k < stop
    <3>1. j \in i..(stop - 1) /\ k \in i..(stop - 1)
      BY <1>1, <1>3, <1>8, <2>3
    <3>2. S(i) <= S(j) /\ E(k) <= E(last)
      BY <1>6, <2>1, <3>1
    <3> QED
      BY <1>1, <1>4, <1>5, <2>1, <3>2
  <2>4. ASSUME j < stop, stop <= k
        PROVE  FALSE
    <3>1. j \in i..(stop - 1) /\ stop <= n /\ stop \in (j + 1)..k
      BY <1>1, <1>3, <1>8, <2>4
    <3>2. Entity(tokens[j]) = Entity(tokens[i]) /\ ~Blank(tokens[stop])
      BY <1>3, <2>1, <3>1
    <3>3. stop = k
      <4>1. stop \notin (j + 1)..(k - 1)
        BY <2>1, <3>2
      <4> QED
        BY <1>1, <3>1, <4>1
    <3> QED
      BY <1>3, <2>1, <3>1, <3>2, <3>3
  <2> QED
    BY <1>1, <1>3, <2>2, <2>3, <2>4
<1>9. ASSUME here PROVE SensitiveFrom(tokens, p, i)
  <2> DEFINE before == {j \in i..last : ~Blank(tokens[j]) /\ S(j) <= p}
             a == Max(before)
  <2>1. i \in before /\ before \subseteq 0..n
    BY <1>1, <1>4, <1>5, <1>9
  <2>2. a \in before /\ \A j \in before : j <= a
    <3> HIDE DEF before
    <3> QED
      BY <1>1, <2>1, GreatestNatural
  <2> HIDE DEF a
  <2>3. /\ a \in i..last /\ a \in 1..n /\ a \in i..n /\ a \in i..(stop - 1)
        /\ ~Blank(tokens[a]) /\ S(a) <= p
        /\ IsEntity(tokens[a]) /\ Entity(tokens[a]) = Entity(tokens[i])
    <3>1. a \in i..last /\ ~Blank(tokens[a]) /\ S(a) <= p
      BY <2>2
    <3>2. a \in i..(stop - 1)
      BY <1>1, <1>3, <3>1
    <3> QED
      BY <1>3, <1>5, <3>1, <3>2
  <2>4. CASE p < E(a)
    <3>1. Covers(tokens[a], p)
      BY <2>3, <2>4, <1>1 DEF Covers
    <3> QED
      BY <2>3, <3>1 DEF SensitiveFrom
  <2>5. CASE ~(p < E(a))
    <3> DEFINE after == {j \in (a + 1)..last : ~Blank(tokens[j])}
               b == Min(after)
    <3>1. last \in after /\ after \subseteq Nat
      <4>1. a # last
        BY <1>1, <1>4, <1>9, <2>5
      <4> QED
        BY <1>1, <1>4, <1>5, <2>3, <4>1
    <3>2. b \in after /\ \A j \in after : b <= j
      <4> HIDE DEF after
      <4> QED
        BY <3>1, LeastNatural
    <3> HIDE DEF b
    <3>3. b \in (a + 1)..last /\ ~Blank(tokens[b])
      BY <3>2
    <3>4. b \in i..(stop - 1) /\ b \in 1..n /\ b \in i..n /\ b \in i..last /\ a < b
      BY <1>1, <1>3, <1>5, <2>3, <3>3
    <3>5. IsEntity(tokens[b]) /\ Entity(tokens[b]) = Entity(tokens[a])
      BY <1>3, <2>3, <3>3, <3>4
    <3>6. \A l \in (a + 1)..(b - 1) : Blank(tokens[l])
      <4> SUFFICES ASSUME NEW l \in (a + 1)..(b - 1), ~Blank(tokens[l])
                   PROVE  FALSE
        OBVIOUS
      <4>1. l \in (a + 1)..last /\ l < b
        BY <1>1, <2>3, <3>4, <3>3, <1>5
      <4>2. l \in after
        BY <4>1
      <4> QED
        BY <3>2, <3>4, <4>1, <4>2
    <3>7. p < S(b)
      <4>1. b \notin before
        BY <2>2, <2>3, <3>4
      <4> QED
        BY <1>1, <3>3, <3>4, <4>1
    <3>8. Between(tokens, a, b, p)
      BY <1>1, <2>3, <2>5, <3>3, <3>4, <3>5, <3>6, <3>7 DEF Between
    <3> QED
      BY <2>3, <3>4, <3>8 DEF SensitiveFrom
  <2> QED
    BY <2>4, <2>5
<1>10. SensitiveFrom(tokens, p, stop) => SensitiveFrom(tokens, p, i)
  <2>1. \A j \in stop..n : j \in i..n
    BY <1>1, <1>3
  <2> QED
    BY <2>1 DEF SensitiveFrom
<1>11. SensitiveFrom(tokens, p, i) => here \/ SensitiveFrom(tokens, p, stop)
  BY <1>7, <1>8, Zenon DEF SensitiveFrom
<1> QED
  BY <1>9, <1>10, <1>11 DEF stop

-----------------------------------------------------------------------------
(* The spans                                                               *)

InSpan(spans, p) == \E k \in DOMAIN spans : spans[k].start <= p /\ p < spans[k].end

InOrder(spans, length) ==
    /\ \A k \in DOMAIN spans : /\ spans[k].start <= spans[k].end
                               /\ spans[k].end <= length
    /\ \A k, l \in DOMAIN spans : k < l => spans[k].end <= spans[l].start

(* The spans from token i on. *)
SpansFit(spans, tokens, length, i) ==
    /\ spans \in Seq(SpanSet)
    /\ InOrder(spans, length)
    /\ \A k \in DOMAIN spans : \E j \in i..Len(tokens) :
            ~Blank(tokens[j]) /\ tokens[j].place[1] <= spans[k].start
    /\ \A p \in Nat : InSpan(spans, p) <=> SensitiveFrom(tokens, p, i)

(* After the last token there is no span.                                  *)
LEMMA SpansEnd ==
    ASSUME NEW tokens, NEW length, WellPlaced(tokens, length)
    PROVE  SpansFit(<<>>, tokens, length, Len(tokens) + 1)
<1>1. Len(tokens) \in Nat
  BY PlacesRise
<1>2. (Len(tokens) + 1)..Len(tokens) = {}
  BY <1>1
<1>3. <<>> \in Seq(SpanSet) /\ DOMAIN <<>> = {}
  BY EmptySeq, LenProperties
<1>4. \A p \in Nat : ~SensitiveFrom(tokens, p, Len(tokens) + 1) /\ ~InSpan(<<>>, p)
  BY <1>2, <1>3 DEF SensitiveFrom, InSpan
<1> QED
  BY <1>3, <1>4 DEF SpansFit, InOrder

(* The spans from the token after a skipped one are those from this one.   *)
LEMMA SpansSkip ==
    ASSUME NEW tokens, NEW length, WellPlaced(tokens, length),
           NEW i \in 1..Len(tokens), Blank(tokens[i]) \/ ~IsEntity(tokens[i]),
           NEW spans, SpansFit(spans, tokens, length, i + 1)
    PROVE  SpansFit(spans, tokens, length, i)
<1>1. \A j \in (i + 1)..Len(tokens) : j \in i..Len(tokens)
  BY PlacesRise
<1>2. \A p \in Nat : SensitiveFrom(tokens, p, i) <=> SensitiveFrom(tokens, p, i + 1)
  BY SkippedToken
<1> QED
  BY <1>1, <1>2 DEF SpansFit

(* A span before those from where it stops.                                *)
LEMMA SpansAdd ==
    ASSUME NEW tokens, NEW length, WellPlaced(tokens, length),
           NEW i \in 1..Len(tokens), ~Blank(tokens[i]), IsEntity(tokens[i]),
           NEW rest, SpansFit(rest, tokens, length, SpanStop(tokens, i))
    PROVE  SpansFit(<<SpanAt(tokens, i)>> \o rest, tokens, length, i)
<1> DEFINE n == Len(tokens)
           stop == SpanStop(tokens, i)
           S(j) == tokens[j].place[1]
           E(j) == tokens[j].place[2]
           span == SpanAt(tokens, i)
           spans == <<span>> \o rest
<1>1. /\ n \in Nat /\ DOMAIN tokens = 1..n /\ length \in Nat
      /\ \A j \in 1..n : /\ S(j) \in Nat /\ E(j) \in Nat
                         /\ ~Blank(tokens[j]) => S(j) <= E(j) /\ E(j) <= length
      /\ \A j, k \in 1..n :
            ~Blank(tokens[j]) /\ ~Blank(tokens[k]) /\ j < k => E(j) <= S(k)
  BY PlacesRise
<1>2. tokens \in Seq(Tokens) /\ i \in DOMAIN tokens
  BY <1>1 DEF WellPlaced
<1>3. stop \in (i + 1)..(n + 1)
  BY <1>2, SpanStopIs
<1>4. PICK last \in i..(stop - 1) :
            ~Blank(tokens[last]) /\ SpanEnd(tokens, i) = E(last)
  BY <1>2, SpanEndIs
<1>5. last \in 1..n /\ i <= last /\ last < stop
  BY <1>1, <1>3, <1>4
<1> HIDE DEF stop
<1>6. /\ span \in SpanSet
      /\ span.start = S(i) /\ span.end = E(last)
      /\ span.start <= span.end /\ span.end <= length
  <2>1. S(i) <= E(last)
    BY <1>1, <1>4, <1>5
  <2> QED
    BY <1>1, <1>4, <1>5, <2>1 DEF SpanAt, SpanSet
<1> HIDE DEF span
<1>7. /\ rest \in Seq(SpanSet) /\ InOrder(rest, length)
      /\ \A p \in Nat : InSpan(rest, p) <=> SensitiveFrom(tokens, p, stop)
      /\ \A k \in DOMAIN rest : \E j \in stop..n : ~Blank(tokens[j]) /\ S(j) <= rest[k].start
  BY DEF SpansFit, stop
<1>8. Len(rest) \in Nat /\ DOMAIN rest = 1..Len(rest)
      /\ \A k \in 1..Len(rest) : rest[k] \in SpanSet /\ rest[k].start \in Nat /\ rest[k].end \in Nat
  <2>1. Len(rest) \in Nat /\ DOMAIN rest = 1..Len(rest)
    BY <1>7, LenProperties
  <2>2. \A k \in 1..Len(rest) : rest[k] \in SpanSet
    BY <1>7, <2>1, ElementOfSeq
  <2> QED
    BY <2>1, <2>2 DEF SpanSet
<1>9. /\ spans \in Seq(SpanSet) /\ DOMAIN spans = 1..(1 + Len(rest))
      /\ spans[1] = span
      /\ \A k \in 1..Len(rest) : spans[k + 1] = rest[k]
  <2>1. <<span>> \in Seq(SpanSet) /\ Len(<<span>>) = 1 /\ <<span>>[1] = span
    BY <1>6
  <2>2. /\ spans \in Seq(SpanSet) /\ Len(spans) = 1 + Len(rest)
        /\ \A k \in 1..(1 + Len(rest)) :
                spans[k] = IF k <= 1 THEN <<span>>[k] ELSE rest[k - 1]
    BY <1>7, <2>1, ConcatProperties
  <2>3. DOMAIN spans = 1..(1 + Len(rest))
    BY <2>2, LenProperties
  <2> HIDE DEF spans
  <2>4. \A k \in 1..Len(rest) : spans[k + 1] = rest[k]
    <3> SUFFICES ASSUME NEW k \in 1..Len(rest) PROVE spans[k + 1] = rest[k]
      OBVIOUS
    <3>1. k + 1 \in 1..(1 + Len(rest)) /\ ~(k + 1 <= 1) /\ (k + 1) - 1 = k
      BY <1>8
    <3> QED
      BY <2>2, <3>1
  <2> QED
    BY <1>8, <2>1, <2>2, <2>3, <2>4
<1> HIDE DEF spans
<1>10. \A k \in DOMAIN spans :
            k = 1 \/ (k - 1 \in 1..Len(rest) /\ spans[k] = rest[k - 1])
  <2> SUFFICES ASSUME NEW k \in DOMAIN spans, k # 1
               PROVE  k - 1 \in 1..Len(rest) /\ spans[k] = rest[k - 1]
    OBVIOUS
  <2>1. k - 1 \in 1..Len(rest) /\ (k - 1) + 1 = k
    BY <1>8, <1>9
  <2> QED
    BY <1>9, <2>1
<1>11. \A k \in 1..Len(rest) : span.end <= rest[k].start
  <2> SUFFICES ASSUME NEW k \in 1..Len(rest) PROVE E(last) <= rest[k].start
    BY <1>6
  <2>1. PICK j \in stop..n : ~Blank(tokens[j]) /\ S(j) <= rest[k].start
    BY <1>7, <1>8
  <2>2. j \in 1..n /\ last < j
    BY <1>1, <1>3, <1>5
  <2>3. E(last) <= S(j)
    BY <1>1, <1>4, <1>5, <2>1, <2>2
  <2> QED
    BY <1>1, <1>5, <1>8, <2>1, <2>2, <2>3
<1>12. InOrder(spans, length)
  <2>1. ASSUME NEW k \in DOMAIN spans
        PROVE  spans[k].start <= spans[k].end /\ spans[k].end <= length
    BY <1>6, <1>7, <1>8, <1>9, <1>10 DEF InOrder
  <2>2. ASSUME NEW k \in DOMAIN spans, NEW l \in DOMAIN spans, k < l
        PROVE  spans[k].end <= spans[l].start
    <3>1. k \in Nat /\ l \in Nat /\ l # 1
      BY <1>8, <1>9, <2>2
    <3>2. l - 1 \in 1..Len(rest) /\ spans[l] = rest[l - 1]
      BY <1>10, <3>1
    <3>3. CASE k = 1
      BY <1>9, <1>11, <3>2, <3>3
    <3>4. CASE k # 1
      <4>1. k - 1 \in 1..Len(rest) /\ spans[k] = rest[k - 1] /\ k - 1 < l - 1
        BY <1>10, <2>2, <3>1, <3>4
      <4> QED
        BY <1>7, <1>8, <3>2, <4>1 DEF InOrder
    <3> QED
      BY <3>3, <3>4
  <2> QED
    BY <2>1, <2>2 DEF InOrder
<1>13. ASSUME NEW k \in DOMAIN spans
       PROVE  \E j \in i..n : ~Blank(tokens[j]) /\ S(j) <= spans[k].start
  <2>1. CASE k = 1
    <3>1. i \in i..n /\ S(i) <= spans[1].start
      BY <1>1, <1>6, <1>9
    <3> QED
      BY <2>1, <3>1
  <2>2. CASE k # 1
    <3>1. PICK j \in stop..n : ~Blank(tokens[j]) /\ S(j) <= spans[k].start
      BY <1>7, <1>8, <1>10, <2>2
    <3>2. j \in i..n
      BY <1>1, <1>3
    <3> QED
      BY <3>1, <3>2
  <2> QED
    BY <2>1, <2>2
<1>14. ASSUME NEW p \in Nat
       PROVE  InSpan(spans, p) <=> SensitiveFrom(tokens, p, i)
  <2>1. SensitiveFrom(tokens, p, i) <=>
            \/ S(i) <= p /\ p < SpanEnd(tokens, i)
            \/ SensitiveFrom(tokens, p, stop)
    BY SpanMasks DEF stop
  <2>2. InSpan(spans, p) <=> (span.start <= p /\ p < span.end) \/ InSpan(rest, p)
    <3>1. 1 \in DOMAIN spans /\ \A k \in 1..Len(rest) : k + 1 \in DOMAIN spans
      BY <1>8, <1>9
    <3> QED
      BY <1>8, <1>9, <1>10, <3>1 DEF InSpan
  <2> QED
    BY <1>4, <1>6, <1>7, <2>1, <2>2
<1> QED
  BY <1>9, <1>12, <1>13, <1>14 DEF SpansFit, spans, span

(* So all spans are in order and hold what is sensitive.                   *)
LEMMA SpansAreRight ==
    ASSUME NEW tokens, NEW length, WellPlaced(tokens, length)
    PROVE  SpansFit(Spans(tokens), tokens, length, 1)
<1> DEFINE n == Len(tokens)
<1>1. n \in Nat /\ DOMAIN tokens = 1..n /\ tokens \in Seq(Tokens)
  BY PlacesRise DEF WellPlaced
<1>2. PICK f : /\ f = [i \in 1..(n + 1) |-> SpansStep(f, tokens, i)]
               /\ Spans(tokens) = f[1]
  BY <1>1, SpansDef
<1>3. \A i \in 1..(n + 1) : f[i] = SpansStep(f, tokens, i)
  BY <1>2
<1> DEFINE Q == {m \in Nat : \A i \in 1..(n + 1) :
                        n + 1 - i <= m => SpansFit(f[i], tokens, length, i)}
<1>4. 0 \in Q
  <2> SUFFICES ASSUME NEW i \in 1..(n + 1), n + 1 - i <= 0
               PROVE  SpansFit(f[i], tokens, length, i)
    OBVIOUS
  <2>1. i = n + 1 /\ i > n
    BY <1>1
  <2> QED
    BY <1>3, <2>1, SpansEnd DEF SpansStep
<1>5. ASSUME NEW m \in Nat, m \in Q
      PROVE  m + 1 \in Q
  <2> SUFFICES ASSUME NEW i \in 1..(n + 1), n + 1 - i <= m + 1
               PROVE  SpansFit(f[i], tokens, length, i)
    OBVIOUS
  <2>1. CASE i = n + 1
    <3>1. i > n
      BY <1>1, <2>1
    <3> QED
      BY <1>3, <2>1, <3>1, SpansEnd DEF SpansStep
  <2>2. CASE i # n + 1
    <3>1. i \in 1..n /\ i \in DOMAIN tokens /\ ~(i > n)
      BY <1>1, <2>2
    <3>2. CASE Blank(tokens[i]) \/ ~IsEntity(tokens[i])
      <4>1. f[i] = f[i + 1]
        BY <1>3, <3>1, <3>2 DEF SpansStep
      <4>2. SpansFit(f[i + 1], tokens, length, i + 1)
        BY <1>1, <1>5, <3>1
      <4> QED
        BY <3>1, <3>2, <4>1, <4>2, SpansSkip
    <3>3. CASE ~Blank(tokens[i]) /\ IsEntity(tokens[i])
      <4>1. f[i] = <<SpanAt(tokens, i)>> \o f[SpanStop(tokens, i)]
        BY <1>3, <3>1, <3>3 DEF SpansStep
      <4>2. SpanStop(tokens, i) \in (i + 1)..(n + 1)
        BY <1>1, <3>1, SpanStopIs
      <4>3. SpansFit(f[SpanStop(tokens, i)], tokens, length, SpanStop(tokens, i))
        BY <1>1, <1>5, <3>1, <4>2
      <4> QED
        BY <3>1, <3>3, <4>1, <4>3, SpansAdd
    <3> QED
      BY <3>2, <3>3
  <2> QED
    BY <2>1, <2>2
<1>6. n \in Q
  <2> HIDE DEF Q
  <2> QED
    BY <1>1, <1>4, <1>5, NaturalsOf
<1>7. 1 \in 1..(n + 1) /\ n + 1 - 1 <= n
  BY <1>1
<1> QED
  BY <1>2, <1>6, <1>7

(* Between spans in order lies what is in none of them.                    *)
LEMMA KeptIsRest ==
    ASSUME NEW tokens, NEW length \in Nat, Spans(tokens) \in Seq(SpanSet),
           InOrder(Spans(tokens), length)
    PROVE  Kept(tokens, length) = {p \in 0..(length - 1) : ~InSpan(Spans(tokens), p)}
<1> DEFINE spans == Spans(tokens)
           n == Len(spans)
           pos(k) == IF k = 0 THEN 0 ELSE spans[k].end
           next(k) == IF k = n THEN length ELSE spans[k + 1].start
           gaps == UNION {pos(k)..(next(k) - 1) : k \in 0..n}
<1>1. Kept(tokens, length) = gaps
  BY DEF Kept
<1>2. /\ n \in Nat /\ DOMAIN spans = 1..n
      /\ \A k \in 1..n : spans[k].start \in Nat /\ spans[k].end \in Nat
  <2>1. n \in Nat /\ DOMAIN spans = 1..n
    BY LenProperties
  <2>2. \A k \in 1..n : spans[k] \in SpanSet
    BY <2>1, ElementOfSeq
  <2> QED
    BY <2>1, <2>2 DEF SpanSet
<1>3. /\ \A k \in 1..n : spans[k].start <= spans[k].end /\ spans[k].end <= length
      /\ \A k, l \in 1..n : k < l => spans[k].end <= spans[l].start
  BY <1>2, Zenon DEF InOrder
<1> HIDE DEF spans, n
<1>4. \A k : /\ pos(k) = IF k = 0 THEN 0 ELSE spans[k].end
            /\ next(k) = IF k = n THEN length ELSE spans[k + 1].start
  OBVIOUS
<1> HIDE DEF pos, next
<1>5. ASSUME NEW k \in 0..n, NEW p \in pos(k)..(next(k) - 1)
      PROVE  p \in 0..(length - 1) /\ ~InSpan(spans, p)
  <2>1. k \in Nat /\ (k # 0 => k \in 1..n) /\ (k # n => k + 1 \in 1..n)
    BY <1>2
  <2>2. pos(k) \in Nat
    BY <1>2, <1>4, <2>1
  <2>3. next(k) \in Nat /\ next(k) <= length
    <3>1. CASE k = n
      BY <1>4, <3>1
    <3>2. CASE k # n
      <4>1. /\ spans[k + 1].start \in Nat /\ spans[k + 1].end \in Nat
            /\ spans[k + 1].start <= spans[k + 1].end /\ spans[k + 1].end <= length
        BY <1>2, <1>3, <2>1, <3>2
      <4> QED
        BY <1>4, <3>2, <4>1
    <3> QED
      BY <3>1, <3>2
  <2>4. /\ p \in 0..(length - 1) /\ p \in Nat
        /\ k # 0 => spans[k].end <= p
        /\ k # n => p < spans[k + 1].start
    <3>1. /\ k # 0 => pos(k) = spans[k].end
          /\ k # n => next(k) = spans[k + 1].start
      BY <1>4
    <3>2. p \in Nat /\ pos(k) <= p /\ p < next(k)
      BY <1>5, <2>2, <2>3
    <3> QED
      BY <2>2, <2>3, <3>1, <3>2
  <2>5. ASSUME NEW l \in 1..n, spans[l].start <= p, p < spans[l].end
        PROVE  FALSE
    <3>1. l \in Nat /\ spans[l].start \in Nat /\ spans[l].end \in Nat
      BY <1>2
    <3>2. CASE l <= k
      <4>1. k # 0 /\ k \in 1..n /\ (l = k \/ l < k)
        BY <1>2, <2>1, <3>1, <3>2
      <4>2. spans[k].start \in Nat /\ spans[k].end \in Nat /\ spans[l].end <= spans[k].end
        <5>1. /\ spans[k].start \in Nat /\ spans[k].end \in Nat
              /\ spans[k].start <= spans[k].end
              /\ l < k => spans[l].end <= spans[k].start
          BY <1>2, <1>3, <4>1
        <5> QED
          BY <3>1, <4>1, <5>1
      <4> QED
        BY <2>4, <2>5, <3>1, <4>1, <4>2
    <3>3. CASE l > k
      <4>1. k # n /\ k + 1 \in 1..n /\ (l = k + 1 \/ k + 1 < l)
        BY <1>2, <2>1, <3>1, <3>3
      <4>2. spans[k + 1].start \in Nat /\ spans[k + 1].start <= spans[l].start
        <5>1. /\ spans[k + 1].start \in Nat /\ spans[k + 1].end \in Nat
              /\ spans[k + 1].start <= spans[k + 1].end
              /\ k + 1 < l => spans[k + 1].end <= spans[l].start
          BY <1>2, <1>3, <4>1
        <5> QED
          BY <3>1, <4>1, <5>1
      <4> QED
        BY <2>4, <2>5, <3>1, <4>1, <4>2
    <3> QED
      BY <2>1, <3>1, <3>2, <3>3
  <2> QED
    BY <1>2, <2>4, <2>5, Zenon DEF InSpan
<1>6. ASSUME NEW p \in 0..(length - 1), ~InSpan(spans, p)
      PROVE  \E k \in 0..n : p \in pos(k)..(next(k) - 1)
  <2> DEFINE passed == {k \in 0..n : pos(k) <= p}
             k == Max(passed)
  <2>1. 0 \in passed /\ passed \subseteq 0..n
    BY <1>2, <1>4
  <2>2. k \in passed /\ \A l \in passed : l <= k
    <3> HIDE DEF passed
    <3> QED
      BY <1>2, <2>1, GreatestNatural
  <2> HIDE DEF k
  <2>3. k \in 0..n /\ pos(k) <= p
    BY <2>2
  <2>4. pos(k) \in Nat
    BY <1>2, <1>4, <2>3
  <2>5. p < next(k) /\ next(k) \in Nat
    <3>1. CASE k = n
      BY <1>4, <3>1
    <3>2. CASE k # n
      <4>1. k + 1 \in 1..n /\ k + 1 # 0 /\ ~(k + 1 <= k)
        BY <1>2, <2>3, <3>2
      <4>2. k + 1 \notin passed
        BY <2>2, <4>1
      <4>3. p < spans[k + 1].end
        <5>1. ~(pos(k + 1) <= p)
          BY <1>2, <4>1, <4>2
        <5>2. pos(k + 1) = spans[k + 1].end
          BY <1>4, <4>1
        <5> QED
          BY <1>2, <4>1, <5>1, <5>2
      <4>4. ~(spans[k + 1].start <= p)
        BY <1>2, <1>6, <4>1, <4>3 DEF InSpan
      <4> QED
        BY <1>2, <1>4, <3>2, <4>1, <4>4
    <3> QED
      BY <3>1, <3>2
  <2>6. p \in pos(k)..(next(k) - 1)
    BY <2>3, <2>4, <2>5
  <2> QED
    BY <2>3, <2>6
<1>7. gaps = {p \in 0..(length - 1) : ~InSpan(spans, p)}
  BY <1>5, <1>6
<1> QED
  BY <1>1, <1>7 DEF spans

(* Whatever the labels: for places that rise, nothing of an entity is kept *)
(* and nothing else is lost.                                               *)
THEOREM RedactionIsExact ==
    ASSUME NEW tokens, NEW length, WellPlaced(tokens, length)
    PROVE  MasksEntities(tokens, length)
<1>1. Len(tokens) \in Nat /\ DOMAIN tokens = 1..Len(tokens) /\ length \in Nat
  BY PlacesRise
<1>2. SpansFit(Spans(tokens), tokens, length, 1)
  BY SpansAreRight
<1>3. Kept(tokens, length) = {p \in 0..(length - 1) : ~InSpan(Spans(tokens), p)}
  BY <1>1, <1>2, KeptIsRest DEF SpansFit
<1>4. \A p \in 0..(length - 1) : InSpan(Spans(tokens), p) <=> Sensitive(tokens, p)
  <2>1. \A p : Sensitive(tokens, p) <=> SensitiveFrom(tokens, p, 1)
    BY <1>1 DEF Sensitive, SensitiveFrom
  <2>2. \A p \in 0..(length - 1) : p \in Nat
    BY <1>1
  <2> QED
    BY <1>2, <2>1, <2>2 DEF SpansFit
<1> QED
  BY <1>3, <1>4 DEF MasksEntities

-----------------------------------------------------------------------------
(* The theorems *)

(* No task fails without a cause outside the machine's readings.           *)
THEOREM FailuresHaveCauses == Spec => []FailureHasCause
<1>1. WorkerInv => FailureHasCause
      BY DEF WorkerInv
<1> QED
    BY <1>1, WorkerInvHolds, PTL

(* A PII task is answered with what is not masked by the model's own       *)
(* labels only for an output that hardly varies or after a hot swap.       *)
THEOREM PiiLeaksHaveCauses == Spec => []PiiLeakHasCause
<1>1. WorkerInv => PiiLeakHasCause
      BY DEF WorkerInv
<1> QED
    BY <1>1, WorkerInvHolds, PTL

(* The log names the model that ran, except for a promoted standby.        *)
THEOREM RecordsNameModels == Spec => []RecordNamesModel
<1>1. WorkerInv => RecordNamesModel
      BY DEF WorkerInv
<1> QED
    BY <1>1, WorkerInvHolds, PTL

(* While a task waits for its execution, a better machine would have been  *)
(* let run it too.                                                         *)
THEOREM BetterMachinesKeepWork == Spec => []BetterMachineKeepsWork
<1>1. TypeOK => BetterMachineKeepsWork
  <2> SUFFICES ASSUME TypeOK, call # None, ~call.answered, NEW m \in Readings
               PROVE  KeepsWork(m, call.reading)
      BY DEF BetterMachineKeepsWork
  <2> QED
      BY PendingCall, RulesAreMonotone, WorkerAssumption
<1> QED
    BY <1>1, TypeCorrect, PTL

(* What the entity branch answers keeps exactly what is no entity, for any *)
(* texts whose tokens have places that rise.                               *)
THEOREM EntitiesAreMasked == Spec => []EntityAnswersAreMasked
<1>1. EntityAnswersAreMasked
      BY RedactionIsExact, WorkerAssumption DEF EntityAnswersAreMasked, TextsAreMasked
<1> QED
    BY <1>1, PTL

=============================================================================

----------------------------- MODULE LocalWorker -----------------------------
(***************************************************************************)
(* One machine's orchestrator, router and local worker, one call at a time *)
(* (core/orchestrator.py, core/router.py, core/local_worker.py).           *)
(*                                                                         *)
(* The worker keeps an ONNX session, a second one in warm standby, and what*)
(* it has found out about the model when it loaded it; a generative backend*)
(* comes before both.  The router warms the standby up and promotes it by  *)
(* the machine's readings, decides on a target and fails over.             *)
(*                                                                         *)
(* Abstractions.  ONNX Runtime is installed, so there is a local worker.   *)
(* A file is known by the shape of its first output, by whether its name   *)
(* says it is a BERT, and by the inputs it asks for; all this is fixed in  *)
(* the file.  The scores of a model stand for what is made of them.  Times *)
(* and memory use are left out.  AgentExecution has the concurrent calls;  *)
(* here there is one call, in two steps, its decision and its run.         *)
(***************************************************************************)
EXTENDS Routing, Redaction

CONSTANTS
    Files,          \* ONNX files
    Shape,          \* the first output of each file, see Shapes
    Bert,           \* the files with "bert" in their path
    Inputs,         \* the inputs of each file
    Quantized,      \* each file's "_quantized" variant on disk, or None
    Llms,           \* generative models
    LlmSize,        \* their size at full precision
    LlmFormat,      \* their format
    Engines,        \* the backends that are installed
    Apple,          \* the machine is an Apple Silicon one
    OpenClaw,       \* OPENCLAW_URL is set
    AllProviders,   \* what ONNX Runtime offers, in its order
    Primary,        \* primary_provider of the hardware scanner
    ForcedProvider, \* the environment's ORT_PROVIDER, or None
    Tasks,          \* the tasks a caller may ask for
    Readings,       \* the metrics the telemetry may return
    Texts,          \* texts a model may label, with their tokens
    MaxRecords,     \* max_records of the inference log
    MaxSwaps        \* hot swaps in a run (bound)

(* labels: three dimensions, the last at most 50; hidden: up to 1000; wide:*)
(* up to 2000; vocab: more; flat: two dimensions.                          *)
Shapes == {"labels", "hidden", "wide", "vocab", "flat"}

TaskSet == [kind : {"pii", "other"}, text : BOOLEAN, complexity : Complexities,
            preferred : {"local", "cloud", "auto", None}, size : ModelSizes]

ASSUME WorkerAssumption ==
    /\ Shape \in [Files -> Shapes]
    /\ Bert \subseteq Files
    /\ DOMAIN Inputs = Files
    /\ Quantized \in [Files -> Files \cup {None}]
    /\ \A f \in Files : Quantized[f] # None =>
            /\ Shape[Quantized[f]] = Shape[f]
            /\ Inputs[Quantized[f]] = Inputs[f]
    /\ LlmSize \in [Llms -> Nat]
    /\ Files \cap Llms = {}
    /\ None \notin Files \cup Llms
    /\ Tasks \subseteq TaskSet
    /\ Readings \subseteq Metrics
    /\ \A text \in Texts : WellPlaced(text.tokens, text.length)
    /\ MaxRecords \in Nat \ {0}
    /\ MaxSwaps \in Nat

VARIABLES
    modelPath,      \* model_path of the constructor, never changed later
    built,          \* the constructor has run
    session,        \* the file of the ONNX session
    shadow,         \* the file of the session in warm standby
    modelLoaded,    \* model_loaded
    provider,       \* execution_provider
    modelName,      \* _current_model_name
    tokenizer,      \* the file whose tokenizer is loaded
    modelType,      \* is_ner and is_causal: "ner", "causal" or "encoder"
    dummies,        \* _cached_inputs: the inputs they were made for
    backend,        \* the model of _active_backend
    cloud,          \* the router has a cloud worker
    log,            \* InferenceLog
    call,           \* the execute_task under way, and what came of it
    promoted,       \* history: the session is a promoted standby
    swaps,          \* history: hot swaps
    spoiled         \* history: the session was taken away or disabled

sessionVars == <<session, modelLoaded, provider, modelName, tokenizer, modelType>>
history == <<promoted, swaps, spoiled>>
vars == <<modelPath, built, sessionVars, shadow, dummies, backend, cloud, log,
          call, history>>

-----------------------------------------------------------------------------
(* Loading                                                                 *)

(* _detect_execution_providers: the one the environment forces, or those   *)
(* ONNX Runtime has, in order of preference, the scanner's choice first.   *)
Preference == [QNN |-> 1, CoreML |-> 2, OpenVINO |-> 3, DirectML |-> 4,
               CUDA |-> 5, CPU |-> 6]

AvailableProviders ==
    AllProviders \cap (IF ForcedProvider = None THEN DOMAIN Preference
                                                ELSE {ForcedProvider})

Before(p, q) ==
    q # Primary /\ (p = Primary \/ ForcedProvider # None
                                \/ Preference[p] <= Preference[q])

(* load_model tries them in this order: it ends with the first that makes  *)
(* a session of the file and is really used.                               *)
LoadsWith(p, works) ==
    /\ p \in AvailableProviders \cap works
    /\ \A q \in (AvailableProviders \cap works) \ {p} : Before(p, q)

NoneWorks(works) == AvailableProviders \cap works = {}

(* Faulty: takes any BERT for a token classifier. *)
DetectTypeByName(f) ==
    CASE f \in Bert \/ Shape[f] = "labels" -> "ner"
      [] f \notin Bert /\ Shape[f] = "vocab" -> "causal"
      [] OTHER -> "encoder"

(* The type is found out before the tokenizer of the file is loaded: what  *)
(* counts is whether there is one already.                                 *)
DetectType(f) ==
    CASE f \in Bert /\ tokenizer # None -> "ner"
      [] Shape[f] = "labels" -> "ner"
      [] Shape[f] = "vocab" /\ ~(f \in Bert /\ tokenizer # None) -> "causal"
      [] OTHER -> "encoder"

(* load_model, when a provider works.  A tokenizer that cannot be loaded   *)
(* leaves the earlier one.                                                 *)
LoadModel(f, p, tokenized) ==
    /\ session' = f
    /\ provider' = p
    /\ modelLoaded' = TRUE
    /\ modelName' = f
    /\ modelType' = DetectType(f)
    /\ tokenizer' = IF tokenized THEN f ELSE tokenizer
    /\ promoted' = FALSE

(* The constructor loads the model and then its quantized variant; either  *)
(* may fail.                                                               *)
Construct ==
    /\ ~built
    /\ built' = TRUE
    /\ modelPath # None
    /\ \E works \in SUBSET AllProviders :
        \/ /\ \E p \in AllProviders, tokenized \in BOOLEAN :
                LoadsWith(p, works) /\ LoadModel(modelPath, p, tokenized)
           /\ UNCHANGED spoiled
        \/ /\ NoneWorks(works)
           /\ spoiled' = TRUE
           /\ UNCHANGED <<sessionVars, promoted>>
    /\ shadow' \in {None, Quantized[modelPath]}
    /\ UNCHANGED <<modelPath, dummies, backend, cloud, log, call, swaps>>

ConstructEmpty ==
    /\ ~built
    /\ built' = TRUE
    /\ modelPath = None
    /\ spoiled' = TRUE
    /\ UNCHANGED <<modelPath, sessionVars, shadow, dummies, backend, cloud, log,
                   call, promoted, swaps>>

(* Another thread may load, swap or unload a model before the task runs    *)
(* that was decided for; an answer is looked at before anything else.      *)
Answered == call # None /\ call.answered

(* hot_swap_model lets go of the session before it loads the other file.   *)
HotSwap(f) ==
    /\ built /\ ~Answered
    /\ swaps < MaxSwaps
    /\ swaps' = swaps + 1
    /\ dummies' = None
    /\ \E works \in SUBSET AllProviders :
        \/ /\ \E p \in AllProviders, tokenized \in BOOLEAN :
                LoadsWith(p, works) /\ LoadModel(f, p, tokenized)
           /\ spoiled' = FALSE
        \/ /\ NoneWorks(works)
           /\ session' = None
           /\ modelLoaded' = FALSE
           /\ spoiled' = TRUE
           /\ promoted' = FALSE
           /\ UNCHANGED <<provider, modelName, tokenizer, modelType>>
    /\ UNCHANGED <<modelPath, built, shadow, backend, cloud, log, call>>

(* NPUOrchestrator.load_generative_model: nothing when a model is active;  *)
(* otherwise the backend checks the memory, which may have changed since   *)
(* the quantization was chosen, and the library may fail.                  *)
LoadLlm(l, ram, fails) ==
    /\ built /\ ~Answered
    /\ backend = None
    /\ ~fails
    /\ LET engine == Select("text-generation", LlmFormat[l], Apple, OpenClaw, Engines)
       IN  /\ engine # None
           /\ HasMemoryFor(engine, LlmSize[l], AutoQuantization(LlmSize[l], ram), ram)
    /\ backend' = l
    /\ modelLoaded' = TRUE
    /\ modelName' = l
    /\ UNCHANGED <<modelPath, built, session, provider, tokenizer, modelType,
                   shadow, dummies, cloud, log, call, history>>

(* unload_generative_model, which cleanup calls too: the session, if there *)
(* is one, is kept but counts as not loaded.                               *)
UnloadLlm ==
    /\ ~Answered
    /\ backend # None
    /\ backend' = None
    /\ modelLoaded' = FALSE
    /\ spoiled' = TRUE
    /\ UNCHANGED <<modelPath, built, session, provider, modelName, tokenizer,
                   modelType, shadow, dummies, cloud, log, call, promoted, swaps>>

-----------------------------------------------------------------------------
(* A task                                                                  *)

(* ensure_shadow_model_loaded looks for the variant of the file the        *)
(* constructor was given.                                                  *)
Ensure(m, loads) ==
    shadow' = IF /\ WarmsUp(m) /\ loads /\ shadow = None
                 /\ modelPath # None /\ Quantized[modelPath] # None
              THEN Quantized[modelPath] ELSE shadow

(* promote_shadow_model leaves the name, the type and the tokenizer.       *)
Promote(m) ==
    IF Swaps(m) /\ shadow' # None
    THEN session' = shadow' /\ modelLoaded' = TRUE /\ promoted' = TRUE
    ELSE UNCHANGED <<session, modelLoaded, promoted>>

Failure == [ok |-> FALSE, how |-> None]
Answer(how) == [ok |-> TRUE, how |-> how]

UsesText(t) == tokenizer # None /\ t.text

(* Without text to encode the model is fed with cached constants, made for *)
(* the inputs of the session that was first fed with them.                 *)
FeedsDummies(t) ==
    dummies' = IF modelLoaded /\ session # None /\ ~UsesText(t) /\ dummies = None
               THEN Inputs[session] ELSE dummies

(* The entity branch asks the encoded text for its offsets.                *)
MaskedBy(f, t) ==
    CASE ~UsesText(t) -> Failure
      [] UsesText(t) /\ Shape[f] = "labels" -> Answer("entities")
      [] OTHER -> Answer("guess")

(* What is made of the output: generated text from a last dimension above  *)
(* 1000; below it the regular expressions for PII, unless the output hardly*)
(* varies, and a summary for the rest; without a tokenizer, its shape.     *)
Decoded(f, t, silent) ==
    CASE Shape[f] = "flat" -> Answer("label")
      [] Shape[f] # "flat" /\ tokenizer = None -> Answer("shape")
      [] Shape[f] \in {"wide", "vocab"} /\ tokenizer # None -> Answer("generated")
      [] OTHER -> IF t.kind # "pii" THEN Answer("summary")
                  ELSE IF silent THEN Answer("raw") ELSE Answer("scrubbed")

(* _execute_onnx_inference, after FeedsDummies. *)
OnnxResult(t, raises, silent) ==
    CASE ~modelLoaded \/ session = None -> Failure
      [] OTHER ->
            IF raises \/ ~(UsesText(t) \/ dummies' = Inputs[session]) THEN Failure
            ELSE IF t.kind = "pii" /\ modelType = "ner" /\ Shape[session] # "flat"
            THEN MaskedBy(session, t)
            ELSE Decoded(session, t, silent)

(* LocalWorker.execute *)
LocalResult(t, raises, silent) ==
    IF backend # None
    THEN IF raises THEN Failure ELSE Answer("llm")
    ELSE OnnxResult(t, raises, silent)

(* execute_task_with_failover: a failure on the worker goes to the cloud,  *)
(* and so does a task decided for it.                                      *)
Outcome(target, local, cloudFails) ==
    IF target = "local" /\ local.ok THEN local
    ELSE IF cloud /\ ~cloudFails THEN Answer("cloud")
    ELSE Failure

Record == [name |-> modelName, ran |-> session, promoted |-> promoted]

Appended(rec) ==
    LET longer == Append(log, rec)
    IN  IF Len(longer) > MaxRecords THEN Tail(longer) ELSE longer

(* make_routing_decision: the readings, the standby, the target.           *)
Route(t, m, loads) ==
    /\ built
    /\ call = None
    /\ Ensure(m, loads)
    /\ Promote(m)
    /\ call' = [task |-> t, answered |-> FALSE, reading |-> m,
                target |-> Decide(t.preferred, t.complexity, t.size, m, TRUE, cloud)]
    /\ UNCHANGED <<modelPath, built, provider, modelName, tokenizer, modelType,
                   dummies, backend, cloud, log, swaps, spoiled>>

(* NPUOrchestrator.execute_task from there: the execution, and the record  *)
(* of an inference on an ONNX session.                                     *)
ExecuteTask(raises, silent, cloudFails) ==
    LET t == call.task
        onWorker == call.target = "local"
        local == IF onWorker THEN LocalResult(t, raises, silent) ELSE Failure
        outcome == Outcome(call.target, local, cloudFails)
    IN  /\ call # None /\ ~call.answered
        /\ IF onWorker /\ backend = None THEN FeedsDummies(t) ELSE UNCHANGED dummies
        /\ log' = IF local.ok /\ backend = None THEN Appended(Record) ELSE log
        /\ call' = [task |-> t, answered |-> TRUE, target |-> call.target,
                    ok |-> outcome.ok, how |-> outcome.how, read |-> UsesText(t),
                    raised |-> raises, silent |-> silent, cloudFailed |-> cloudFails]
        /\ UNCHANGED <<modelPath, built, sessionVars, shadow, backend, cloud, history>>

Return ==
    /\ call # None /\ call.answered
    /\ call' = None
    /\ UNCHANGED <<modelPath, built, sessionVars, shadow, dummies, backend, cloud,
                   log, history>>

Init ==
    /\ modelPath \in Files \cup {None}
    /\ built = FALSE
    /\ session = None
    /\ shadow = None
    /\ modelLoaded = FALSE
    /\ provider = None
    /\ modelName = None
    /\ tokenizer = None
    /\ modelType = "encoder"
    /\ dummies = None
    /\ backend = None
    /\ cloud \in BOOLEAN
    /\ log = <<>>
    /\ call = None
    /\ promoted = FALSE
    /\ swaps = 0
    /\ spoiled = FALSE

Next ==
    \/ Construct
    \/ ConstructEmpty
    \/ \E f \in Files : HotSwap(f)
    \/ \E l \in Llms, m \in Readings, fails \in BOOLEAN : LoadLlm(l, m.ram, fails)
    \/ UnloadLlm
    \/ \E t \in Tasks, m \in Readings, loads \in BOOLEAN : Route(t, m, loads)
    \/ \E raises, silent, cloudFails \in BOOLEAN :
            ExecuteTask(raises, silent, cloudFails)
    \/ Return

Spec == Init /\ [][Next]_vars

-----------------------------------------------------------------------------
(* Properties                                                              *)

Hows == {"entities", "guess", "scrubbed", "raw", "summary", "generated",
         "label", "shape", "llm", "cloud"}

Calls ==
    [task : Tasks, answered : {FALSE}, reading : Readings, target : {"local", "cloud"}]
    \cup [task : Tasks, answered : {TRUE}, target : {"local", "cloud"},
          ok : BOOLEAN, how : Hows \cup {None}, read : BOOLEAN,
          raised : BOOLEAN, silent : BOOLEAN, cloudFailed : BOOLEAN]

ASSUME CallAssumption == None \notin Calls \cup Hows

RecordSet == [name : Files \cup Llms \cup {None}, ran : Files, promoted : BOOLEAN]

(* Every variable of the worker and its history keeps its type, and the    *)
(* log its bound.                                                          *)
TypeOK ==
    /\ modelPath \in Files \cup {None}
    /\ built \in BOOLEAN
    /\ session \in Files \cup {None}
    /\ shadow \in Files \cup {None}
    /\ modelLoaded \in BOOLEAN
    /\ provider \in AllProviders \cup {None}
    /\ modelName \in Files \cup Llms \cup {None}
    /\ tokenizer \in Files \cup {None}
    /\ modelType \in {"ner", "causal", "encoder"}
    /\ dummies \in {Inputs[f] : f \in Files} \cup {None}
    /\ backend \in Llms \cup {None}
    /\ cloud \in BOOLEAN
    /\ log \in Seq(RecordSet) /\ Len(log) <= MaxRecords
    /\ call \in Calls \cup {None}
    /\ promoted \in BOOLEAN
    /\ swaps \in 0..MaxSwaps
    /\ spoiled \in BOOLEAN

(* A task fails only where something failed: the cloud worker, when there  *)
(* is one; without one, because it asked for the cloud, its inference      *)
(* raised, no model could be loaded or the last was taken away, PII was to *)
(* be masked in what is no text, or the standby of an earlier model took   *)
(* over.  No reading of the machine makes a task fail.                     *)
FailureHasCause ==
    Answered /\ ~call.ok =>
        IF cloud THEN call.cloudFailed
        ELSE \/ call.task.preferred = "cloud"
             \/ call.raised
             \/ spoiled
             \/ call.task.kind = "pii" /\ ~call.read
             \/ swaps > 0 /\ promoted

(* An answer to a PII task is the text as it was, or the text masked by    *)
(* scores that are no labels, only when the output hardly varied or the    *)
(* model had been swapped for another.                                     *)
PiiLeakHasCause ==
    Answered /\ call.task.kind = "pii" =>
        /\ call.how = "raw" => call.silent
        /\ call.how = "guess" => swaps > 0

(* The model a record names is the one the inference ran on, unless it ran *)
(* on a standby, which has the name of the model it stands in for.         *)
RecordNamesModel ==
    \A i \in DOMAIN log : log[i].name = log[i].ran \/ log[i].promoted

TextsAreMasked == \A text \in Texts : MasksEntities(text.tokens, text.length)

(* An answer masked by a model's labels keeps exactly what is no entity and*)
(* not between two parts of one, whatever the labels and wherever tokens   *)
(* without a place stand.                                                  *)
EntityAnswersAreMasked ==
    Answered /\ call.how = "entities" => TextsAreMasked

(* A machine that is cooler, less busy, better charged or has more memory  *)
(* than the one a task was decided for would be let run it as well: the    *)
(* rules do not contradict each other.                                     *)
BetterMachineKeepsWork ==
    call # None /\ ~call.answered =>
        \A m \in Readings : KeepsWork(m, call.reading)

=============================================================================
